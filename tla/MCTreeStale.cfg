\* One watcher, two handlers, two versions of the tree.
SPECIFICATION Spec
CONSTANTS
  Main = main
  Watchers = {w1}
  Nobody = Nobody
  Nil = Nil
  MaxVersion = 2
  MaxHandlers = 1
INVARIANT TreeFromThisDispatch
