------------------------------ MODULE I3Client ------------------------------
(***************************************************************************)
(* The request/reply client of i3's IPC socket.  Goroutines call roundTrip *)
(* concurrently; a mutex lets one of them at a time use the one            *)
(* connection.  A call dials if there is no connection, writes its request *)
(* and reads a reply, all before a deadline; after a recoverable error it  *)
(* closes the connection, dials again and tries once more.                 *)
(*                                                                         *)
(* i3 (external code) takes the requests of a connection in order and may  *)
(* be slow, stuck, or restart.  A request is a number, one per call; a     *)
(* reply is the number of the request it answers and its form on the wire: *)
(*   whole   complete                                                      *)
(*   huge    its header announces more than the client's limit             *)
(*   cut     the connection ended in the middle of it                      *)
(*   rest    what is left after its beginning was read                     *)
(***************************************************************************)
EXTENDS Naturals, Sequences

CONSTANTS
  Callers,     \* goroutines that use the client
  NoOne,       \* the mutex is free
  Forms,       \* forms of i3's replies: a subset of {"whole", "huge"}
  MaxCalls,    \* bound: calls
  MaxCrashes   \* bound: restarts of i3

ASSUME I3ClientAssumption ==
  /\ NoOne \notin Callers /\ Forms \subseteq {"whole", "huge"}
  /\ MaxCalls \in Nat /\ MaxCrashes \in Nat

VARIABLES
  up,         \* i3 listens
  served,     \* connections i3 has open
  requests,   \* per connection, requests i3 has not read
  inbox,      \* replies on the client's connection it has not read
  executed,   \* per request, how often i3 has executed it
  crashes,    \* restarts so far
  mu,         \* holder of the mutex, or NoOne
  conn,       \* the client's connection, 0 for nil
  pc,         \* per caller: "idle", "lock", "dial", "write", "read"
  try,        \* attempt of the call that holds the mutex
  call,       \* per caller: number of its latest call, 0 for none
  calls,      \* calls so far
  ended,      \* per caller: how its latest call ended
  leftOver    \* connections that a failed call left open

i3Vars == <<up, served, requests, inbox, executed, crashes>>
clientVars == <<mu, conn, pc, try, call, calls, ended, leftOver>>
vars == <<i3Vars, clientVars>>

Requests == 1..MaxCalls
Conns == 1..(2 * MaxCalls)   \* one for each attempt of each call

Reply == [to : Requests, form : {"whole", "huge", "cut", "rest"}]

(* The end of a call: not yet, a reply read from a connection, or an error. *)
Ending == [kind : {"none"}]
          \cup [kind : {"reply"}, to : Requests, from : Conns]
          \cup [kind : {"error"}, cause : {"dial", "pipe", "eof", "timeout", "desync",
                                           "huge", "cut"}, tries : {1, 2}]

Pending == [kind |-> "none"]

(* Every variable holds a value of its type, and only the holder of the mutex
   is inside roundTrip (i3client.go:32-39, 128-131). *)
ClientTypeOK ==
  /\ up \in BOOLEAN /\ served \subseteq Conns /\ crashes \in Nat
  /\ requests \in [Conns -> Seq(Requests)] /\ inbox \in Seq(Reply)
  /\ executed \in [Requests -> Nat]
  /\ mu \in Callers \cup {NoOne}
  /\ conn \in Conns \cup {0}
  /\ pc \in [Callers -> {"idle", "lock", "dial", "write", "read"}]
  /\ \A c \in Callers : pc[c] \in {"dial", "write", "read"} <=> mu = c
  /\ try \in {1, 2}
  /\ call \in [Callers -> Requests \cup {0}] /\ calls \in 0..MaxCalls
  /\ ended \in [Callers -> Ending]
  /\ leftOver \subseteq Conns

Init ==
  /\ up = TRUE /\ served = {} /\ crashes = 0
  /\ requests = [k \in Conns |-> <<>>] /\ inbox = <<>>
  /\ executed = [r \in Requests |-> 0]
  /\ mu = NoOne /\ conn = 0
  /\ pc = [c \in Callers |-> "idle"] /\ try = 1
  /\ call = [c \in Callers |-> 0] /\ calls = 0
  /\ ended = [c \in Callers |-> Pending] /\ leftOver = {}

-----------------------------------------------------------------------------
(* i3 *)

(* i3 takes the next request of a connection, also of one the client has
   closed meanwhile, executes it and answers. *)
Take(k, form) ==
  /\ k \in served /\ requests[k] # <<>>
  /\ executed' = [executed EXCEPT ![Head(requests[k])] = @ + 1]
  /\ inbox' = IF k = conn THEN Append(inbox, [to |-> Head(requests[k]), form |-> form])
                          ELSE inbox

Execute(k) ==
  /\ \E form \in Forms : Take(k, form)
  /\ requests' = [requests EXCEPT ![k] = Tail(@)]
  /\ UNCHANGED <<up, served, crashes, clientVars>>

(* i3 goes away, idle or in the middle of a reply. *)
Crash ==
  /\ up /\ crashes < MaxCrashes
  /\ up' = FALSE /\ served' = {} /\ crashes' = crashes + 1
  /\ requests' = [k \in Conns |-> <<>>]
  /\ UNCHANGED clientVars
  /\ \/ UNCHANGED <<inbox, executed>>
     \/ \E k \in Conns : Take(k, "cut")

Start ==
  /\ ~up /\ up' = TRUE
  /\ UNCHANGED <<served, requests, inbox, executed, crashes, clientVars>>

-----------------------------------------------------------------------------
(* roundTrip *)

Call(c) ==
  /\ pc[c] = "idle" /\ calls < MaxCalls
  /\ calls' = calls + 1 /\ call' = [call EXCEPT ![c] = calls + 1]
  /\ pc' = [pc EXCEPT ![c] = "lock"] /\ ended' = [ended EXCEPT ![c] = Pending]
  /\ UNCHANGED <<i3Vars, mu, conn, try, leftOver>>

(* mu.Lock(); the first attempt starts with ensureConnLocked. *)
Lock(c) ==
  /\ pc[c] = "lock" /\ mu = NoOne
  /\ mu' = c /\ try' = 1
  /\ pc' = [pc EXCEPT ![c] = IF conn = 0 THEN "dial" ELSE "write"]
  /\ UNCHANGED <<i3Vars, conn, call, calls, ended, leftOver>>

(* Mutant: the mutex stays locked. *)
ReturnLocked(c, ending) ==
  /\ pc' = [pc EXCEPT ![c] = "idle"] /\ ended' = [ended EXCEPT ![c] = ending]
  /\ UNCHANGED <<mu, try, call, calls>>

(* roundTrip returns, and the deferred Unlock runs. *)
Return(c, ending) ==
  /\ pc' = [pc EXCEPT ![c] = "idle"] /\ ended' = [ended EXCEPT ![c] = ending]
  /\ mu' = NoOne
  /\ UNCHANGED <<try, call, calls>>

Fails(c, cause) ==
  /\ Return(c, [kind |-> "error", cause |-> cause, tries |-> try])
  /\ leftOver' = leftOver \cup ({conn} \ {0}) /\ UNCHANGED conn

(* isRecoverableIPCError: truncated replies (io.ErrUnexpectedEOF) and replies
   over the limit are not. *)
Recoverable(cause) == cause \notin {"huge", "cut"}

(* Mutant: the retry keeps the broken or late connection. *)
RetryWithoutClose(c, cause) ==
  IF try = 1 /\ Recoverable(cause)
  THEN /\ try' = 2 /\ pc' = [pc EXCEPT ![c] = IF conn = 0 THEN "dial" ELSE "write"]
       /\ UNCHANGED <<mu, conn, call, calls, ended, leftOver>>
  ELSE Fails(c, cause)

(* Mutant: every recoverable error is retried. *)
RetryAgain(c, cause) ==
  IF Recoverable(cause)
  THEN /\ try' = 2 /\ conn' = 0 /\ pc' = [pc EXCEPT ![c] = "dial"]
       /\ UNCHANGED <<mu, call, calls, ended, leftOver>>
  ELSE Fails(c, cause)

(* An attempt fails: after a recoverable error of the first one the connection
   is closed and dialled anew for the second; otherwise the call fails and
   leaves the connection as it is. *)
AttemptFails(c, cause) ==
  IF try = 1 /\ Recoverable(cause)
  THEN /\ try' = 2 /\ conn' = 0 /\ pc' = [pc EXCEPT ![c] = "dial"]
       /\ UNCHANGED <<mu, call, calls, ended, leftOver>>
  ELSE Fails(c, cause)

(* A connection has the number of the attempt that dials it. *)
Dialled(c) == 2 * call[c] + try - 2

DialOK(c) ==
  /\ pc[c] = "dial" /\ up
  /\ conn' = Dialled(c) /\ served' = served \cup {Dialled(c)} /\ inbox' = <<>>
  /\ pc' = [pc EXCEPT ![c] = "write"]
  /\ UNCHANGED <<up, requests, executed, crashes, mu, try, call, calls, ended, leftOver>>

(* Nobody listens, or i3 does not accept in time.  (After a failed redial the
   code returns the first attempt's error, which nobody tells apart.) *)
DialFails(c) ==
  /\ pc[c] = "dial" /\ AttemptFails(c, "dial")
  /\ UNCHANGED i3Vars

(* The deadline is set and the request written. *)
Write(c) ==
  /\ pc[c] = "write" /\ conn \in served
  /\ requests' = [requests EXCEPT ![conn] = Append(@, call[c])]
  /\ pc' = [pc EXCEPT ![c] = "read"]
  /\ UNCHANGED <<up, served, inbox, executed, crashes, mu, conn, try, call, calls,
                 ended, leftOver>>

(* i3 has closed the connection: EPIPE. *)
WriteFails(c) ==
  /\ pc[c] = "write" /\ conn \notin served /\ AttemptFails(c, "pipe")
  /\ UNCHANGED i3Vars

-----------------------------------------------------------------------------
(* Reading the reply *)

NextReply(form) == inbox # <<>> /\ Head(inbox).form = form

Consume == inbox' = Tail(inbox)
LeaveRest == inbox' = <<[Head(inbox) EXCEPT !.form = "rest"]>> \o Tail(inbox)

OnlyInbox == UNCHANGED <<up, served, requests, executed, crashes>>

(* A whole reply is taken for the answer; its type is not compared with the
   request's. *)
ReadReply(c) ==
  /\ pc[c] = "read" /\ NextReply("whole")
  /\ Consume /\ OnlyInbox
  /\ Return(c, [kind |-> "reply", to |-> Head(inbox).to, from |-> conn])
  /\ UNCHANGED <<conn, leftOver>>

(* Not a header: "framing desync". *)
ReadDesync(c) ==
  /\ pc[c] = "read" /\ NextReply("rest") /\ AttemptFails(c, "desync")
  /\ UNCHANGED i3Vars

(* "reply too large": the payload stays in the stream. *)
ReadTooLarge(c) ==
  /\ pc[c] = "read" /\ NextReply("huge")
  /\ LeaveRest /\ OnlyInbox /\ AttemptFails(c, "huge")

(* The stream ends inside the reply: io.ErrUnexpectedEOF. *)
ReadCut(c) ==
  /\ pc[c] = "read" /\ NextReply("cut")
  /\ Consume /\ OnlyInbox /\ AttemptFails(c, "cut")

(* The stream ends before a reply: io.EOF. *)
ReadEOF(c) ==
  /\ pc[c] = "read" /\ inbox = <<>> /\ conn \notin served
  /\ AttemptFails(c, "eof")
  /\ UNCHANGED i3Vars

(* Mutant: no deadline. *)
NoDeadline(c) == FALSE

(* The deadline passes before the reply was read, or in the middle of it. *)
ReadTimeout(c) ==
  /\ pc[c] = "read" /\ OnlyInbox
  /\ \/ UNCHANGED inbox
     \/ NextReply("whole") /\ LeaveRest
  /\ AttemptFails(c, "timeout")

-----------------------------------------------------------------------------
(* Close, called once when Run returns; other goroutines may still call. *)
Close ==
  /\ mu = NoOne /\ conn # 0 /\ conn' = 0
  /\ UNCHANGED <<i3Vars, mu, pc, try, call, calls, ended, leftOver>>

ClientStep(c) ==
  \/ DialOK(c) \/ DialFails(c) \/ Write(c) \/ WriteFails(c)
  \/ ReadReply(c) \/ ReadDesync(c) \/ ReadTooLarge(c) \/ ReadCut(c) \/ ReadEOF(c)
  \/ ReadTimeout(c)

I3Step == (\E k \in Conns : Execute(k)) \/ Crash \/ Start

Terminated ==
  calls = MaxCalls /\ (\A c \in Callers : pc[c] = "idle") /\ UNCHANGED vars

Next ==
  \/ \E c \in Callers : Call(c) \/ Lock(c) \/ ClientStep(c)
  \/ Close \/ I3Step \/ Terminated

Spec == Init /\ [][Next]_vars

(* The goroutines run, the deadline passes, and the mutex is handed to every
   waiter some time.  Nothing is assumed of i3. *)
FairSpec ==
  /\ Spec
  /\ \A c \in Callers : WF_vars(ClientStep(c)) /\ SF_vars(Lock(c))

-----------------------------------------------------------------------------
(* Properties *)

(* A reply belongs to the call that returns it, unless it came over a
   connection that an earlier, failed call left open (i3client.go:128-161). *)
ReplyMatches ==
  \A c \in Callers :
    ended[c].kind = "reply" => ended[c].to = call[c] \/ ended[c].from \in leftOver

(* However slow i3 is and however often it restarts, it executes a request at
   most twice; a call that needed no retry is executed at most once
   (i3client.go:133-161). *)
ExecutedAtMostTwice ==
  /\ \A r \in Requests : executed[r] <= 2
  /\ \A c \in Callers : mu = c /\ try = 1 => executed[call[c]] <= 1

(* i3client.go:129, "Single in-flight request per client": when no call is
   running, nothing is under way on the connection.  A call whose retry timed
   out leaves its request there. *)
SingleInFlight ==
  mu = NoOne /\ conn # 0 => requests[conn] = <<>> /\ inbox = <<>>

(* i3client.go:143, "For connection-level problems (or framing desync),
   reconnect and retry once": no call fails because its connection ended
   without having tried twice. *)
BrokenIsRetried ==
  \A c \in Callers :
    ended[c].kind = "error" /\ ended[c].cause \in {"pipe", "eof", "cut", "desync"}
      => ended[c].tries = 2

(* i3client.go:172, "Deadline keeps a stuck socket from hanging the daemon
   forever": every call returns, whatever i3 does. *)
CallReturns == \A c \in Callers : pc[c] # "idle" ~> pc[c] = "idle"
=============================================================================
