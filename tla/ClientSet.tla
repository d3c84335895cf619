------------------------------ MODULE ClientSet ------------------------------
(***************************************************************************)
(* The client process of the proxy as its listeners see it: the event loop *)
(* of run_proxy_loop, which serves at most a burst of DISCOVER and         *)
(* KEEPALIVE datagrams and then one frame of the pipe, and struct          *)
(* client_set, the map of the listeners and of when each was heard last.   *)
(*                                                                         *)
(* The map holds times; here it holds ages, the whole seconds since that   *)
(* time, which is all that expired() looks at, so that the model needs no  *)
(* bound on time.  Two decisions that look at the clock are never in one   *)
(* step: the second may change between them.                               *)
(*                                                                         *)
(* How a frame is put together from the pipe is AudioPipe's subject; here  *)
(* a frame waits in the pipe and is then sent.                             *)
(***************************************************************************)
EXTENDS Integers, Sequences, FiniteSets

CONSTANTS
  Addr,       \* addresses of listeners, numbered in the order of client_cmp
  MaxClients, \* 64, client_set::max_clients
  Timeout,    \* -T, in seconds
  Burst,      \* 3, datagrams served per wake-up
  InboxCap,   \* datagrams the socket buffer holds; more are lost
  PipeMax     \* bound of the model: frames waiting in the pipe

ASSUME ListenersAssumption ==
  /\ Addr \subseteq Nat \ {0} /\ IsFiniteSet(Addr)
  /\ MaxClients \in Nat \ {0} /\ Timeout \in Nat /\ Burst \in Nat \ {0}
  /\ InboxCap \in Nat /\ PipeMax \in Nat

VARIABLES
  connected, \* the map: seconds since each listener in it was heard
  inbox,     \* datagrams in the buffer of the unicast socket
  pending,   \* frames that wait in the pipe
  stop,      \* a SIGINT is pending (never consumed)
  pc,        \* where run_proxy_loop is
  ready,     \* select reported the pipe as well
  cnt,       \* datagrams served since select returned
  msg,       \* the datagram being served
  cursor,    \* the last listener the send loop has looked at
  sent,      \* cnt of client_set_send_datagram
  receivers, \* history: whom the frame was sent to
  answered   \* history: the IAM was sent for msg

world == <<inbox, pending, stop>>
turn  == <<ready, cnt, msg, answered>>
pass  == <<cursor, sent, receivers>>
vars  == <<connected, world, pc, turn, pass>>

Discover(a)  == [type |-> "DISCOVER", from |-> a]
KeepAlive(a) == [type |-> "KEEPALIVE", from |-> a]
Wrong        == [type |-> "WRONG_ANNOUNCEMENT", from |-> 0]
Datagrams    == {Discover(a) : a \in Addr} \cup {KeepAlive(a) : a \in Addr} \cup {Wrong}

-----------------------------------------------------------------------------
(***************************************************************************)
(* The map.  (X_Y is a plausible mistake in X; it is used only to see that *)
(* a property notices it.)                                                 *)
(***************************************************************************)
Members == DOMAIN connected

\* !(t + timeout + 1 > now)
Expired_Early(a) == connected[a] >= Timeout
Expired(a) == ~(connected[a] < Timeout + 1)

Contains(a) == a \in Members /\ ~Expired(a)

Without(a) == [x \in Members \ {a} |-> connected[x]]
Heard(a)   == [x \in Members \cup {a} |-> IF x = a THEN 0 ELSE connected[x]]

\* client_set_add_client: insert leaves an entry that is there as it is.  Its code for
\* memory that ran out is ignored.
AddClient(a) ==
  \/ connected' = IF a \in Members THEN connected ELSE Heard(a)
  \/ connected' = connected

\* client_set_refresh_client looks at the clock again.
RefreshClient(a) ==
  connected' = IF a \notin Members THEN connected
               ELSE IF Expired(a) THEN Without(a) ELSE Heard(a)

-----------------------------------------------------------------------------
(***************************************************************************)
(* The event loop.                                                         *)
(***************************************************************************)
\* proxy_handle has the last byte of a frame: client_set_send_datagram.
BeginPass == pc' = "pass" /\ cursor' = 0 /\ sent' = 0 /\ receivers' = {}

\* What select reports of the pipe; the set is built anew before each call.
PipeReported_Stale == ready \/ pending > 0
PipeReported == pending > 0

\* select: the signal comes first, announcements come before the pipe.
Select_SignalLast ==
  /\ pc = "select" /\ (stop \/ inbox # <<>> \/ pending > 0)
  /\ ready' = PipeReported /\ cnt' = 0
  /\ \/ inbox # <<>> /\ pc' = "receive" /\ UNCHANGED pass
     \/ inbox = <<>> /\ pending > 0 /\ BeginPass
     \/ inbox = <<>> /\ pending = 0 /\ pc' = "exited" /\ UNCHANGED pass
  /\ UNCHANGED <<connected, world, msg, answered>>
Select_PipeFirst ==
  /\ pc = "select" /\ (stop \/ inbox # <<>> \/ pending > 0)
  /\ ready' = PipeReported /\ cnt' = 0
  /\ \/ stop /\ pc' = "exited" /\ UNCHANGED pass
     \/ ~stop /\ pending = 0 /\ pc' = "receive" /\ UNCHANGED pass
     \/ ~stop /\ pending > 0 /\ BeginPass
  /\ UNCHANGED <<connected, world, msg, answered>>
Select ==
  /\ pc = "select" /\ (stop \/ inbox # <<>> \/ pending > 0)
  /\ ready' = PipeReported /\ cnt' = 0
  /\ \/ stop /\ pc' = "exited" /\ UNCHANGED pass
     \/ ~stop /\ inbox # <<>> /\ pc' = "receive" /\ UNCHANGED pass
     \/ ~stop /\ inbox = <<>> /\ BeginPass
  /\ UNCHANGED <<connected, world, msg, answered>>

\* datagram_handle goes on to the next datagram.
MoreAnnouncements_OneMore   == cnt <= Burst /\ inbox # <<>>
MoreAnnouncements == cnt < Burst /\ inbox # <<>>

\* Every datagram that was read counts, of whatever kind.
Count_Served(m) == IF m = Wrong THEN cnt ELSE cnt + 1
Count(m) == cnt + 1

\* unicast_handle: what the look into the map makes of the datagram m.
Service_AnyJoins(m) ==
  IF m = Wrong THEN "receive" ELSE IF Contains(m.from) THEN "refresh" ELSE "reply"
Service(m) ==
  IF m = Wrong THEN "receive"
  ELSE IF Contains(m.from) THEN "refresh"
  ELSE IF m.type = "DISCOVER" THEN "reply" ELSE "receive"

\* receive_annoucement, and client_set_contains, which drops a listener that
\* it finds expired.
Receive ==
  /\ pc = "receive" /\ MoreAnnouncements
  /\ LET m == Head(inbox) IN
       /\ msg' = m /\ pc' = Service(m) /\ cnt' = Count(m)
       /\ connected' = IF m.from \in Members /\ Expired(m.from)
                         THEN Without(m.from) ELSE connected
  /\ inbox' = Tail(inbox) /\ answered' = FALSE
  /\ UNCHANGED <<pending, stop, ready, pass>>

\* A listener that is not in the map is sent the IAM and put there, if there is memory.
Reply ==
  /\ pc = "reply" /\ pc' = "receive"
  /\ answered' = TRUE /\ AddClient(msg.from)
  /\ UNCHANGED <<world, ready, cnt, msg, pass>>

\* The IAM cannot be sent: exit(1).
ReplyFails ==
  /\ pc = "reply" /\ pc' = "exited"
  /\ UNCHANGED <<connected, world, turn, pass>>

Refresh ==
  /\ pc = "refresh" /\ pc' = "receive"
  /\ RefreshClient(msg.from)
  /\ UNCHANGED <<world, turn, pass>>

\* datagram_handle ends; the pipe is served if select reported it.
AnnouncementsDone ==
  /\ pc = "receive" /\ ~MoreAnnouncements
  /\ IF ready THEN BeginPass ELSE pc' = "select" /\ UNCHANGED pass
  /\ UNCHANGED <<connected, world, turn>>

\* One turn of the loop of client_set_send_datagram, which walks the map in the
\* order of the addresses: the listener is sent the frame or erased.
Ahead == {a \in Members : a > cursor}

Keep_Expired(a) == sent < MaxClients
Keep(a) == ~Expired(a) /\ sent < MaxClients

\* Where the iterator has got to.
Advance_SkipErased(a) ==
  IF Keep(a) \/ Ahead = {a} THEN a
  ELSE CHOOSE b \in Ahead \ {a} : \A c \in Ahead \ {a} : b <= c
Advance(a) == a

Visit(a) ==
  /\ pc = "pass" /\ a \in Ahead /\ \A b \in Ahead : a <= b
  /\ \/ /\ Keep(a)
        /\ sent' = sent + 1 /\ receivers' = receivers \cup {a}
        /\ UNCHANGED connected
     \/ /\ ~Keep(a)
        /\ connected' = Without(a)
        /\ UNCHANGED <<sent, receivers>>
  /\ cursor' = Advance(a)
  /\ UNCHANGED <<world, pc, turn>>

PassDone ==
  /\ pc = "pass" /\ Ahead = {}
  /\ pc' = "select" /\ pending' = pending - 1
  /\ UNCHANGED <<connected, inbox, stop, turn, pass>>

Loop == \/ Select \/ Receive \/ Reply \/ Refresh \/ AnnouncementsDone
        \/ \E a \in Addr : Visit(a)
        \/ PassDone

-----------------------------------------------------------------------------
(***************************************************************************)
(* The environment: listeners, the network, the pipe, the parent, the clock. *)
(***************************************************************************)
Arrive(m) ==
  /\ Len(inbox) < InboxCap /\ inbox' = Append(inbox, m)
  /\ UNCHANGED <<connected, pending, stop, pc, turn, pass>>

FrameComes ==
  /\ pending < PipeMax /\ pending' = pending + 1
  /\ UNCHANGED <<connected, inbox, stop, pc, turn, pass>>

Interrupt ==
  /\ ~stop /\ stop' = TRUE
  /\ UNCHANGED <<connected, inbox, pending, pc, turn, pass>>

\* A second passes.  Ages beyond the timeout are not told apart.
Tick ==
  /\ connected' = [a \in Members |->
                     IF connected[a] > Timeout THEN connected[a] ELSE connected[a] + 1]
  /\ UNCHANGED <<world, pc, turn, pass>>

Init ==
  /\ connected = [a \in {} |-> 0]
  /\ inbox = <<>> /\ pending = 0 /\ stop = FALSE
  /\ pc = "select" /\ ready = FALSE /\ cnt = 0 /\ msg = Wrong /\ answered = FALSE
  /\ cursor = 0 /\ sent = 0 /\ receivers = {}

Environment == (\E m \in Datagrams : Arrive(m)) \/ FrameComes \/ Interrupt \/ Tick

Next == Loop \/ ReplyFails \/ Environment

Spec == Init /\ [][Next]_vars

\* The process is scheduled again and again; the environment owes nothing.
FairSpec == Spec /\ WF_vars(Loop)

-----------------------------------------------------------------------------
(***************************************************************************)
(* Safety.                                                                 *)
(***************************************************************************)

\* Types; no more than a burst is served, and no frame goes to more than the
\* listeners that client_set allows.
TypeOK ==
  /\ Members \subseteq Addr /\ connected \in [Members -> 0..(Timeout + 1)]
  /\ inbox \in Seq(Datagrams) /\ pending \in Nat /\ stop \in BOOLEAN
  /\ pc \in {"select", "receive", "reply", "refresh", "pass", "exited"}
  /\ ready \in BOOLEAN /\ cnt \in 0..Burst /\ msg \in Datagrams
  /\ answered \in BOOLEAN
  /\ cursor \in Addr \cup {0} /\ sent \in 0..MaxClients /\ receivers \subseteq Addr

\* While the send loop walks the map and erases from it, whom it has sent the
\* frame are exactly the listeners it leaves behind it in the map: nobody is
\* skipped by an erasure, nobody is kept without a frame.
WalkConsistent ==
  pc = "pass" =>
    /\ receivers = {a \in Members : a <= cursor}
    /\ sent = Cardinality(receivers)

\* What the loop is about to do is still called for when it does it: the IAM goes
\* to a listener that is not in the map, the refresh to one that is, and the pipe
\* that select reported before the announcements were served still has a frame.
LoopConsistent ==
  /\ pc = "reply" => \E a \in Addr : msg = Discover(a) /\ a \notin Members
  /\ pc = "refresh" => msg # Wrong /\ msg.from \in Members
  /\ pc = "pass" \/ (pc \in {"receive", "reply", "refresh"} /\ ready) => pending > 0

\* A listener is dropped only when it has been silent for longer than the timeout,
\* or when the frame has gone to as many listeners as are allowed before it.
DroppedForCause ==
  [][\A a \in Members \ DOMAIN connected' :
       \/ connected[a] > Timeout
       \/ Cardinality({b \in receivers : b < a}) = MaxClients]_vars

\* A KEEPALIVE never brings a forgotten listener back, and nobody is connected
\* who was not told which radio this is.
JoinsByDiscover ==
  [][\A a \in DOMAIN connected' \ Members : msg = Discover(a) /\ answered']_vars

-----------------------------------------------------------------------------
(***************************************************************************)
(* Liveness, under FairSpec.                                               *)
(***************************************************************************)

\* However many datagrams arrive, the frames of the pipe are sent.
PipeNotStarved == pending > 0 ~> pc \in {"pass", "exited"}

\* However many frames come, a DISCOVER is looked at.
DiscoverServed ==
  \A a \in Addr :
    (\E i \in DOMAIN inbox : inbox[i] = Discover(a)) ~>
      (pc = "exited" \/ (msg = Discover(a) /\ pc \in {"reply", "refresh"}))

\* The process obeys its parent's SIGINT whatever else there is to do.
ClientObeysSignal == stop ~> pc = "exited"

\* A silent listener is forgotten with the next frame that is sent.  (Without a
\* frame nobody looks: the map of a proxy whose radio is silent only grows.)
SilentForgotten ==
  \A a \in Addr :
    (a \in Members /\ Expired(a) /\ pending > 0 /\ pc # "pass") ~>
      (pc = "exited" \/ a \notin Members)

-----------------------------------------------------------------------------
(***************************************************************************)
(* What the documentation says and the code does not do.                   *)
(***************************************************************************)

\* The service of the datagram msg ends.
Serviced == pc \in {"reply", "refresh"} /\ pc' = "receive"

\* Task.md:123: a listener that sends DISCOVER begins to receive.  (One that was sent the IAM
\* and left out for want of memory is not counted.)
DiscoverConnects ==
  [][Serviced /\ msg.type = "DISCOVER" => answered' \/ msg.from \in DOMAIN connected']_vars
===============================================================================
