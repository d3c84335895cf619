---------------------------- MODULE ClientSet_proof ----------------------------
(***************************************************************************)
(* Proofs about ClientSet.  The invariant is TypeOK, LoopConsistent and    *)
(* WalkConsistent together: pending stays a natural number only because    *)
(* the loop serves the pipe when it has a frame, and the limit of          *)
(* listeners, which the code counts, is a fact about the map only because  *)
(* the walk is consistent.                                                 *)
(***************************************************************************)
EXTENDS ClientSet, FiniteSetTheorems, TLAPS

\* What is known of a datagram in the buffer of the socket.
LEMMA DatagramFacts ==
  ASSUME ListenersAssumption, NEW m \in Datagrams
  PROVE  /\ m # Wrong => m.from \in Addr
         /\ m # Wrong /\ m.type = "DISCOVER" => m = Discover(m.from)
         /\ m # Wrong => 0 # m.from
BY DEF ListenersAssumption, Datagrams, Discover, KeepAlive, Wrong

\* The first datagram of a buffer that is not empty, and what is left after it.
LEMMA InboxFacts ==
  ASSUME inbox \in Seq(Datagrams), inbox # <<>>
  PROVE  Head(inbox) \in Datagrams /\ Tail(inbox) \in Seq(Datagrams)
OBVIOUS

\* f is a map from listeners to ages, as far as they are told apart.
AgesOf(f) == DOMAIN f \subseteq Addr /\ f \in [DOMAIN f -> 0..(Timeout + 1)]

\* The map is one of ages again when a listener is erased or heard.
LEMMA MapFacts ==
  ASSUME ListenersAssumption, TypeOK
  PROVE  /\ AgesOf(connected)
         /\ \A a \in Addr : /\ AgesOf(Without(a)) /\ DOMAIN Without(a) = Members \ {a}
                            /\ AgesOf(Heard(a)) /\ DOMAIN Heard(a) = Members \cup {a}
<1>1. Members \subseteq Addr /\ \A x \in Members : connected[x] \in 0..(Timeout + 1)
  BY DEF TypeOK
<1>2. 0 \in 0..(Timeout + 1)
  BY DEF ListenersAssumption
<1>3. AgesOf(connected)
  BY DEF AgesOf, TypeOK, Members
<1>4. ASSUME NEW a \in Addr
      PROVE  AgesOf(Without(a)) /\ DOMAIN Without(a) = Members \ {a}
  BY <1>1 DEF AgesOf, Without
<1>5. ASSUME NEW a \in Addr
      PROVE  AgesOf(Heard(a)) /\ DOMAIN Heard(a) = Members \cup {a}
  BY <1>1, <1>2 DEF AgesOf, Heard
<1> QED BY <1>3, <1>4, <1>5

\* An expired listener has been silent for longer than the timeout.
LEMMA ExpiredFacts ==
  ASSUME ListenersAssumption, TypeOK, NEW a \in Members, Expired(a)
  PROVE  connected[a] > Timeout
<1>1. connected[a] \in 0..(Timeout + 1) /\ Timeout \in Nat
  BY DEF ListenersAssumption, TypeOK
<1> QED BY <1>1 DEF Expired

-----------------------------------------------------------------------------
(***************************************************************************)
(* Types and the consistency of the loop.                                  *)
(***************************************************************************)

\* Every step keeps the types: the pipe is served only when it has a frame, and the
\* limits of datagrams and of listeners are guards of the steps that count.
LEMMA TypeStep ==
  ASSUME ListenersAssumption, TypeOK, LoopConsistent, [Next]_vars
  PROVE  TypeOK'
<1> USE DEF turn, pass, world, BeginPass
<1>0. /\ Timeout \in Nat /\ MaxClients \in Nat \ {0} /\ Burst \in Nat \ {0}
      /\ Members \subseteq Addr /\ DOMAIN connected' = Members'
  BY DEF ListenersAssumption, TypeOK, Members
<1>1. CASE Select
  BY <1>0, <1>1 DEF Select, PipeReported, TypeOK, Members
<1>2. CASE Receive
  <2>1. Head(inbox) \in Datagrams /\ Tail(inbox) \in Seq(Datagrams)
    BY <1>2, InboxFacts DEF Receive, MoreAnnouncements, TypeOK
  <2> PICK m \in Datagrams : m = Head(inbox)
    BY <2>1
  <2>2. AgesOf(connected')
    <3>1. CASE m.from \in Members /\ Expired(m.from)
      <4>1. connected' = Without(m.from) /\ m.from \in Addr
        BY <1>0, <1>2, <3>1 DEF Receive
      <4> QED BY <4>1, MapFacts
    <3>2. CASE ~(m.from \in Members /\ Expired(m.from))
      BY <1>2, <3>2, MapFacts DEF Receive
    <3> QED BY <3>1, <3>2
  <2>3. cnt' \in 0..Burst
    BY <1>0, <1>2 DEF Receive, Count, MoreAnnouncements, TypeOK
  <2>4. pc' \in {"receive", "reply", "refresh"} /\ msg' = m
    BY <1>2 DEF Receive, Service
  <2> QED BY <1>2, <2>1, <2>2, <2>3, <2>4 DEF Receive, TypeOK, AgesOf, Members
<1>3. CASE Reply
  <2>1. msg.from \in Addr
    BY <1>3 DEF Reply, LoopConsistent, Discover
  <2>2. connected' \in {connected, Heard(msg.from)}
    BY <1>3 DEF Reply, AddClient
  <2>3. AgesOf(connected')
    BY <2>1, <2>2, MapFacts
  <2> QED BY <1>3, <2>3 DEF Reply, TypeOK, AgesOf, Members
<1>4. CASE ReplyFails
  BY <1>4 DEF ReplyFails, TypeOK, Members
<1>5. CASE Refresh
  <2>1. msg.from \in Addr
    BY <1>0, <1>5 DEF Refresh, LoopConsistent
  <2>2. connected' \in {connected, Without(msg.from), Heard(msg.from)}
    BY <1>5 DEF Refresh, RefreshClient
  <2>3. AgesOf(connected')
    BY <2>1, <2>2, MapFacts
  <2> QED BY <1>5, <2>3 DEF Refresh, TypeOK, AgesOf, Members
<1>6. CASE AnnouncementsDone
  BY <1>0, <1>6 DEF AnnouncementsDone, TypeOK, Members
<1>7. ASSUME NEW a \in Addr, Visit(a) PROVE TypeOK'
  <2>1. connected' \in {connected, Without(a)}
    BY <1>7 DEF Visit
  <2>2. AgesOf(connected')
    BY <2>1, MapFacts
  <2>3. receivers' \subseteq Addr /\ cursor' = a
    BY <1>7 DEF Visit, Advance, TypeOK
  <2>4. sent \in 0..MaxClients /\ (sent' = sent \/ (sent < MaxClients /\ sent' = sent + 1))
    BY <1>7 DEF Visit, Keep, TypeOK
  <2>5. sent' \in 0..MaxClients
    BY <1>0, <2>4
  <2> QED BY <1>7, <2>2, <2>3, <2>5 DEF Visit, TypeOK, AgesOf, Members
<1>8. CASE PassDone
  <2>1. pending' \in Nat
    BY <1>8 DEF PassDone, LoopConsistent, TypeOK
  <2> QED BY <1>8, <2>1 DEF PassDone, TypeOK, Members
<1>9. ASSUME NEW m \in Datagrams, Arrive(m) PROVE TypeOK'
  BY <1>9 DEF Arrive, TypeOK, Members
<1>10. CASE FrameComes
  <2>1. pending' \in Nat
    BY <1>10 DEF FrameComes, TypeOK
  <2>2. UNCHANGED <<connected, inbox, stop, pc, turn, pass>>
    BY <1>10 DEF FrameComes
  <2> QED BY <2>1, <2>2 DEF TypeOK, Members, turn, pass
<1>11. CASE Interrupt
  BY <1>11 DEF Interrupt, TypeOK, Members
<1>12. CASE Tick
  <2>1. \A x \in Members : connected[x] \in 0..(Timeout + 1)
    BY DEF TypeOK
  <2>2. \A x \in Members :
          (IF connected[x] > Timeout THEN connected[x] ELSE connected[x] + 1)
            \in 0..(Timeout + 1)
    BY <1>0, <2>1
  <2>3. Members' = Members /\ connected' \in [Members -> 0..(Timeout + 1)]
    BY <1>12, <2>2 DEF Tick, Members
  <2> QED BY <1>0, <1>12, <2>3 DEF Tick, TypeOK
<1>13. CASE UNCHANGED vars
  BY <1>13 DEF vars, TypeOK, Members
<1> QED BY <1>1, <1>2, <1>3, <1>4, <1>5, <1>6, <1>7, <1>8, <1>9, <1>10, <1>11, <1>12,
            <1>13 DEF Next, Loop, Environment

\* Every step keeps what the loop is about to do called for: whoever is looked up in
\* the map is looked up by the loop alone, and only a pass takes a frame away.
LEMMA LoopStep ==
  ASSUME ListenersAssumption, TypeOK, LoopConsistent, [Next]_vars
  PROVE  LoopConsistent'
<1> USE DEF turn, pass, world, BeginPass
<1>0. /\ pending \in Nat /\ Members \subseteq Addr /\ DOMAIN connected' = Members'
      /\ msg \in Datagrams
  BY DEF TypeOK, Members
<1>1. CASE Select
  BY <1>0, <1>1 DEF Select, PipeReported, LoopConsistent, TypeOK
<1>2. CASE Receive
  <2>1. inbox # <<>> /\ inbox \in Seq(Datagrams)
    BY <1>2 DEF Receive, MoreAnnouncements, TypeOK
  <2> PICK m \in Datagrams : m = Head(inbox)
    BY <2>1, InboxFacts
  <2>2. /\ msg' = m /\ pc' = Service(m) /\ UNCHANGED <<pending, ready>> /\ pc = "receive"
        /\ connected' = IF m.from \in Members /\ Expired(m.from)
                          THEN Without(m.from) ELSE connected
    BY <1>2 DEF Receive
  <2>3. pc' \in {"receive", "refresh", "reply"}
    BY <2>2 DEF Service
  <2>4. pc' = "reply" => \E a \in Addr : msg' = Discover(a) /\ a \notin Members'
    <3> HAVE pc' = "reply"
    <3>1. m # Wrong /\ m.type = "DISCOVER" /\ ~Contains(m.from)
      BY <2>2 DEF Service
    <3>2. m.from \in Addr /\ m = Discover(m.from)
      BY <3>1, DatagramFacts
    <3>3. m.from \notin DOMAIN connected'
      BY <2>2, <3>1, <3>2, MapFacts DEF Contains, Members
    <3> QED BY <1>0, <2>2, <3>2, <3>3
  <2>5. pc' = "refresh" => msg' # Wrong /\ msg'.from \in Members'
    BY <1>0, <2>2 DEF Service, Contains, Members
  <2>6. ready' => pending' > 0
    BY <2>2 DEF LoopConsistent
  <2>7. Wrong' = Wrong
    BY DEF Wrong
  <2> QED BY <2>3, <2>4, <2>5, <2>6 DEF LoopConsistent
<1>3. CASE Reply
  BY <1>3 DEF Reply, LoopConsistent
<1>4. CASE ReplyFails
  BY <1>4 DEF ReplyFails, LoopConsistent
<1>5. CASE Refresh
  BY <1>5 DEF Refresh, LoopConsistent
<1>6. CASE AnnouncementsDone
  BY <1>6 DEF AnnouncementsDone, LoopConsistent
<1>7. ASSUME NEW a \in Addr, Visit(a) PROVE LoopConsistent'
  BY <1>7 DEF Visit, LoopConsistent
<1>8. CASE PassDone
  BY <1>8 DEF PassDone, LoopConsistent
<1>9. ASSUME NEW m \in Datagrams, Arrive(m) PROVE LoopConsistent'
  BY <1>9 DEF Arrive, LoopConsistent, Members
<1>10. CASE FrameComes
  BY <1>0, <1>10 DEF FrameComes, LoopConsistent, Members
<1>11. CASE Interrupt
  BY <1>11 DEF Interrupt, LoopConsistent, Members
<1>12. CASE Tick
  <2>1. Members' = Members
    BY <1>12 DEF Tick, Members
  <2> QED BY <1>12, <2>1 DEF Tick, LoopConsistent
<1>13. CASE UNCHANGED vars
  BY <1>13 DEF vars, LoopConsistent, Members
<1> QED BY <1>1, <1>2, <1>3, <1>4, <1>5, <1>6, <1>7, <1>8, <1>9, <1>10, <1>11, <1>12,
            <1>13 DEF Next, Loop, Environment

-----------------------------------------------------------------------------
(***************************************************************************)
(* The walk.                                                               *)
(***************************************************************************)

\* A pass begins with nobody behind the iterator.
LEMMA WalkBegins ==
  ASSUME ListenersAssumption, TypeOK, BeginPass, Members' = Members
  PROVE  WalkConsistent'
<1>1. receivers' = {} /\ cursor' = 0 /\ sent' = 0
  BY DEF BeginPass
<1>2. {a \in Members' : a <= cursor'} = {}
  <2>1. Members' \subseteq Nat \ {0}
    BY DEF ListenersAssumption, TypeOK
  <2>2. \A a \in Nat \ {0} : ~(a <= 0)
    OBVIOUS
  <2> QED BY <1>1, <2>1, <2>2
<1>3. Cardinality({}) = 0
  BY FS_EmptySet
<1> QED BY <1>1, <1>2, <1>3 DEF WalkConsistent

\* A visit moves one listener from before the iterator to behind it, or out of the
\* map; the listeners behind it stay.
LEMMA WalkVisits ==
  ASSUME ListenersAssumption, TypeOK, WalkConsistent, NEW a \in Addr, Visit(a)
  PROVE  WalkConsistent'
<1>1. /\ pc = "pass" /\ a \in Members /\ a > cursor /\ cursor' = a
      /\ \A b \in Members : b > cursor => a <= b
  BY DEF Visit, Ahead, Advance
<1>2. /\ receivers = {x \in Members : x <= cursor} /\ sent = Cardinality(receivers)
  BY <1>1 DEF WalkConsistent
<1>3. /\ a \in Nat /\ cursor \in Nat /\ Members \subseteq Nat
      /\ IsFiniteSet(receivers)
  <2>1. IsFiniteSet(receivers)
    BY FS_Subset DEF ListenersAssumption, TypeOK
  <2> QED BY <2>1 DEF ListenersAssumption, TypeOK
<1>4. {x \in Members : x <= a} = receivers \cup {a} /\ a \notin receivers
  <2>1. ASSUME NEW x \in Members PROVE x <= a <=> x <= cursor \/ x = a
    <3>1. x \in Nat /\ (x > cursor => a <= x)
      BY <1>1, <1>3
    <3> QED BY ONLY <1>1, <1>3, <3>1
  <2>2. ~(a <= cursor)
    BY ONLY <1>1, <1>3
  <2> QED BY <1>1, <1>2, <2>1, <2>2
<1>5. CASE Keep(a) /\ sent' = sent + 1 /\ receivers' = receivers \cup {a} /\ UNCHANGED connected
  <2>1. Cardinality(receivers') = sent'
    BY <1>2, <1>3, <1>4, <1>5, FS_AddElement
  <2> QED BY <1>1, <1>4, <1>5, <2>1 DEF WalkConsistent, Members
<1>6. CASE ~Keep(a) /\ connected' = Without(a) /\ UNCHANGED <<sent, receivers>>
  <2>1. Members' = Members \ {a}
    BY <1>6, MapFacts DEF Members
  <2>2. {x \in Members' : x <= a} = receivers
    BY <1>4, <2>1
  <2> QED BY <1>1, <1>2, <1>6, <2>2 DEF WalkConsistent
<1> QED BY <1>5, <1>6 DEF Visit

\* Nothing but a visit touches the map's listeners during a pass.
LEMMA WalkStep ==
  ASSUME ListenersAssumption, TypeOK, WalkConsistent, [Next]_vars
  PROVE  WalkConsistent'
<1> USE DEF turn, pass, world
<1>1. CASE Select
  <2>1. Members' = Members
    BY <1>1 DEF Select, Members
  <2>2. BeginPass \/ pc' \in {"exited", "receive"}
    BY <1>1 DEF Select
  <2> QED BY <2>1, <2>2, WalkBegins DEF WalkConsistent
<1>2. CASE Receive
  <2>1. pc' \in {"receive", "refresh", "reply"}
    BY <1>2 DEF Receive, Service
  <2> QED BY <2>1 DEF WalkConsistent
<1>3. CASE Reply \/ ReplyFails \/ Refresh
  BY <1>3 DEF Reply, ReplyFails, Refresh, WalkConsistent
<1>4. CASE AnnouncementsDone
  <2>1. Members' = Members /\ (BeginPass \/ pc' = "select")
    BY <1>4 DEF AnnouncementsDone, Members
  <2> QED BY <2>1, WalkBegins DEF WalkConsistent
<1>5. ASSUME NEW a \in Addr, Visit(a) PROVE WalkConsistent'
  BY <1>5, WalkVisits
<1>6. CASE PassDone
  BY <1>6 DEF PassDone, WalkConsistent
<1>7. CASE Environment \/ UNCHANGED vars
  <2>1. Members' = Members /\ UNCHANGED <<pc, cursor, sent, receivers>>
    BY <1>7 DEF Environment, Arrive, FrameComes, Interrupt, Tick, vars, Members
  <2> QED BY <2>1 DEF WalkConsistent
<1> QED BY <1>1, <1>2, <1>3, <1>4, <1>5, <1>6, <1>7 DEF Next, Loop

-----------------------------------------------------------------------------
(***************************************************************************)
(* The theorems.                                                           *)
(***************************************************************************)

\* The inductive invariant.
LoopInv == TypeOK /\ LoopConsistent /\ WalkConsistent

\* The loop begins with an empty map, in front of its select.
LEMMA LoopInvInit ==
  ASSUME ListenersAssumption, Init
  PROVE  LoopInv
<1>1. Members = {} /\ connected \in [Members -> 0..(Timeout + 1)]
  BY DEF Init, Members
<1>2. inbox \in Seq(Datagrams) /\ Wrong \in Datagrams
  BY DEF Init, Datagrams
<1>3. cnt \in 0..Burst /\ sent \in 0..MaxClients
  BY DEF Init, ListenersAssumption
<1> QED BY <1>1, <1>2, <1>3 DEF Init, LoopInv, TypeOK, LoopConsistent, WalkConsistent

\* The loop always has the invariant.
LEMMA LoopInvAlways ==
  ASSUME ListenersAssumption
  PROVE  Spec => []LoopInv
<1>1. Init => LoopInv
  BY LoopInvInit
<1>2. LoopInv /\ [Next]_vars => LoopInv'
  BY TypeStep, LoopStep, WalkStep DEF LoopInv
<1> QED BY <1>1, <1>2, PTL DEF Spec

\* For any number of listeners, any timeout, limit and burst: the map, the counters
\* and the limits of client_set and of datagram_handle keep to their types.
THEOREM ListenersTypeCorrect ==
  ASSUME ListenersAssumption PROVE Spec => []TypeOK
<1>1. LoopInv => TypeOK
  BY DEF LoopInv
<1> QED BY <1>1, LoopInvAlways, PTL

\* What run_proxy_loop decided from the map or from select still holds when it acts.
THEOREM LoopActsOnFacts ==
  ASSUME ListenersAssumption PROVE Spec => []LoopConsistent
<1>1. LoopInv => LoopConsistent
  BY DEF LoopInv
<1> QED BY <1>1, LoopInvAlways, PTL

\* client_set_send_datagram, which erases from the map it walks over, has sent the
\* frame to exactly the listeners that it leaves behind it.
THEOREM NobodySkipped ==
  ASSUME ListenersAssumption PROVE Spec => []WalkConsistent
<1>1. LoopInv => WalkConsistent
  BY DEF LoopInv
<1> QED BY <1>1, LoopInvAlways, PTL

\* A listener leaves the map only when it was silent for too long, or when the frame
\* went to as many before it as are allowed.
THEOREM DropsAreForCause ==
  ASSUME ListenersAssumption PROVE Spec => DroppedForCause
<1> DEFINE Cause == \A a \in Members \ DOMAIN connected' :
                      \/ connected[a] > Timeout
                      \/ Cardinality({b \in receivers : b < a}) = MaxClients
<1>1. ASSUME LoopInv, Next, NEW a \in Members \ DOMAIN connected'
      PROVE  \/ connected[a] > Timeout
             \/ Cardinality({b \in receivers : b < a}) = MaxClients
  <2> USE DEF world, turn, pass
  <2>1. TypeOK /\ WalkConsistent /\ LoopConsistent /\ Members \subseteq Addr
    BY <1>1 DEF LoopInv, TypeOK
  <2>2. CASE Receive
    <3>1. Head(inbox).from = a /\ Expired(a)
      <4> PICK m : m = Head(inbox)
        OBVIOUS
      <4>1. m.from \in Members /\ Expired(m.from) /\ connected' = Without(m.from)
        BY <1>1, <2>2 DEF Receive, Members
      <4>2. DOMAIN connected' = Members \ {m.from}
        BY <2>1, <4>1, MapFacts
      <4>3. a = m.from
        BY <1>1, <4>2
      <4> QED BY <4>1, <4>3
    <3> QED BY <2>1, <3>1, ExpiredFacts
  <2>3. CASE Reply
    <3>1. connected' \in {connected, Heard(msg.from)} /\ msg.from \in Addr
      BY <2>1, <2>3 DEF Reply, AddClient, LoopConsistent, Discover
    <3> QED BY <2>1, <3>1, MapFacts DEF Members
  <2>4. CASE Refresh
    <3>1. /\ msg.from \in Members
          /\ connected' = IF Expired(msg.from) THEN Without(msg.from) ELSE Heard(msg.from)
      BY <2>1, <2>4 DEF Refresh, RefreshClient, LoopConsistent
    <3>2. Expired(msg.from) /\ DOMAIN connected' = Members \ {msg.from}
      <4>1. DOMAIN Heard(msg.from) = Members \cup {msg.from}
        BY <2>1, <3>1, MapFacts
      <4>2. DOMAIN Without(msg.from) = Members \ {msg.from}
        BY <2>1, <3>1, MapFacts
      <4> QED BY <1>1, <3>1, <4>1, <4>2
    <3>3. a = msg.from
      BY <1>1, <3>2
    <3>4. Expired(a)
      BY <3>2, <3>3
    <3> QED BY <2>1, <3>4, ExpiredFacts
  <2>5. ASSUME NEW b \in Addr, Visit(b)
        PROVE  \/ connected[a] > Timeout
               \/ Cardinality({x \in receivers : x < a}) = MaxClients
    <3>1. a = b /\ ~Keep(a) /\ pc = "pass" /\ a > cursor
      BY <2>1, <2>5, MapFacts DEF Visit, Members, Ahead
    <3>2. CASE Expired(a)
      BY <2>1, <3>2, ExpiredFacts
    <3>3. CASE ~Expired(a)
      <4>1. receivers = {x \in Members : x <= cursor} /\ sent = Cardinality(receivers)
        BY <2>1, <3>1 DEF WalkConsistent
      <4>2. sent = MaxClients
        BY <2>1, <3>1, <3>3 DEF Keep, TypeOK, ListenersAssumption
      <4>3. Members \subseteq Nat /\ cursor \in Nat /\ a \in Nat
        BY <2>1 DEF ListenersAssumption, TypeOK
      <4>4. \A x \in receivers : x < a
        BY <3>1, <4>1, <4>3
      <4>5. {x \in receivers : x < a} = receivers
        BY <4>4
      <4> QED BY <4>1, <4>2, <4>5
    <3> QED BY <3>2, <3>3
  <2>6. CASE Select \/ AnnouncementsDone \/ PassDone \/ ReplyFails \/ Environment
    <3>1. DOMAIN connected' = Members
      BY <2>6 DEF Select, AnnouncementsDone, PassDone, ReplyFails, Environment, Arrive,
                  FrameComes, Interrupt, Tick, Members
    <3> QED BY <3>1
  <2> QED BY <1>1, <2>2, <2>3, <2>4, <2>5, <2>6 DEF Next, Loop
<1>2. LoopInv /\ [Next]_vars => [Cause]_vars
  BY <1>1
<1> QED BY <1>2, LoopInvAlways, PTL DEF Spec, DroppedForCause

\* Only a DISCOVER that is answered brings a listener into the map.
THEOREM JoiningIsByDiscover ==
  ASSUME ListenersAssumption PROVE Spec => JoinsByDiscover
<1> DEFINE Joined == \A a \in DOMAIN connected' \ Members : msg = Discover(a) /\ answered'
<1>1. ASSUME LoopInv, Next, NEW a \in DOMAIN connected' \ Members
      PROVE  msg = Discover(a) /\ answered'
  <2> USE DEF world, turn, pass
  <2>1. TypeOK /\ LoopConsistent
    BY <1>1 DEF LoopInv
  <2>2. CASE Reply
    <3>1. PICK b \in Addr : msg = Discover(b) /\ b \notin Members
      BY <2>1, <2>2 DEF Reply, LoopConsistent
    <3>2. msg.from = b
      BY <3>1 DEF Discover
    <3>3. DOMAIN connected' \subseteq Members \cup {b}
      <4>1. connected' = connected \/ connected' = Heard(b)
        BY <2>2, <3>2 DEF Reply, AddClient
      <4> QED BY <2>1, <4>1, MapFacts DEF Members
    <3> QED BY <2>2, <3>1, <3>3 DEF Reply
  <2>3. CASE ~Reply
    <3>1. DOMAIN connected' \subseteq Members
      <4>1. ASSUME NEW b \in Members PROVE b \in Addr
        BY <2>1 DEF TypeOK
      <4>2. CASE Receive
        <5>1. \/ connected' = connected
              \/ \E b \in Members : connected' = Without(b)
          BY <4>2 DEF Receive
        <5> QED BY <2>1, <4>1, <5>1, MapFacts DEF Members
      <4>3. CASE Refresh
        <5> PICK b \in Members : b = msg.from
          BY <2>1, <4>3 DEF Refresh, LoopConsistent
        <5>1. connected' \in {connected, Without(b), Heard(b)}
          BY <4>3 DEF Refresh, RefreshClient
        <5>2. DOMAIN Without(b) = Members \ {b} /\ DOMAIN Heard(b) = Members \cup {b}
          BY <2>1, <4>1, MapFacts
        <5> QED BY <5>1, <5>2 DEF Members
      <4>4. ASSUME NEW b \in Addr, Visit(b) PROVE DOMAIN connected' \subseteq Members
        BY <2>1, <4>4, MapFacts DEF Visit, Members
      <4>5. CASE Select \/ AnnouncementsDone \/ PassDone \/ ReplyFails \/ Environment
        BY <4>5 DEF Select, AnnouncementsDone, PassDone, ReplyFails, Environment, Arrive,
                    FrameComes, Interrupt, Tick, Members
      <4> QED BY <1>1, <2>3, <4>2, <4>3, <4>4, <4>5 DEF Next, Loop
    <3> QED BY <3>1
  <2> QED BY <2>2, <2>3
<1>2. LoopInv /\ [Next]_vars => [Joined]_vars
  BY <1>1
<1> QED BY <1>2, LoopInvAlways, PTL DEF Spec, JoinsByDiscover
===============================================================================
