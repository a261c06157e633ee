-------------------------- MODULE LifecycleProofs --------------------------
(***************************************************************************)
(* Proofs about main.main, for any number of channels, any of them         *)
(* malformed, whatever fails or is lost, and wherever SIGINT or a stop     *)
(* signal falls.                                                           *)
(*                                                                         *)
(* AllReleased speaks of the end alone.  What makes it true there is that  *)
(* a connected bus has an owner at every step: the list or the set that    *)
(* main will close, or the task that is closing it, unless SIGINT came     *)
(* before that task began (Owned); that a bus whose closing is past its    *)
(* disconnect is not connected (Closed); and that a channel has nothing    *)
(* before its turn (Ahead).                                                *)
(***************************************************************************)
EXTENDS Lifecycle, SequenceTheorems, WellFoundedInduction, TLAPS

StartingUp == {"starting", "connecting", "closing bus", "registering", "closing service"}
Over == {"releasing", "exited"}
InHand == {"created", "releasing name"}

LifecycleTyped ==
    /\ pc \in StartingUp \union {"serving", "failing", "draining", "disconnecting"} \union Over
    /\ at \in 0..Len(Channels)
    /\ pc \in StartingUp \ {"starting"} => at # 0
    /\ link \in [Chan -> {"none", "new", "open", "lost", "shut"}]
    /\ names \subseteq Chan
    /\ unowned \in Seq(Chan)
    /\ allocated \subseteq Chan /\ services \subseteq Chan /\ refused \subseteq Chan
    /\ closing \in 
           [Chan -> {"none", "created", "releasing name", "disconnecting", "done", "cancelled"}]
    /\ task \in [Workers -> {"none", "ready", "running", "connected", "awaiting refresh",
                             "deaf", "sleeping", "leaving", "done"}]
    /\ signals \in BOOLEAN /\ stopping \in BOOLEAN /\ overdue \in BOOLEAN
    /\ interrupted \in BOOLEAN
    /\ swallowed \in 0..2

\* The workers and the signal handlers exist only between the start-up and
\* the end of the drain.
Manned ==
    /\ pc \in StartingUp => task = Idle /\ ~signals
    /\ pc \in Over \union {"disconnecting"} => \A w \in Workers : Ended(w)
    /\ pc \in Over => ~signals

\* The channel whose turn it is.
Current ==
    /\ pc = "connecting" => /\ link[This] = "new"
                            /\ unowned # <<>> /\ Last(unowned) = This
    /\ pc = "closing bus" => This \in ToSet(unowned)
    /\ pc \in {"connecting", "closing bus", "registering"} => closing[This] = "none"
    /\ pc = "starting" => at = 0

\* A channel has nothing before its turn.
Ahead ==
    pc \in StartingUp =>
        \A k \in at + 1..Len(Channels) :
            link[Channels[k]] = "none" /\ closing[Channels[k]] = "none"

\* A service name is owned over an open connection.
Named == \A c \in names : link[c] = "open"

\* A bus whose closing is past its disconnect is not connected, and only
\* SIGINT gives a closing up.
Closed ==
    \A c \in Chan :
        /\ Connected(c) => closing[c] \in InHand \union {"none", "cancelled"}
        /\ closing[c] = "cancelled" => interrupted

\* A connected bus has an owner: what main will close, or what it is closing,
\* or was to close when SIGINT came.
Owned ==
    \A c \in Chan : Connected(c) =>
        \/ closing[c] \in InHand \union {"cancelled"}
        \/ pc \notin Over /\ c \in allocated \union ToSet(unowned)

Finished == pc = "exited" => \A c \in Chan : closing[c] \in {"none", "done", "cancelled"}

LifecycleInv ==
    /\ LifecycleTyped /\ Manned /\ Current /\ Ahead
    /\ Named /\ Closed /\ Owned /\ Finished

-----------------------------------------------------------------------------
(* Lemmas about the operators.                                               *)

\* A nonempty set of natural numbers has a least element.
LEMMA LeastNatural ==
    ASSUME NEW T, T \subseteq Nat, T # {}
    PROVE  \E x \in T : \A y \in T : x <= y
<1>1. \E x \in T : \A y \in T : ~(<<y, x>> \in OpToRel(<, Nat))
  BY NatLessThanWellFounded, WFMin
<1>2. \A x, y \in T : <<y, x>> \notin OpToRel(<, Nat) => x <= y
  BY DEF OpToRel
<1>. QED BY <1>1, <1>2, Zenon

\* The channels are distinct.
LEMMA ChannelsDistinct ==
    /\ Channels \in Seq(Chan) /\ Len(Channels) \in Nat
    /\ \A k \in 1..Len(Channels) : Channels[k] \in Chan
    /\ \A j, k \in 1..Len(Channels) : Channels[j] = Channels[k] => j = k
BY LifecycleAssumption DEF IsInjective

\* unowned_buses.append, .pop and .remove.
LEMMA ListOperations ==
    ASSUME NEW s \in Seq(Chan)
    PROVE  /\ \A c \in Chan : /\ Append(s, c) \in Seq(Chan)
                              /\ Append(s, c) # <<>> /\ Last(Append(s, c)) = c
                              /\ ToSet(Append(s, c)) = ToSet(s) \union {c}
           /\ s # <<>> => /\ Front(s) \in Seq(Chan)
                          /\ ToSet(s) \ {Last(s)} \subseteq ToSet(Front(s))
           /\ \A k \in DOMAIN s : /\ RemoveAt(s, k) \in Seq(Chan)
                                  /\ ToSet(s) \ {s[k]} \subseteq ToSet(RemoveAt(s, k))
<1>0. Len(s) \in Nat /\ DOMAIN s = 1..Len(s) /\ \A i \in 1..Len(s) : s[i] \in Chan
  OBVIOUS
<1>1. ASSUME NEW c \in Chan
      PROVE  /\ Append(s, c) \in Seq(Chan)
             /\ Append(s, c) # <<>> /\ Last(Append(s, c)) = c
             /\ ToSet(Append(s, c)) = ToSet(s) \union {c}
  <2>1. /\ Append(s, c) \in Seq(Chan) /\ Len(Append(s, c)) = Len(s) + 1
        /\ \A i \in 1..Len(s) : Append(s, c)[i] = s[i]
        /\ Append(s, c)[Len(s) + 1] = c
    BY AppendProperties
  <2>2. DOMAIN Append(s, c) = 1..Len(s) + 1
    BY <2>1
  <2>3. \A i \in 1..Len(s) + 1 : i \in 1..Len(s) \/ i = Len(s) + 1
    BY <1>0
  <2>4. ToSet(Append(s, c)) = ToSet(s) \union {c}
    BY <1>0, <2>1, <2>2, <2>3 DEF ToSet
  <2>. QED BY <1>0, <2>1, <2>4, EmptySeq DEF Last
<1>2. ASSUME s # <<>>
      PROVE  /\ Front(s) \in Seq(Chan)
             /\ ToSet(s) \ {Last(s)} \subseteq ToSet(Front(s))
  <2>1. /\ Front(s) \in Seq(Chan) /\ Len(Front(s)) = Len(s) - 1
        /\ \A i \in 1..Len(s) - 1 : Front(s)[i] = s[i]
    <3>1. Len(s) # 0
      BY <1>0, <1>2, EmptySeq
    <3>. QED BY <1>0, <3>1, SubSeqProperties DEF Front
  <2>2. \A i \in 1..Len(s) : s[i] # Last(s) => i \in 1..Len(s) - 1
    BY <1>0 DEF Last
  <2>. QED BY <1>0, <2>1, <2>2 DEF ToSet
<1>3. ASSUME NEW k \in DOMAIN s
      PROVE  /\ RemoveAt(s, k) \in Seq(Chan)
             /\ ToSet(s) \ {s[k]} \subseteq ToSet(RemoveAt(s, k))
  <2> DEFINE a == SubSeq(s, 1, k - 1)
             b == SubSeq(s, k + 1, Len(s))
  <2>1. /\ a \in Seq(Chan) /\ Len(a) = k - 1 /\ \A i \in 1..k - 1 : a[i] = s[i]
    BY <1>0, SubSeqProperties
  <2>2. /\ b \in Seq(Chan) /\ Len(b) = Len(s) - k
        /\ \A i \in 1..Len(s) - k : b[i] = s[i + k]
    BY <1>0, SubSeqProperties
  <2> HIDE DEF a, b
  <2>3. /\ a \o b \in Seq(Chan) /\ Len(a \o b) = Len(s) - 1
        /\ \A i \in 1..Len(s) - 1 : (a \o b)[i] = IF i <= k - 1 THEN a[i] ELSE b[i - (k - 1)]
    <3>1. Len(a) + Len(b) = Len(s) - 1
      BY <1>0, <2>1, <2>2
    <3>2. /\ a \o b \in Seq(Chan) /\ Len(a \o b) = Len(a) + Len(b)
          /\ \A i \in 1..Len(a) + Len(b) :
               (a \o b)[i] = IF i <= Len(a) THEN a[i] ELSE b[i - Len(a)]
      BY <2>1, <2>2, ConcatProperties
    <3>. QED BY <2>1, <3>1, <3>2
  <2>4. ASSUME NEW i \in 1..Len(s), i # k
        PROVE  \E j \in 1..Len(s) - 1 : (a \o b)[j] = s[i]
    <3>1. CASE i < k
      <4>1. i \in 1..Len(s) - 1 /\ i <= k - 1 /\ i \in 1..k - 1
        BY <1>0, <3>1
      <4>. QED BY <2>1, <2>3, <4>1
    <3>2. CASE i > k
      <4>1. /\ i - 1 \in 1..Len(s) - 1 /\ ~(i - 1 <= k - 1)
            /\ i - 1 - (k - 1) = i - k /\ i - k \in 1..Len(s) - k /\ (i - k) + k = i
        BY <1>0, <3>2
      <4>2. b[i - k] = s[i]
        BY <2>2, <4>1
      <4>3. (a \o b)[i - 1] = b[i - 1 - (k - 1)]
        BY <2>3, <4>1
      <4>. QED BY <4>1, <4>2, <4>3
    <3>3. k \in Nat /\ i \in Nat
      BY <1>0
    <3>4. i < k \/ i > k
      BY <2>4, <3>3
    <3>. QED BY <3>1, <3>2, <3>4
  <2>5. RemoveAt(s, k) = a \o b
    BY DEF RemoveAt, a, b
  <2>6. DOMAIN (a \o b) = 1..Len(s) - 1
    BY <2>3
  <2>7. ASSUME NEW c \in ToSet(s) \ {s[k]}
        PROVE  c \in ToSet(a \o b)
    <3>1. PICK i \in 1..Len(s) : s[i] = c
      BY <1>0 DEF ToSet
    <3>2. PICK j \in 1..Len(s) - 1 : (a \o b)[j] = s[i]
      BY <2>4, <2>7, <3>1
    <3>. QED BY <2>6, <3>1, <3>2 DEF ToSet
  <2>. QED BY <2>3, <2>5, <2>7
<1>. QED BY <1>1, <1>2, <1>3

\* What leaving for close_dbus_resources does.
Leaves(svcs, buses) ==
    /\ pc' = "releasing"
    /\ closing' \in 
           [Chan -> {"none", "created", "releasing name", "disconnecting", "done", "cancelled"}]
    /\ \A c \in Chan : closing'[c] = IF c \in svcs \union ToSet(buses)
                                       THEN "created" ELSE closing[c]

LEMMA ReleaseResult ==
    ASSUME LifecycleTyped, NEW svcs, NEW buses, Release(svcs, buses)
    PROVE  Leaves(svcs, buses)
BY DEF Release, Leaves, LifecycleTyped

\* The start-up goes on with a later channel, or ends.
Proceeds(i, buses, svcs) ==
    \/ \E k \in i..Len(Channels) :
         /\ pc' = "connecting" /\ at' = k
         /\ link' = [link EXCEPT ![Channels[k]] = "new"]
         /\ unowned' = Append(buses, Channels[k])
         /\ UNCHANGED <<closing, signals, task>>
    \/ /\ link' = link /\ unowned' = buses /\ at' = at
       /\ StartWorkers(svcs, buses)

LEMMA NextResult ==
    ASSUME NEW i \in 1..Len(Channels) + 1, NEW buses, NEW svcs,
           NextChannel(i, link, buses, svcs)
    PROVE  Proceeds(i, buses, svcs)
<1> DEFINE rest == {k \in i..Len(Channels) : Channels[k] \notin Malformed}
           k == CHOOSE x \in rest : \A y \in rest : x <= y
<1>1. CASE /\ rest # {}
           /\ pc' = "connecting" /\ at' = k
           /\ link' = [link EXCEPT ![Channels[k]] = "new"]
           /\ unowned' = Append(buses, Channels[k])
           /\ UNCHANGED <<closing, signals, task>>
  <2>1. rest \subseteq Nat
    BY ChannelsDistinct
  <2>2. \E x \in rest : \A y \in rest : x <= y
    BY <1>1, <2>1, LeastNatural
  <2>3. k \in rest
    BY <2>2
  <2>4. k \in i..Len(Channels)
    BY <2>3
  <2> HIDE DEF k, rest
  <2>. QED BY <1>1, <2>4 DEF Proceeds
<1>2. CASE /\ link' = link /\ unowned' = buses
           /\ StartWorkers(svcs, buses)
           /\ UNCHANGED at
  BY <1>2 DEF Proceeds
<1>. QED BY <1>1, <1>2 DEF NextChannel

\* So every start-up step that ends a channel's turn keeps the invariant.
LEMMA TurnEnds ==
    ASSUME LifecycleInv, pc \in StartingUp,
           NEW buses \in Seq(Chan), NEW svcs \in SUBSET Chan,
           Proceeds(at + 1, buses, svcs),
           services' = svcs, names' \subseteq Chan,
           \A c \in names' : link[c] = "open",
           \A c \in Chan : Connected(c) =>
               closing[c] \in InHand \union {"cancelled"} \/ c \in allocated \union ToSet(buses),
           UNCHANGED <<allocated, stopping, overdue, swallowed, interrupted>>,
           refused' \subseteq Chan
    PROVE  LifecycleInv'
<1>0. /\ LifecycleTyped /\ Manned /\ Current /\ Ahead /\ Named /\ Closed
      /\ Len(Channels) \in Nat /\ at \in Nat /\ at <= Len(Channels)
      /\ task = Idle /\ ~signals
  <2>1. /\ LifecycleTyped /\ Manned /\ Current /\ Ahead /\ Named /\ Closed
        /\ task = Idle /\ ~signals
    BY Zenon DEF LifecycleInv, Manned
  <2>2. at \in Nat /\ at <= Len(Channels) /\ Len(Channels) \in Nat
    <3>1. at \in 0..Len(Channels)
      BY <2>1, Zenon DEF LifecycleTyped
    <3>2. Len(Channels) \in Nat
      BY ChannelsDistinct, Zenon
    <3>. QED BY <3>1, <3>2
  <2>. QED BY <2>1, <2>2
<1>1. ASSUME NEW k \in at + 1..Len(Channels),
             pc' = "connecting", at' = k,
             link' = [link EXCEPT ![Channels[k]] = "new"],
             unowned' = Append(buses, Channels[k]),
             UNCHANGED <<closing, signals, task>>
      PROVE  LifecycleInv'
  <2> DEFINE c0 == Channels[k]
  <2>1. k \in 1..Len(Channels) /\ c0 \in Chan /\ k \in Nat /\ k # 0
    BY <1>0, ChannelsDistinct
  <2>2. link[c0] = "none" /\ closing[c0] = "none"
    BY <1>0 DEF Ahead
  <2>3. /\ unowned' \in Seq(Chan) /\ unowned' # <<>> /\ Last(unowned') = c0
        /\ ToSet(unowned') = ToSet(buses) \union {c0}
    BY <1>1, <2>1, ListOperations
  <2>4. /\ link' \in [Chan -> {"none", "new", "open", "lost", "shut"}]
        /\ link'[c0] = "new"
        /\ \A c \in Chan : c # c0 => link'[c] = link[c]
    BY <1>0, <1>1, <2>1 DEF LifecycleTyped
  <2>5. This' = c0
    BY <1>1 DEF This
  <2>6. LifecycleTyped'
    <3>1. at' \in 0..Len(Channels) /\ at' # 0 /\ pc' \in StartingUp
      <4>1. k \in 0..Len(Channels)
        BY <2>1
      <4>. QED BY <1>1, <2>1, <4>1, Zenon DEF StartingUp
    <3>. QED BY <1>0, <1>1, <2>3, <2>4, <3>1, Zenon DEF LifecycleTyped
  <2>7. Manned' /\ Finished'
    BY <1>0, <1>1 DEF Manned, StartingUp, Over, Finished, Idle
  <2>8. Current'
    BY <1>1, <2>2, <2>3, <2>4, <2>5 DEF Current
  <2>9. Ahead'
    <3>1. ASSUME NEW j \in k + 1..Len(Channels)
          PROVE  link'[Channels[j]] = "none" /\ closing'[Channels[j]] = "none"
      <4>1. j \in at + 1..Len(Channels) /\ j \in 1..Len(Channels) /\ j # k
        BY <1>0, <2>1
      <4>2. Channels[j] # c0 /\ Channels[j] \in Chan
        BY <2>1, <4>1, ChannelsDistinct
      <4>. QED BY <1>0, <1>1, <2>4, <4>1, <4>2 DEF Ahead
    <3>. QED BY <1>1, <3>1 DEF Ahead
  <2>10. Named'
    BY <1>0, <2>2, <2>4 DEF Named, LifecycleTyped
  <2>11. Closed'
    BY <1>0, <1>1, <2>2, <2>4 DEF Closed, Connected, InHand
  <2>12. Owned'
    BY <1>1, <2>3, <2>4 DEF Owned, Connected, Over
  <2>. QED BY <2>6, <2>7, <2>8, <2>9, <2>10, <2>11, <2>12 DEF LifecycleInv
<1>2. ASSUME link' = link, unowned' = buses, at' = at, StartWorkers(svcs, buses)
      PROVE  LifecycleInv'
  <2>1. CASE /\ pc' = "serving" /\ signals' = TRUE
             /\ task' = [w \in Workers |->
                           IF w \in {Monitor(c) : c \in Chan \ svcs} THEN "none" ELSE "ready"]
             /\ UNCHANGED closing
    <3>1. signals' \in BOOLEAN
      BY <2>1, Zenon
    <3>2. LifecycleTyped'
      BY <1>0, <1>2, <2>1, <3>1 DEF LifecycleTyped, StartingUp, Over
    <3>3. Manned' /\ Current' /\ Ahead' /\ Finished'
      BY <2>1 DEF Manned, Current, Ahead, Finished, StartingUp, Over
    <3>4. Named' /\ Closed' /\ Owned'
      BY <1>0, <1>2, <2>1 DEF Named, Closed, Owned, Connected, Over
    <3>. QED BY <3>2, <3>3, <3>4 DEF LifecycleInv
  <2>2. CASE Release(allocated, buses) /\ UNCHANGED <<signals, task>>
    <3>1. Leaves(allocated, buses)
      BY <1>0, <2>2, ReleaseResult
    <3>2. LifecycleTyped'
      BY <1>0, <1>2, <2>2, <3>1 DEF LifecycleTyped, Leaves, StartingUp, Over
    <3>3. Manned' /\ Current' /\ Ahead' /\ Finished'
      BY <1>0, <2>2, <3>1 DEF Manned, Current, Ahead, Finished, StartingUp, Over, Leaves,
                              Ended, Idle
    <3>4. Named'
      BY <1>2 DEF Named
    <3>5. Closed' /\ Owned'
      BY <1>0, <1>2, <3>1 DEF Closed, Owned, Connected, Over, InHand, Leaves
    <3>. QED BY <3>2, <3>3, <3>4, <3>5 DEF LifecycleInv
  <2>. QED BY <1>2, <2>1, <2>2 DEF StartWorkers
<1>. QED BY <1>1, <1>2 DEF Proceeds

\* So does every step that leaves for close_dbus_resources.
LEMMA LeavingStep ==
    ASSUME LifecycleInv, LifecycleTyped', pc \notin Over, Leaves(allocated, unowned),
           task' = task, \A w \in Workers : Ended(w), ~signals',
           \A c \in Chan : Connected(c)' => Connected(c),
           \A c \in names' : link'[c] = "open",
           interrupted => interrupted'
    PROVE  LifecycleInv'
<1>1. Manned' /\ Current' /\ Ahead' /\ Finished'
  BY DEF Leaves, Manned, Current, Ahead, Finished, StartingUp, Over, Ended
<1>2. Named'
  BY DEF Named
<1>3. Closed'
  BY DEF Closed, Leaves, InHand, LifecycleInv
<1>4. Owned'
  BY DEF Owned, Leaves, InHand, LifecycleInv
<1>. QED BY <1>1, <1>2, <1>3, <1>4 DEF LifecycleInv

\* Every start-up step keeps the invariant.
LEMMA StartupStep == ASSUME LifecycleInv, Startup PROVE LifecycleInv'
<1>0. /\ LifecycleTyped /\ Manned /\ Current /\ Ahead /\ Named /\ Closed /\ Owned
      /\ pc \in StartingUp /\ pc \notin Over
      /\ unowned \in Seq(Chan) /\ allocated \subseteq Chan /\ services \subseteq Chan
      /\ refused \subseteq Chan /\ names \subseteq Chan
  BY DEF LifecycleInv, LifecycleTyped, Startup, Start, BusConnected, ConnectFails, BusClosed,
         Registered, RegisterFails, ServiceClosed, StartingUp, Over
<1>1. /\ at \in 0..Len(Channels) /\ Len(Channels) \in Nat
      /\ at + 1 \in 1..Len(Channels) + 1
      /\ pc # "starting" => at \in 1..Len(Channels) /\ This \in Chan
  <2>1. at \in 0..Len(Channels)
    BY <1>0, Zenon DEF LifecycleTyped
  <2>2. Len(Channels) \in Nat
    BY ChannelsDistinct, Zenon
  <2>3. pc # "starting" => at # 0
    BY <1>0, Zenon DEF LifecycleTyped
  <2>4. pc # "starting" => at \in 1..Len(Channels)
    BY <2>1, <2>2, <2>3
  <2>5. at + 1 \in 1..Len(Channels) + 1
    BY <2>1, <2>2
  <2>. QED BY <2>1, <2>2, <2>4, <2>5, ChannelsDistinct DEF This
<1>11. pc # "starting" =>
         /\ at # 0
         /\ \A k \in at + 1..Len(Channels) : Channels[k] # This /\ Channels[k] \in Chan
  <2> SUFFICES ASSUME pc # "starting"
               PROVE  /\ at # 0
                      /\ \A k \in at + 1..Len(Channels) :
                           Channels[k] # This /\ Channels[k] \in Chan
    OBVIOUS
  <2>1. at \in 1..Len(Channels) /\ at \in Nat /\ at # 0
    BY <1>1
  <2>2. \A k \in at + 1..Len(Channels) : k \in 1..Len(Channels) /\ k # at
    BY <1>1, <2>1
  <2>. QED BY <2>1, <2>2, ChannelsDistinct DEF This
<1>2. task = Idle /\ ~signals /\ \A w \in Workers : Ended(w)
  BY <1>0 DEF Manned, Idle, Ended
<1>3. \A c \in Chan : Connected(c) =>
          closing[c] \in InHand \union {"cancelled"} \/ c \in allocated \union ToSet(unowned)
  BY <1>0 DEF Owned
<1>4. CASE Start
  <2>1. at + 1 = 1
    BY <1>0, <1>4 DEF Start, Current
  <2>2. Proceeds(at + 1, unowned, services)
    BY <1>1, <1>4, <2>1, NextResult DEF Start
  <2>. QED BY <1>0, <1>3, <1>4, <2>2, TurnEnds DEF Start, Named
<1>5. CASE BusConnected
  <2>0. /\ pc = "connecting" /\ This \in Chan /\ link[This] = "new"
        /\ unowned # <<>> /\ Last(unowned) = This
    BY <1>0, <1>1, <1>5 DEF BusConnected, Current
  <2>1. /\ link' = [link EXCEPT ![This] = "open"]
        /\ UNCHANGED <<at, services, refused, names, task, signals, stopping, overdue,
                       swallowed, interrupted>>
    BY <1>5 DEF BusConnected, workVars
  <2>2. /\ link' \in [Chan -> {"none", "new", "open", "lost", "shut"}]
        /\ link'[This] = "open"
        /\ \A c \in Chan : c # This => link'[c] = link[c]
    BY <1>0, <2>0, <2>1 DEF LifecycleTyped
  <2>3. \A c \in Chan : Connected(c)' <=> Connected(c)
    BY <2>0, <2>2 DEF Connected
  <2>4. \A c \in names' : link'[c] = "open"
    BY <1>0, <2>1, <2>2 DEF Named
  <2>5. CASE /\ allocated' = allocated \union {This}
             /\ unowned' = Front(unowned)
             /\ pc' = "registering"
             /\ UNCHANGED closing
    <3>1. unowned' \in Seq(Chan) /\ ToSet(unowned) \ {This} \subseteq ToSet(unowned')
      BY <1>0, <2>0, <2>5, ListOperations
    <3>2. allocated' \subseteq Chan
      BY <1>0, <2>0, <2>5
    <3>3. at # 0
      BY <1>1, <2>0
    <3>4. LifecycleTyped'
      BY <1>0, <2>1, <2>2, <2>5, <3>1, <3>2, <3>3 DEF LifecycleTyped, StartingUp
    <3>5. Manned' /\ Current' /\ Finished'
      BY <1>0, <1>2, <2>0, <2>1, <2>5 DEF Manned, Current, Finished, StartingUp, Over, This, Idle
    <3>6. Ahead'
      <4>1. ASSUME NEW k \in at + 1..Len(Channels)
            PROVE  link'[Channels[k]] = "none" /\ closing'[Channels[k]] = "none"
        <5>2. Channels[k] # This /\ Channels[k] \in Chan
          BY <1>11, <2>0
        <5>. QED BY <1>0, <2>2, <2>5, <5>2 DEF Ahead
      <4>. QED BY <2>1, <4>1 DEF Ahead
    <3>7. Named'
      BY <2>4 DEF Named
    <3>8. Closed'
      BY <1>0, <2>1, <2>3, <2>5 DEF Closed
    <3>9. Owned'
      BY <1>3, <2>0, <2>1, <2>3, <2>5, <3>1 DEF Owned, Over
    <3>. QED BY <3>4, <3>5, <3>6, <3>7, <3>8, <3>9 DEF LifecycleInv
  <2>6. CASE Release(allocated, unowned) /\ UNCHANGED <<allocated, unowned>>
    <3>1. Leaves(allocated, unowned)
      BY <1>0, <2>6, ReleaseResult
    <3>2. at # 0
      BY <1>1, <2>0
    <3>3. LifecycleTyped'
      BY <1>0, <2>1, <2>2, <2>6, <3>1, <3>2 DEF LifecycleTyped, Leaves, StartingUp, Over
    <3>. QED BY <1>0, <1>2, <2>1, <2>3, <2>4, <3>1, <3>3, LeavingStep
  <2>. QED BY <1>5, <2>5, <2>6 DEF BusConnected
<1>6. CASE ConnectFails
  <2>0. /\ pc = "connecting" /\ This \in Chan /\ link[This] = "new"
        /\ unowned # <<>> /\ Last(unowned) = This /\ closing[This] = "none"
        /\ pc' = "closing bus" /\ refused' = refused \union {This}
        /\ UNCHANGED <<at, unowned, allocated, services, names, closing, task, signals,
                       stopping, overdue, swallowed, interrupted>>
    BY <1>0, <1>1, <1>6 DEF ConnectFails, Current, workVars
  <2>1. /\ link' \in [Chan -> {"none", "new", "open", "lost", "shut"}]
        /\ \A c \in Chan : c # This => link'[c] = link[c]
    BY <1>0, <1>6, <2>0 DEF ConnectFails, LifecycleTyped
  <2>2. \A c \in Chan : Connected(c)' => Connected(c)
    BY <2>0, <2>1 DEF Connected
  <2>3. at # 0 /\ This \in ToSet(unowned)
    <3>1. Len(unowned) \in DOMAIN unowned
      <4>1. Len(unowned) \in Nat /\ Len(unowned) # 0 /\ DOMAIN unowned = 1..Len(unowned)
        BY <1>0, <2>0, EmptySeq, LenProperties
      <4>. QED BY <4>1
    <3>. QED BY <1>11, <2>0, <3>1 DEF ToSet, Last
  <2>4. LifecycleTyped'
    BY <1>0, <2>0, <2>1, <2>3 DEF LifecycleTyped, StartingUp
  <2>5. Manned' /\ Current' /\ Finished'
    BY <1>0, <1>2, <2>0, <2>3 DEF Manned, Current, Finished, StartingUp, Over, This, Idle
  <2>6. Ahead'
    <3>1. ASSUME NEW k \in at + 1..Len(Channels)
          PROVE  link'[Channels[k]] = "none" /\ closing'[Channels[k]] = "none"
      <4>2. Channels[k] # This /\ Channels[k] \in Chan
        BY <1>11, <2>0
      <4>. QED BY <1>0, <2>0, <2>1, <4>2 DEF Ahead
    <3>. QED BY <2>0, <3>1 DEF Ahead
  <2>7. Named'
    BY <1>0, <2>0, <2>1 DEF Named
  <2>8. Closed' /\ Owned'
    BY <1>0, <2>0, <2>2 DEF Closed, Owned, Over
  <2>. QED BY <2>4, <2>5, <2>6, <2>7, <2>8 DEF LifecycleInv
<1>7. CASE BusClosed
  <2>0. pc = "closing bus" /\ This \in Chan /\ This \in ToSet(unowned)
    BY <1>0, <1>1, <1>7 DEF BusClosed, Current
  <2>1. /\ UnownedAfter \in Seq(Chan)
        /\ \A c \in ToSet(unowned) : Connected(c) => c \in ToSet(UnownedAfter)
    <3> DEFINE k == CHOOSE j \in DOMAIN unowned : unowned[j] = This
    <3>1. k \in DOMAIN unowned /\ unowned[k] = This
      BY <2>0 DEF ToSet
    <3>2. /\ RemoveAt(unowned, k) \in Seq(Chan)
          /\ ToSet(unowned) \ {This} \subseteq ToSet(RemoveAt(unowned, k))
      BY <1>0, <3>1, ListOperations
    <3>3. UnownedAfter = IF link[This] = "shut" THEN RemoveAt(unowned, k) ELSE unowned
      BY DEF UnownedAfter
    <3> HIDE DEF k
    <3>. QED BY <1>0, <3>2, <3>3 DEF Connected
  <2>2. Proceeds(at + 1, UnownedAfter, services)
    BY <1>1, <1>7, NextResult DEF BusClosed
  <2>3. \A c \in Chan : Connected(c) =>
            closing[c] \in InHand \union {"cancelled"} \/ c \in allocated \union ToSet(UnownedAfter)
    BY <1>3, <2>1
  <2>4. /\ UNCHANGED <<services, allocated, stopping, overdue, swallowed, interrupted>>
        /\ names' \subseteq Chan /\ refused' \subseteq Chan
        /\ \A c \in names' : link[c] = "open"
    BY <1>0, <1>7 DEF BusClosed, Named
  <2>. QED BY <1>0, <2>1, <2>2, <2>3, <2>4, TurnEnds
<1>8. CASE Registered
  <2>1. /\ link[This] = "open" /\ This \in Chan
        /\ names' = names \union {This} /\ services' = services \union {This}
        /\ NextChannel(at + 1, link, unowned, services')
        /\ UNCHANGED <<allocated, refused, stopping, overdue, swallowed, interrupted>>
    BY <1>1, <1>8 DEF Registered
  <2>2. PICK svcs \in SUBSET Chan : svcs = services'
    BY <1>0, <2>1
  <2>3. Proceeds(at + 1, unowned, svcs)
    BY <1>1, <2>1, <2>2, NextResult
  <2>4. names' \subseteq Chan /\ \A c \in names' : link[c] = "open"
    BY <1>0, <2>1 DEF Named
  <2>. QED BY <1>0, <1>3, <2>1, <2>2, <2>3, <2>4, TurnEnds
<1>9. CASE RegisterFails
  <2>0. /\ pc = "registering" /\ This \in Chan
        /\ refused' = refused \union {This} /\ allocated' = allocated \ {This}
        /\ closing' = [closing EXCEPT ![This] = "created"]
        /\ pc' = "closing service"
        /\ UNCHANGED <<at, link, unowned, services, names, task, signals,
                       stopping, overdue, swallowed, interrupted>>
    BY <1>1, <1>9 DEF RegisterFails, workVars
  <2>1. /\ closing' \in 
               [Chan -> {"none", "created", "releasing name", "disconnecting", "done", "cancelled"}]
        /\ closing'[This] = "created"
        /\ \A c \in Chan : c # This => closing'[c] = closing[c]
    BY <1>0, <2>0 DEF LifecycleTyped
  <2>2. at # 0 /\ allocated' \subseteq Chan /\ refused' \subseteq Chan
    BY <1>0, <1>11, <2>0
  <2>3. LifecycleTyped'
    BY <1>0, <2>0, <2>1, <2>2 DEF LifecycleTyped, StartingUp
  <2>4. Manned' /\ Current' /\ Finished'
    BY <1>0, <1>2, <2>0 DEF Manned, Current, Finished, StartingUp, Over, Idle
  <2>5. Ahead'
    <3>1. ASSUME NEW k \in at + 1..Len(Channels)
          PROVE  link'[Channels[k]] = "none" /\ closing'[Channels[k]] = "none"
      <4>2. Channels[k] # This /\ Channels[k] \in Chan
        BY <1>11, <2>0
      <4>. QED BY <1>0, <2>0, <2>1, <4>2 DEF Ahead
    <3>. QED BY <2>0, <3>1 DEF Ahead
  <2>6. Named' /\ Closed'
    BY <1>0, <2>0, <2>1 DEF Named, Closed, Connected, InHand
  <2>7. Owned'
    BY <1>3, <2>0, <2>1 DEF Owned, Connected, InHand, Over
  <2>. QED BY <2>3, <2>4, <2>5, <2>6, <2>7 DEF LifecycleInv
<1>10. CASE ServiceClosed
  <2>0. /\ pc = "closing service" /\ This \in Chan
        /\ UNCHANGED <<names, allocated, services, refused, stopping, overdue,
                       swallowed, interrupted>>
    BY <1>1, <1>10 DEF ServiceClosed
  <2>1. CASE ~interrupted /\ NextChannel(at + 1, link, unowned, services)
    <3>1. Proceeds(at + 1, unowned, services)
      BY <1>1, <2>1, NextResult
    <3>. QED BY <1>0, <1>3, <2>0, <3>1, TurnEnds DEF Named
  <2>2. CASE /\ Release(allocated, unowned)
             /\ UNCHANGED <<at, link, unowned, signals, task>>
    <3>1. Leaves(allocated, unowned)
      BY <1>0, <2>2, ReleaseResult
    <3>2. LifecycleTyped'
      BY <1>0, <2>0, <2>2, <3>1 DEF LifecycleTyped, Leaves, StartingUp, Over
    <3>3. \A c \in Chan : Connected(c)' => Connected(c)
      BY <2>2 DEF Connected
    <3>. QED BY <1>0, <1>2, <2>0, <2>2, <3>1, <3>2, <3>3, LeavingStep DEF Named
  <2>. QED BY <1>10, <2>1, <2>2 DEF ServiceClosed
<1>. QED BY <1>4, <1>5, <1>6, <1>7, <1>8, <1>9, <1>10 DEF Startup

\* While the workers are at work nothing is opened or closed.
AtWork == {"serving", "failing", "draining"}

LEMMA WorkStep ==
    ASSUME LifecycleInv, LifecycleTyped', pc \in AtWork, pc' \in AtWork,
           UNCHANGED <<setupVars, busVars, interrupted>>
    PROVE  LifecycleInv'
<1>1. Manned' /\ Current' /\ Ahead' /\ Finished'
  BY DEF AtWork, Manned, Current, Ahead, Finished, StartingUp, Over
<1>2. Named' /\ Closed' /\ Owned'
  BY DEF LifecycleInv, AtWork, Named, Closed, Owned, Connected, Over, setupVars, busVars
<1>. QED BY <1>1, <1>2 DEF LifecycleInv

\* A cancelled worker is in one of its states.
LEMMA CancelTyped ==
    ASSUME LifecycleTyped
    PROVE  CancelWorkers \in [Workers -> {"none", "ready", "running", "connected",
                                          "awaiting refresh", "deaf", "sleeping", "leaving", "done"}]
<1>1. ASSUME NEW w \in Workers
      PROVE  AfterCancel(task[w]) \in {"none", "ready", "running", "connected",
                                       "awaiting refresh", "deaf", "sleeping", "leaving", "done"}
  <2>1. task[w] \in {"none", "ready", "running", "connected",
                     "awaiting refresh", "deaf", "sleeping", "leaving", "done"}
    BY DEF LifecycleTyped
  <2>. QED BY <2>1 DEF AfterCancel
<1>. QED BY <1>1 DEF CancelWorkers

\* A worker is at work only between its start and the end of the drain.
LEMMA WorkerAtWork ==
    ASSUME LifecycleInv, NEW w \in Workers, ~Ended(w)
    PROVE  pc \in AtWork
<1>1. /\ pc \in StartingUp \union AtWork \union {"disconnecting"} \union Over
      /\ Manned
  BY DEF LifecycleInv, LifecycleTyped, AtWork
<1>2. pc \notin StartingUp
  BY <1>1 DEF Manned, Idle, Ended
<1>3. pc \notin Over \union {"disconnecting"}
  BY <1>1 DEF Manned
<1>. QED BY <1>1, <1>2, <1>3

\* The workers' own steps keep the invariant.
LEMMA WorkersStep ==
    ASSUME LifecycleInv, Client \/ \E w \in Workers : WorkerStarts(w) \/ WorkerFails(w)
    PROVE  LifecycleInv'
<1>0. LifecycleTyped
  BY DEF LifecycleInv
<1>1. /\ Source \in Workers /\ Heartbeat \in Workers
  BY DEF Workers
<1>2. PICK w \in Workers : /\ ~Ended(w)
                           /\ \E to \in {"running", "connected", "awaiting refresh",
                                         "sleeping", "leaving", "done"} :
                                task' = [task EXCEPT ![w] = to]
  <2>1. CASE Client
    BY <1>1, <2>1 DEF Client, ListenEnds, RefreshEnded, Reconnect, ClientFails, Left, Ended
  <2>2. ASSUME NEW v \in Workers, WorkerStarts(v)
        PROVE  /\ ~Ended(v)
               /\ \E to \in {"running", "connected"} : task' = [task EXCEPT ![v] = to]
    BY <2>2 DEF WorkerStarts, Ended
  <2>3. ASSUME NEW v \in Workers, WorkerFails(v)
        PROVE  ~Ended(v) /\ task' = [task EXCEPT ![v] = "done"]
    BY <2>3 DEF WorkerFails, Ended
  <2>. QED BY <2>1, <2>2, <2>3
<1>3. pc \in AtWork
  BY <1>2, WorkerAtWork
<1>4. /\ UNCHANGED <<setupVars, busVars, signals, stopping, overdue, interrupted>>
      /\ pc' = pc \/ pc' = "failing"
      /\ swallowed' = swallowed \/ (swallowed < 2 /\ swallowed' = swallowed + 1)
  BY DEF Client, ListenEnds, RefreshEnded, Reconnect, ClientFails, Left, WorkerStarts,
         WorkerFails, Fail
<1>5. swallowed' \in 0..2
  <2>1. swallowed \in 0..2
    BY <1>0, Zenon DEF LifecycleTyped
  <2>. QED BY <1>4, <2>1
<1>6. task' \in [Workers -> {"none", "ready", "running", "connected", "awaiting refresh",
                             "deaf", "sleeping", "leaving", "done"}]
  BY <1>0, <1>2 DEF LifecycleTyped
<1>7. pc' \in AtWork
  BY <1>3, <1>4 DEF AtWork
<1>8. LifecycleTyped'
  BY <1>0, <1>4, <1>5, <1>6, <1>7 DEF LifecycleTyped, setupVars, busVars, AtWork, StartingUp, Over
<1>. QED BY <1>3, <1>4, <1>7, <1>8, WorkStep

\* Cancelling the close tasks disconnects the ones at work; one that has not
\* begun is given up, which only happens to an interrupted start-up.
LEMMA CancelResult ==
    ASSUME LifecycleInv, CancelClosing, interrupted \/ interrupted' \/ \A c \in Chan : closing[c] # "created",
           UNCHANGED <<pc, setupVars, workVars>>, interrupted' \in BOOLEAN,
           interrupted => interrupted'
    PROVE  LifecycleInv'
<1>0. LifecycleTyped
  BY DEF LifecycleInv
<1>1. ASSUME NEW c \in Chan
      PROVE  /\ closing'[c] \in {"none", "disconnecting", "done", "cancelled"}
             /\ closing[c] \in {"none", "done", "cancelled"} => closing'[c] = closing[c]
             /\ closing'[c] = "cancelled" => closing[c] \in {"created", "cancelled"}
             /\ closing[c] = "releasing name" => closing'[c] = "disconnecting"
             /\ link'[c] = (IF closing[c] = "releasing name" THEN "shut" ELSE link[c])
  <2>1. closing[c] \in {"none", "created", "releasing name", "disconnecting", "done",
                     "cancelled"}
    BY <1>0 DEF LifecycleTyped
  <2>2. closing'[c] = CASE closing[c] = "created" -> "cancelled"
                        [] closing[c] = "releasing name" -> "disconnecting"
                        [] closing[c] = "disconnecting" -> "done"
                        [] OTHER -> closing[c]
    BY DEF CancelClosing
  <2>3. link'[c] = (IF closing[c] = "releasing name" THEN "shut" ELSE link[c])
    BY DEF CancelClosing
  <2>. QED BY <2>1, <2>2, <2>3
<1>2. LifecycleTyped'
  <2>1. closing' \in 
            [Chan -> {"none", "created", "releasing name", "disconnecting", "done", "cancelled"}]
    <3>1. DOMAIN closing' = Chan /\ closing' = [c \in Chan |-> closing'[c]]
      BY DEF CancelClosing
    <3>. QED BY <1>1, <3>1
  <2>2. link' \in [Chan -> {"none", "new", "open", "lost", "shut"}]
    BY <1>0 DEF CancelClosing, LifecycleTyped
  <2>3. names' \subseteq Chan
    BY <1>0 DEF CancelClosing, LifecycleTyped
  <2>. QED BY <1>0, <2>1, <2>2, <2>3, Zenon DEF LifecycleTyped, setupVars, workVars
<1>3. Manned'
  BY DEF LifecycleInv, Manned, workVars, Ended, Idle
<1>4. Current'
  <2>1. ASSUME pc \in {"connecting", "closing bus", "registering"}
        PROVE  This \in Chan /\ closing[This] = "none"
    <3>1. at \in 0..Len(Channels)
      BY <1>0, Zenon DEF LifecycleTyped
    <3>2. at # 0
      BY <1>0, <2>1 DEF LifecycleTyped, StartingUp
    <3>3. at \in 1..Len(Channels)
      BY <3>1, <3>2, ChannelsDistinct
    <3>. QED BY <2>1, <3>3, ChannelsDistinct DEF LifecycleInv, Current, This
  <2>. QED BY <1>1, <2>1 DEF LifecycleInv, Current, This, setupVars
<1>5. Ahead'
  <2>1. ASSUME pc \in StartingUp, NEW k \in at + 1..Len(Channels)
        PROVE  link'[Channels[k]] = "none" /\ closing'[Channels[k]] = "none"
    <3>1. Channels[k] \in Chan
      <4>1. at \in 0..Len(Channels)
        BY <1>0, Zenon DEF LifecycleTyped
      <4>2. k \in 1..Len(Channels)
        BY <4>1, ChannelsDistinct
      <4>. QED BY <4>2, ChannelsDistinct
    <3>. QED BY <1>1, <2>1, <3>1 DEF LifecycleInv, Ahead
  <2>. QED BY <2>1 DEF Ahead, setupVars
<1>6. Named'
  <2>1. ASSUME NEW c \in names'
        PROVE  link'[c] = "open"
    <3>1. c \in names /\ c \in Chan /\ closing[c] # "releasing name"
      BY <1>0 DEF CancelClosing, LifecycleTyped
    <3>. QED BY <1>1, <3>1 DEF LifecycleInv, Named
  <2>. QED BY <2>1 DEF Named
<1>7. ASSUME NEW c \in Chan, Connected(c)'
      PROVE  closing'[c] = "cancelled" \/ (closing[c] = "none" /\ closing'[c] = "none")
  <2>1. Connected(c) /\ closing[c] # "releasing name"
    BY <1>1, <1>7 DEF Connected
  <2>2. closing[c] \in {"none", "created", "cancelled"}
    BY <2>1 DEF LifecycleInv, Closed, InHand
  <2>3. closing[c] = "created" => closing'[c] = "cancelled"
    BY DEF CancelClosing
  <2>. QED BY <1>1, <2>2, <2>3
<1>8. Closed'
  <2>1. ASSUME NEW c \in Chan, closing'[c] = "cancelled"
        PROVE  interrupted'
    BY <1>1, <2>1 DEF LifecycleInv, Closed
  <2>. QED BY <1>7, <2>1 DEF Closed
<1>9. Owned'
  <2>1. ASSUME NEW c \in Chan, Connected(c)', closing'[c] # "cancelled"
        PROVE  pc \notin Over /\ c \in allocated \union ToSet(unowned)
    <3>1. closing[c] = "none" /\ Connected(c)
      BY <1>1, <1>7, <2>1 DEF Connected
    <3>. QED BY <3>1 DEF LifecycleInv, Owned, InHand
  <2>. QED BY <2>1 DEF Owned, setupVars
<1>10. Finished'
  BY <1>1 DEF LifecycleInv, Finished
<1>. QED BY <1>2, <1>3, <1>4, <1>5, <1>6, <1>8, <1>9, <1>10 DEF LifecycleInv

-----------------------------------------------------------------------------
(* The steps of shutdown and of the close tasks.                             *)

\* A close task at work disconnects its bus, or has done so.
LEMMA ClosingStep ==
    ASSUME LifecycleInv, NEW c \in Chan, Closing(c)
    PROVE  LifecycleInv'
<1>0. LifecycleTyped
  BY DEF LifecycleInv
<1>1. closing[c] \in InHand \union {"disconnecting"}
  BY DEF Closing, CloseStarts, NameReleased, CloseEnds, InHand
<1>2. /\ \E to \in {"releasing name", "disconnecting", "done"} :
           closing' = [closing EXCEPT ![c] = to]
      /\ UNCHANGED <<pc, setupVars, workVars, interrupted>>
  BY DEF Closing, CloseStarts, NameReleased, CloseEnds
<1>3. /\ closing' \in 
             [Chan -> {"none", "created", "releasing name", "disconnecting", "done", "cancelled"}]
      /\ closing'[c] \in {"releasing name", "disconnecting", "done"}
      /\ \A d \in Chan : d # c => closing'[d] = closing[d]
  BY <1>0, <1>2 DEF LifecycleTyped
<1>4. \/ /\ closing[c] = "created" /\ closing'[c] = "releasing name"
         /\ UNCHANGED <<link, names>>
      \/ /\ closing[c] \in InHand /\ Shut(c)
      \/ /\ closing[c] = "disconnecting" /\ closing'[c] = "done"
         /\ UNCHANGED <<link, names>>
  BY <1>0 DEF Closing, CloseStarts, NameReleased, CloseEnds, InHand, LifecycleTyped
<1>5. /\ link' \in [Chan -> {"none", "new", "open", "lost", "shut"}]
      /\ names' \subseteq names
      /\ \A d \in Chan : d # c => link'[d] = link[d]
      /\ link'[c] = link[c] \/ (link'[c] = "shut" /\ c \notin names')
  BY <1>0, <1>4 DEF Shut, LifecycleTyped
<1>6. LifecycleTyped'
  <2>1. names' \subseteq Chan
    BY <1>0, <1>5, Zenon DEF LifecycleTyped
  <2>. QED BY <1>0, <1>2, <1>3, <1>5, <2>1, Zenon DEF LifecycleTyped, setupVars, workVars
<1>7. Manned'
  BY <1>2 DEF LifecycleInv, Manned, workVars, Ended, Idle
<1>8. closing[c] # "none"
  BY <1>1 DEF InHand
<1>9. Current'
  <2>1. ASSUME pc \in {"connecting", "closing bus", "registering"}
        PROVE  This \in Chan /\ This # c /\ closing[This] = "none"
    <3>1. at \in 0..Len(Channels)
      BY <1>0, Zenon DEF LifecycleTyped
    <3>2. at # 0
      BY <1>0, <2>1 DEF LifecycleTyped, StartingUp
    <3>3. at \in 1..Len(Channels)
      BY <3>1, <3>2, ChannelsDistinct
    <3>. QED BY <1>8, <2>1, <3>3, ChannelsDistinct DEF LifecycleInv, Current, This
  <2>. QED BY <1>2, <1>3, <1>5, <2>1 DEF LifecycleInv, Current, This, setupVars
<1>10. Ahead'
  <2>1. ASSUME pc \in StartingUp, NEW k \in at + 1..Len(Channels)
        PROVE  link'[Channels[k]] = "none" /\ closing'[Channels[k]] = "none"
    <3>1. Channels[k] \in Chan
      <4>1. at \in 0..Len(Channels)
        BY <1>0, Zenon DEF LifecycleTyped
      <4>2. k \in 1..Len(Channels)
        BY <4>1, ChannelsDistinct
      <4>. QED BY <4>2, ChannelsDistinct
    <3>2. Channels[k] # c
      BY <1>8, <2>1 DEF LifecycleInv, Ahead
    <3>. QED BY <1>3, <1>5, <2>1, <3>1, <3>2 DEF LifecycleInv, Ahead
  <2>. QED BY <1>2, <2>1 DEF Ahead, setupVars
<1>11. Named'
  BY <1>0, <1>5 DEF LifecycleInv, Named, LifecycleTyped
<1>12. closing[c] \in InHand \/ ~Connected(c)
  BY <1>1 DEF LifecycleInv, Closed, InHand
<1>13. Connected(c)' => closing'[c] \in InHand
  <2>1. CASE closing[c] \in InHand
    BY <1>4, <2>1, <1>0, <1>5 DEF InHand, Connected, Shut, LifecycleTyped
  <2>2. CASE ~Connected(c)
    BY <1>5, <2>2 DEF Connected
  <2>. QED BY <1>12, <2>1, <2>2
<1>14. Closed' /\ Owned'
  <2>1. ASSUME NEW d \in Chan, Connected(d)'
        PROVE  /\ closing'[d] \in InHand \union {"none", "cancelled"}
               /\ \/ closing'[d] \in InHand \union {"cancelled"}
                  \/ pc' \notin Over /\ d \in allocated' \union ToSet(unowned')
    <3>1. CASE d = c
      BY <1>2, <1>13, <2>1, <3>1
    <3>2. CASE d # c
      <4>1. Connected(d)
        BY <1>5, <2>1, <3>2 DEF Connected
      <4>. QED BY <1>2, <1>3, <2>1, <3>2, <4>1 DEF LifecycleInv, Closed, Owned, setupVars
    <3>. QED BY <3>1, <3>2
  <2>2. \A d \in Chan : closing'[d] = "cancelled" => interrupted'
    BY <1>2, <1>3 DEF LifecycleInv, Closed
  <2>. QED BY <2>1, <2>2 DEF Closed, Owned
<1>15. Finished'
  <2>1. pc # "exited"
    BY <1>1 DEF LifecycleInv, Finished, InHand
  <2>. QED BY <1>2, <2>1 DEF Finished
<1>. QED BY <1>6, <1>7, <1>9, <1>10, <1>11, <1>14, <1>15 DEF LifecycleInv

\* A bus is lost with its name, and stays to be disconnected by its owner.
LEMMA LossStep ==
    ASSUME LifecycleInv, NEW c \in Chan, LoseBus(c)
    PROVE  LifecycleInv'
<1>0. LifecycleTyped
  BY DEF LifecycleInv
<1>1. /\ link[c] = "open" /\ link' = [link EXCEPT ![c] = "lost"]
      /\ names' = names \ {c}
      /\ UNCHANGED <<pc, setupVars, closing, workVars, interrupted>>
  BY DEF LoseBus
<1>2. /\ link' \in [Chan -> {"none", "new", "open", "lost", "shut"}]
      /\ link'[c] = "lost"
      /\ \A d \in Chan : d # c => link'[d] = link[d]
  BY <1>0, <1>1 DEF LifecycleTyped
<1>3. LifecycleTyped'
  <2>1. names' \subseteq Chan
    BY <1>0, <1>1 DEF LifecycleTyped
  <2>. QED BY <1>0, <1>1, <1>2, <2>1, Zenon DEF LifecycleTyped, setupVars, workVars
<1>4. Manned' /\ Finished'
  BY <1>1 DEF LifecycleInv, Manned, workVars, Ended, Idle, Finished
<1>5. Current'
  <2>1. ASSUME pc = "connecting"
        PROVE  This # c /\ This \in Chan
    <3>1. at \in 0..Len(Channels)
      BY <1>0, Zenon DEF LifecycleTyped
    <3>2. at # 0
      BY <1>0, <2>1 DEF LifecycleTyped, StartingUp
    <3>3. at \in 1..Len(Channels)
      BY <3>1, <3>2, ChannelsDistinct
    <3>. QED BY <1>1, <2>1, <3>3, ChannelsDistinct DEF LifecycleInv, Current, This
  <2>. QED BY <1>1, <1>2, <2>1 DEF LifecycleInv, Current, This, setupVars
<1>6. Ahead'
  <2>1. ASSUME pc \in StartingUp, NEW k \in at + 1..Len(Channels)
        PROVE  link'[Channels[k]] = "none" /\ closing'[Channels[k]] = "none"
    <3>1. Channels[k] \in Chan
      <4>1. at \in 0..Len(Channels)
        BY <1>0, Zenon DEF LifecycleTyped
      <4>2. k \in 1..Len(Channels)
        BY <4>1, ChannelsDistinct
      <4>. QED BY <4>2, ChannelsDistinct
    <3>. QED BY <1>1, <1>2, <2>1, <3>1 DEF LifecycleInv, Ahead
  <2>. QED BY <1>1, <2>1 DEF Ahead, setupVars
<1>7. Named'
  BY <1>0, <1>1, <1>2 DEF LifecycleInv, Named, LifecycleTyped
<1>8. \A d \in Chan : Connected(d)' => Connected(d)
  BY <1>1, <1>2 DEF Connected
<1>9. Closed' /\ Owned'
  BY <1>1, <1>8 DEF LifecycleInv, Closed, Owned, setupVars
<1>. QED BY <1>3, <1>4, <1>5, <1>6, <1>7, <1>9 DEF LifecycleInv

\* The buses are closed once the workers have ended: what leaves then finds
\* every connected bus in one of main's lists.
LEMMA ShutdownStep ==
    ASSUME LifecycleInv, Shutdown
    PROVE  LifecycleInv'
<1>0. LifecycleTyped
  BY DEF LifecycleInv
<1>1. CASE Drain \/ DrainTimeout
  <2>1. /\ pc \in AtWork /\ pc' \in AtWork /\ task' = CancelWorkers
        /\ UNCHANGED <<setupVars, busVars, signals, stopping, swallowed, interrupted>>
        /\ overdue' = overdue \/ overdue' = TRUE
    BY <1>1 DEF Drain, DrainTimeout, AtWork
  <2>2. task' \in [Workers -> {"none", "ready", "running", "connected", "awaiting refresh",
                               "deaf", "sleeping", "leaving", "done"}]
    BY <1>0, <2>1, CancelTyped
  <2>3. overdue' \in BOOLEAN
    BY <1>0, <2>1, Zenon DEF LifecycleTyped
  <2>4. pc' \in StartingUp \union {"serving", "failing", "draining", "disconnecting"} \union Over
        /\ pc' \notin StartingUp
    BY <2>1 DEF AtWork, StartingUp
  <2>5. LifecycleTyped'
    BY <1>0, <2>1, <2>2, <2>3, <2>4, Zenon DEF LifecycleTyped, setupVars, busVars
  <2>. QED BY <2>1, <2>5, WorkStep
<1>2. CASE Drained
  <2>1. /\ pc = "draining" /\ pc' = "disconnecting" /\ \A w \in Workers : Ended(w)
        /\ UNCHANGED <<setupVars, busVars, workVars, interrupted>>
    BY <1>2 DEF Drained
  <2>2. LifecycleTyped'
    BY <1>0, <2>1 DEF LifecycleTyped, setupVars, busVars, workVars, StartingUp
  <2>3. Manned' /\ Current' /\ Ahead' /\ Finished'
    BY <2>1 DEF Manned, Current, Ahead, Finished, StartingUp, Over, Ended, workVars
  <2>4. Named' /\ Closed' /\ Owned'
    BY <2>1 DEF LifecycleInv, Named, Closed, Owned, Connected, Over, setupVars, busVars
  <2>. QED BY <2>2, <2>3, <2>4 DEF LifecycleInv
<1>3. CASE ClientClosed
  <2>1. /\ pc = "disconnecting" /\ signals' = FALSE /\ Release(allocated, unowned)
        /\ UNCHANGED <<setupVars, link, names, task, stopping, overdue, swallowed, interrupted>>
    BY <1>3 DEF ClientClosed
  <2>2. Leaves(allocated, unowned) /\ pc \notin Over
    BY <1>0, <2>1, ReleaseResult DEF Over
  <2>3. \A w \in Workers : Ended(w)
    BY <2>1 DEF LifecycleInv, Manned
  <2>4. LifecycleTyped'
    BY <1>0, <2>1, <2>2 DEF LifecycleTyped, Leaves, StartingUp, Over, setupVars
  <2>5. \A c \in Chan : Connected(c)' => Connected(c)
    BY <2>1 DEF Connected
  <2>. QED BY <2>1, <2>2, <2>3, <2>4, <2>5, LeavingStep DEF setupVars, LifecycleInv, Named
<1>4. CASE CloseTimeout
  <2>1. interrupted' \in BOOLEAN
    BY <1>0, <1>4, Zenon DEF CloseTimeout, LifecycleTyped
  <2>. QED BY <1>4, <2>1, CancelResult DEF CloseTimeout
<1>5. CASE Exit
  <2>1. /\ pc = "releasing" /\ \A c \in Chan : closing[c] \in {"none", "done", "cancelled"}
        /\ pc' = "exited"
        /\ UNCHANGED <<setupVars, busVars, workVars, interrupted>>
    BY <1>5 DEF Exit, CloseOver
  <2>2. LifecycleTyped'
    BY <1>0, <2>1 DEF LifecycleTyped, setupVars, busVars, workVars, StartingUp, Over
  <2>3. Manned' /\ Current' /\ Ahead' /\ Finished'
    BY <2>1 DEF LifecycleInv, Manned, Current, Ahead, Finished, StartingUp, Over, Ended,
                workVars, busVars
  <2>4. Named' /\ Closed' /\ Owned'
    BY <2>1 DEF LifecycleInv, Named, Closed, Owned, Connected, Over, setupVars, busVars
  <2>. QED BY <2>2, <2>3, <2>4 DEF LifecycleInv
<1>. QED BY <1>1, <1>2, <1>3, <1>4, <1>5 DEF Shutdown

\* SIGINT finds every connected bus owned by main or by its close task.
LEMMA InterruptStep ==
    ASSUME LifecycleInv, Interrupt
    PROVE  LifecycleInv'
<1>0. LifecycleTyped
  BY DEF LifecycleInv
<1>1. interrupted' = TRUE /\ UNCHANGED <<setupVars, workVars>>
  BY DEF Interrupt
<1>2. interrupted' \in BOOLEAN
  BY <1>1, Zenon
<1>3. CASE /\ pc \in {"connecting", "closing bus", "registering"}
           /\ Release(allocated, unowned)
           /\ UNCHANGED <<link, names>>
  <2>1. Leaves(allocated, unowned) /\ pc \notin Over
    BY <1>0, <1>3, ReleaseResult DEF Over
  <2>2. \A w \in Workers : Ended(w)
    BY <1>3 DEF LifecycleInv, Manned, StartingUp, Idle, Ended
  <2>3. ~signals'
    BY <1>1, <1>3 DEF LifecycleInv, Manned, StartingUp, workVars
  <2>4. LifecycleTyped'
    <3>1. pc' = "releasing" /\ pc' \in Over /\ pc' \notin StartingUp
      BY <2>1 DEF Leaves, Over, StartingUp
    <3>2. closing' \in 
              [Chan -> {"none", "created", "releasing name", "disconnecting", "done", "cancelled"}]
      BY <2>1 DEF Leaves
    <3>. QED BY <1>0, <1>1, <1>2, <1>3, <3>1, <3>2, Zenon DEF LifecycleTyped, setupVars, workVars
  <2>5. \A c \in Chan : Connected(c)' => Connected(c)
    BY <1>3 DEF Connected
  <2>. QED BY <1>1, <1>3, <2>1, <2>2, <2>3, <2>4, <2>5, LeavingStep
           DEF setupVars, workVars, LifecycleInv, Named
<1>4. CASE CancelClosing /\ UNCHANGED pc
  BY <1>1, <1>2, <1>4, CancelResult
<1>. QED BY <1>3, <1>4 DEF Interrupt

\* A stop signal.
LEMMA SignalStep ==
    ASSUME LifecycleInv, StopSignal
    PROVE  LifecycleInv'
<1>0. LifecycleTyped
  BY DEF LifecycleInv
<1>1. /\ stopping' = TRUE
      /\ UNCHANGED <<setupVars, link, names, overdue, swallowed, interrupted>>
  BY DEF StopSignal
<1>2. stopping' \in BOOLEAN
  BY <1>1, Zenon
<1>3. CASE /\ pc \in AtWork /\ pc' \in AtWork
           /\ task' = CancelWorkers \/ task' = task
           /\ UNCHANGED <<signals, closing>>
  <2>1. task' \in [Workers -> {"none", "ready", "running", "connected", "awaiting refresh",
                               "deaf", "sleeping", "leaving", "done"}]
    <3>1. CASE task' = CancelWorkers
      BY <1>0, <3>1, CancelTyped
    <3>2. CASE task' = task
      BY <1>0, <3>2, Zenon DEF LifecycleTyped
    <3>. QED BY <1>3, <3>1, <3>2
  <2>2. pc' \in StartingUp \union {"serving", "failing", "draining", "disconnecting"} \union Over
        /\ pc' \notin StartingUp
    BY <1>3 DEF AtWork, StartingUp
  <2>3. LifecycleTyped'
    BY <1>0, <1>1, <1>2, <1>3, <2>1, <2>2, Zenon DEF LifecycleTyped, setupVars
  <2>. QED BY <1>1, <1>3, <2>3, WorkStep DEF busVars
<1>4. CASE /\ pc = "disconnecting" /\ signals' = FALSE
           /\ Release(allocated, unowned) /\ UNCHANGED task
  <2>1. Leaves(allocated, unowned) /\ pc \notin Over
    BY <1>0, <1>4, ReleaseResult DEF Over
  <2>2. \A w \in Workers : Ended(w)
    BY <1>4 DEF LifecycleInv, Manned
  <2>3. LifecycleTyped'
    <3>1. pc' = "releasing" /\ pc' \in Over /\ pc' \notin StartingUp
      BY <2>1 DEF Leaves, Over, StartingUp
    <3>2. closing' \in 
              [Chan -> {"none", "created", "releasing name", "disconnecting", "done", "cancelled"}]
      BY <2>1 DEF Leaves
    <3>3. signals' \in BOOLEAN
      BY <1>4, Zenon
    <3>. QED BY <1>0, <1>1, <1>2, <1>4, <3>1, <3>2, <3>3, Zenon DEF LifecycleTyped, setupVars
  <2>4. \A c \in Chan : Connected(c)' => Connected(c)
    BY <1>1 DEF Connected
  <2>. QED BY <1>1, <1>4, <2>1, <2>2, <2>3, <2>4, LeavingStep DEF setupVars, LifecycleInv, Named
<1>. QED BY <1>3, <1>4 DEF StopSignal, AtWork

-----------------------------------------------------------------------------

LEMMA InitInv == Init => LifecycleInv
<1> SUFFICES ASSUME Init PROVE LifecycleInv
  OBVIOUS
<1>1. /\ <<>> \in Seq(Chan) /\ 0 \in 0..Len(Channels)
      /\ \A k \in 0 + 1..Len(Channels) : Channels[k] \in Chan
  BY ChannelsDistinct
<1>2. LifecycleTyped
  <2>1. signals \in BOOLEAN /\ stopping \in BOOLEAN /\ overdue \in BOOLEAN
        /\ interrupted \in BOOLEAN
    BY Zenon DEF Init
  <2>2. task \in [Workers -> {"none", "ready", "running", "connected", "awaiting refresh",
                              "deaf", "sleeping", "leaving", "done"}]
    BY DEF Init, Idle
  <2>3. /\ link \in [Chan -> {"none", "new", "open", "lost", "shut"}]
        /\ closing \in 
               [Chan -> {"none", "created", "releasing name", "disconnecting", "done", "cancelled"}]
        /\ names \subseteq Chan /\ allocated \subseteq Chan /\ services \subseteq Chan
        /\ refused \subseteq Chan /\ swallowed \in 0..2
        /\ pc = "starting" /\ at = 0 /\ unowned = <<>>
    BY DEF Init
  <2>4. /\ pc \in StartingUp \union {"serving", "failing", "draining", "disconnecting"} \union Over
        /\ pc \notin StartingUp \ {"starting"}
    BY <2>3 DEF StartingUp
  <2>. QED BY <1>1, <2>1, <2>2, <2>3, <2>4, Zenon DEF LifecycleTyped
<1>3. Manned /\ Current /\ Finished
  BY DEF Init, Manned, Current, Finished, StartingUp, Over
<1>4. Ahead
  BY <1>1 DEF Init, Ahead
<1>5. Named /\ Closed /\ Owned
  BY DEF Init, Named, Closed, Owned, Connected
<1>. QED BY <1>2, <1>3, <1>4, <1>5 DEF LifecycleInv

LEMMA InvStep == LifecycleInv /\ [Next]_vars => LifecycleInv'
<1> SUFFICES ASSUME LifecycleInv, [Next]_vars PROVE LifecycleInv'
  OBVIOUS
<1>1. CASE Startup
  BY <1>1, StartupStep
<1>2. CASE Shutdown
  BY <1>2, ShutdownStep
<1>3. CASE Client \/ \E w \in Workers : WorkerStarts(w) \/ WorkerFails(w)
  BY <1>3, WorkersStep
<1>4. CASE Interrupt
  BY <1>4, InterruptStep
<1>5. CASE StopSignal
  BY <1>5, SignalStep
<1>6. ASSUME NEW c \in Chan, Closing(c) \/ LoseBus(c)
      PROVE  LifecycleInv'
  BY <1>6, ClosingStep, LossStep
<1>7. CASE UNCHANGED vars
  <2>1. UNCHANGED <<pc, at, link, names, unowned, allocated, services, closing, task, signals,
                    stopping, interrupted, overdue, refused, swallowed>>
    BY <1>7 DEF vars, setupVars, busVars, workVars
  <2>2. LifecycleTyped' /\ Finished'
    BY <2>1, Zenon DEF LifecycleInv, LifecycleTyped, Finished
  <2>3. Manned'
    BY <2>1 DEF LifecycleInv, Manned, Ended
  <2>4. Current' /\ Ahead' /\ Named'
    BY <2>1 DEF LifecycleInv, Current, Ahead, Named, This
  <2>5. Closed' /\ Owned'
    BY <2>1 DEF LifecycleInv, Closed, Owned, Connected
  <2>. QED BY <2>2, <2>3, <2>4, <2>5 DEF LifecycleInv
<1>. QED BY <1>1, <1>2, <1>3, <1>4, <1>5, <1>6, <1>7 DEF Next

\* LifecycleInv holds at every step of main.main: every connected bus has an
\* owner that will close it, or had until SIGINT cancelled its close task.
THEOREM LifecycleInvariant == Spec => []LifecycleInv
BY InitInv, InvStep, PTL DEF Spec

\* When main is over no name is owned and no bus is connected, except where
\* SIGINT came before a close task began, and the workers ended before what
\* they write to was released.
THEOREM Released == Spec => []AllReleased
<1>1. LifecycleInv => AllReleased
  <2> SUFFICES ASSUME LifecycleInv PROVE AllReleased
    OBVIOUS
  <2>1. pc \in {"releasing", "exited"} => \A w \in Workers : Ended(w)
    BY DEF LifecycleInv, Manned, Over
  <2>2. \A c \in Chan : closing[c] = "cancelled" => interrupted
    BY DEF LifecycleInv, Closed
  <2>3. ASSUME pc = "exited", NEW c \in Chan, closing[c] # "cancelled"
        PROVE  c \notin names /\ ~Connected(c)
    <3>1. ~Connected(c)
      BY <2>3 DEF LifecycleInv, Owned, Finished, Over, InHand
    <3>2. c \in names => Connected(c)
      BY DEF LifecycleInv, Named, Connected
    <3>. QED BY <3>1, <3>2
  <2>. QED BY <2>1, <2>2, <2>3 DEF AllReleased
<1>. QED BY <1>1, LifecycleInvariant, PTL

=============================================================================
