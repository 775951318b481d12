------------------------- MODULE PacketStoreProofs --------------------------
(***************************************************************************)
(* Theorems about PacketStore, for any number of servers, packets and      *)
(* tenants and whatever giraffe-db does: the stores implement PacketViews, *)
(* the assertion of the decision handlers holds, and an answered decision  *)
(* is kept.                                                                *)
(*                                                                         *)
(* The inductive invariant adds three things to the typing.  An id no      *)
(* packet has been made for is used nowhere.  A server about to write a    *)
(* decision shows the packet as pending.  And a packet without a failed    *)
(* write is pending on one server at most, on none once it is answered.    *)
(***************************************************************************)
EXTENDS PacketStore, TLAPS

Unused ==
    \A p \in Packets : owner[p] = None =>
        /\ stored[p] = "ABSENT"
        /\ \A s \in Servers : cache[s][p] = "ABSENT"
        /\ answered[p] = {}
        /\ \A w \in inflight : w.packet # p

Deciding ==
    \A s \in Servers : ~Idle(s) =>
        /\ session[s].packet \in Packets
        /\ session[s].tenant \in Tenants
        /\ session[s].verdict \in Verdict
        /\ cache[s][session[s].packet] = "pending"
        /\ owner[session[s].packet] = session[s].tenant

Kept ==
    /\ \A p \in Packets \ exposed :
          /\ \A v \in answered[p] : stored[p] = v
          /\ \A s \in Servers : cache[s][p] = "pending" => answered[p] = {}
    /\ HeldTwice(cache) \subseteq exposed
    /\ \A w \in inflight : w.status # "pending" => w.packet \in exposed

IInv == TypeOK /\ Unused /\ Deciding /\ Kept

LEMMA InitIInv == Init => IInv
BY PacketStoreAssumption
   DEF Init, IInv, TypeOK, Unused, Deciding, Kept, Idle, IdleSession, Session, Shown, Status,
       HeldTwice, Write

-----------------------------------------------------------------------------
\* Each outcome of saving a packet fills in what was unused: the row, this server's
\* memory, or a write that may still be taken.
LEMMA SaveFills ==
    ASSUME IInv, NEW s \in Servers, NEW p \in Packets, owner[p] = None,
           SaveStored(s, p) \/ SaveInMemory(s, p) \/ SaveTimesOut(s, p)
    PROVE  /\ stored' \in [Packets -> Shown]
           /\ cache' \in [Servers -> [Packets -> Shown]]
           /\ inflight' \in SUBSET Write
           /\ \A q \in Packets : q # p => stored'[q] = stored[q]
           /\ \A u \in Servers, q \in Packets : q # p \/ u # s => cache'[u][q] = cache[u][q]
           /\ \A w \in inflight' : w \in inflight \/ (w.packet = p /\ w.status = "pending")
<1>1. CASE SaveStored(s, p)
    BY <1>1 DEF SaveStored, Store, Cache, IInv, TypeOK, Shown, Status
<1>2. CASE SaveInMemory(s, p)
    BY <1>2 DEF SaveInMemory, Cache, IInv, TypeOK, Shown, Status
<1>3. CASE SaveTimesOut(s, p)
    BY <1>3 DEF SaveTimesOut, IInv, TypeOK, Write, Status
<1> QED
    BY <1>1, <1>2, <1>3

LEMMA CreateIInv ==
    ASSUME IInv, NEW s \in Servers, NEW p \in Packets, NEW t \in Tenants, Create(s, p, t)
    PROVE  IInv'
<1>1. /\ owner[p] = None
      /\ t # None
      /\ owner' = [owner EXCEPT ![p] = t]
      /\ Idle(s)
      /\ exposed' = (exposed \cup {}) \cup HeldTwice(cache')
      /\ UNCHANGED <<durable, session, answered>>
    BY PacketStoreAssumption DEF Create, Expose
<1>2. /\ stored' \in [Packets -> Shown]
      /\ cache' \in [Servers -> [Packets -> Shown]]
      /\ inflight' \in SUBSET Write
      /\ \A q \in Packets : q # p => stored'[q] = stored[q]
      /\ \A u \in Servers, q \in Packets : q # p \/ u # s => cache'[u][q] = cache[u][q]
      /\ \A w \in inflight' : w \in inflight \/ (w.packet = p /\ w.status = "pending")
    BY <1>1, SaveFills DEF Create
<1>3. answered[p] = {}
    BY <1>1 DEF IInv, Unused
<1>4. TypeOK'
    BY <1>1, <1>2 DEF IInv, TypeOK, HeldTwice
<1>5. Unused'
    BY <1>1, <1>2 DEF IInv, TypeOK, Unused
<1>6. Deciding'
  <2>1. ASSUME NEW u \in Servers, ~Idle(u) PROVE session[u].packet # p
      BY <1>1, <2>1, PacketStoreAssumption DEF IInv, Deciding
  <2> QED
      BY <1>1, <1>2, <2>1 DEF IInv, TypeOK, Deciding, Idle
<1>7. Kept'
    BY <1>1, <1>2, <1>3 DEF IInv, TypeOK, Kept, HeldTwice
<1> QED
    BY <1>4, <1>5, <1>6, <1>7 DEF IInv

\* What a look-up returns, it leaves in this server's memory: what was there, or a
\* row of giraffe-db where nothing was.
LEMMA BackfillIsFill ==
    ASSUME IInv, NEW s \in Servers, NEW p \in Packets, NEW status \in Fetched(s, p),
           Backfill(s, p, status)
    PROVE  /\ status \in Shown
           /\ cache' = [cache EXCEPT ![s][p] = status]
           /\ cache' \in [Servers -> [Packets -> Shown]]
           /\ cache[s][p] # "ABSENT" => cache' = cache
           /\ cache[s][p] = "ABSENT" => status \in {"ABSENT", stored[p]}
           /\ \A u \in Servers, q \in Packets : cache[u][q] # "ABSENT" => cache'[u][q] = cache[u][q]
           /\ \A u \in Servers, q \in Packets : <<u, q>> # <<s, p>> => cache'[u][q] = cache[u][q]
           /\ cache'[s][p] = status
BY DEF IInv, TypeOK, Fetched, Backfill, Cache, Shown, Status

LEMMA LookIInv ==
    ASSUME IInv, NEW s \in Servers, NEW p \in Packets, NEW status \in Fetched(s, p),
           Backfill(s, p, status), Expose({}),
           UNCHANGED <<owner, stored, durable, inflight, answered>>
    PROVE  /\ Unused'
           /\ Kept'
           /\ exposed' \in SUBSET Packets
<1>1. /\ status \in Shown
      /\ cache' \in [Servers -> [Packets -> Shown]]
      /\ cache[s][p] # "ABSENT" => cache' = cache
      /\ cache[s][p] = "ABSENT" => status \in {"ABSENT", stored[p]}
      /\ \A u \in Servers, q \in Packets : <<u, q>> # <<s, p>> => cache'[u][q] = cache[u][q]
      /\ cache'[s][p] = status
    BY BackfillIsFill
<1>2. /\ exposed' = (exposed \cup {}) \cup HeldTwice(cache')
      /\ UNCHANGED <<owner, stored, durable, inflight, answered>>
    BY DEF Expose
<1>3. ASSUME NEW u \in Servers, NEW q \in Packets
      PROVE  cache'[u][q] = cache[u][q] \/ cache'[u][q] = stored[q]
    BY <1>1 DEF IInv, TypeOK
<1>4. Unused'
    BY <1>2, <1>3 DEF IInv, Unused
<1>5. Kept'
  <2>1. ASSUME NEW q \in Packets \ exposed', NEW u \in Servers, cache'[u][q] = "pending"
        PROVE  answered[q] = {}
    <3>1. q \notin exposed /\ answered[q] \in SUBSET Verdict
        BY <1>2 DEF IInv, TypeOK
    <3>2. CASE cache[u][q] = "pending"
        BY <3>1, <3>2 DEF IInv, Kept
    <3>3. CASE stored[q] = "pending"
        BY <3>1, <3>3 DEF IInv, Kept, Verdict
    <3> QED
        BY <1>3, <2>1, <3>2, <3>3
  <2> QED
      BY <1>2, <2>1 DEF IInv, Kept, HeldTwice
<1> QED
    BY <1>2, <1>4, <1>5 DEF HeldTwice, IInv, TypeOK

LEMMA ShowIInv ==
    ASSUME IInv, NEW s \in Servers, NEW p \in Packets, Show(s, p)
    PROVE  IInv'
<1>1. PICK status \in Fetched(s, p) : Backfill(s, p, status)
    BY DEF Show
<1>2. /\ Expose({})
      /\ UNCHANGED <<owner, stored, durable, inflight, answered>>
      /\ session' = session
    BY DEF Show
<1>3. Unused' /\ Kept' /\ exposed' \in SUBSET Packets
    BY <1>1, <1>2, LookIInv
<1>4. TypeOK'
    BY <1>1, <1>2, <1>3, BackfillIsFill DEF IInv, TypeOK
<1>5. Deciding'
    BY <1>1, <1>2, BackfillIsFill DEF IInv, Deciding, Idle, TypeOK
<1> QED
    BY <1>3, <1>4, <1>5 DEF IInv

LEMMA DecideIInv ==
    ASSUME IInv, NEW s \in Servers, NEW p \in Packets, NEW t \in Tenants, NEW v \in Verdict,
           Decide(s, p, t, v)
    PROVE  IInv'
<1>1. PICK status \in Fetched(s, p) :
         /\ Backfill(s, p, status)
         /\ session' = IF MayDecide(p, status, t)
                       THEN [session EXCEPT ![s] = [packet |-> p, tenant |-> t, verdict |-> v]]
                       ELSE session
    BY DEF Decide
<1>2. /\ Expose({})
      /\ UNCHANGED <<owner, stored, durable, inflight, answered>>
    BY DEF Decide
<1>3. Unused' /\ Kept' /\ exposed' \in SUBSET Packets
    BY <1>1, <1>2, LookIInv
<1>4. TypeOK'
    BY <1>1, <1>2, <1>3, BackfillIsFill DEF IInv, TypeOK, Session
<1>5. Deciding'
  <2>1. CASE MayDecide(p, status, t)
      BY <1>1, <1>2, <2>1, BackfillIsFill DEF IInv, Deciding, Idle, TypeOK, MayDecide
  <2>2. CASE ~MayDecide(p, status, t)
      BY <1>1, <1>2, <2>2, BackfillIsFill DEF IInv, Deciding, Idle, TypeOK
  <2> QED
      BY <2>1, <2>2
<1> QED
    BY <1>3, <1>4, <1>5 DEF IInv

LEMMA UpdateStoredIInv ==
    ASSUME IInv, NEW s \in Servers, UpdateStored(s)
    PROVE  IInv'
<1> DEFINE p == session[s].packet
           v == session[s].verdict
<1>1. /\ p \in Packets
      /\ v \in Verdict
      /\ cache[s][p] = "pending"
      /\ owner[p] \in Tenants
    BY DEF IInv, Deciding, UpdateStored
<1>2. /\ stored' = [stored EXCEPT ![p] = v]
      /\ cache' = [cache EXCEPT ![s][p] = v]
      /\ answered' = [answered EXCEPT ![p] = @ \cup {v}]
      /\ session' = [session EXCEPT ![s] = IdleSession]
      /\ exposed' = exposed \cup HeldTwice(cache')
      /\ UNCHANGED <<owner, durable, inflight>>
    BY DEF UpdateStored, Store, Cache, Answer, Finish, Expose
<1> HIDE DEF p, v
<1>3. TypeOK'
    BY <1>1, <1>2 DEF IInv, TypeOK, Shown, Status, HeldTwice, Session, IdleSession
<1>4. Unused'
    BY <1>1, <1>2, PacketStoreAssumption DEF IInv, TypeOK, Unused
<1>5. Deciding'
    BY <1>1, <1>2 DEF IInv, TypeOK, Deciding, Idle
<1>6. Kept'
  <2>1. ASSUME NEW q \in Packets \ exposed', NEW u \in Servers, cache'[u][q] = "pending"
        PROVE  answered'[q] = {}
    <3>1. q \notin exposed /\ cache[u][q] = "pending" /\ q # p
        BY <1>1, <1>2, <2>1 DEF IInv, TypeOK, Kept, HeldTwice, Verdict
    <3> QED
        BY <1>2, <3>1 DEF IInv, TypeOK, Kept
  <2>2. ASSUME NEW q \in Packets \ exposed', NEW a \in answered'[q] PROVE stored'[q] = a
      BY <1>1, <1>2 DEF IInv, TypeOK, Kept
  <2> QED
      BY <1>2, <2>1, <2>2 DEF IInv, Kept, HeldTwice
<1> QED
    BY <1>3, <1>4, <1>5, <1>6 DEF IInv

LEMMA UpdateInMemoryIInv ==
    ASSUME IInv, NEW s \in Servers, UpdateInMemory(s)
    PROVE  IInv'
<1> DEFINE p == session[s].packet
           v == session[s].verdict
<1>1. /\ p \in Packets
      /\ v \in Verdict
      /\ owner[p] \in Tenants
    BY DEF IInv, Deciding, UpdateInMemory
<1>2. /\ cache' = [cache EXCEPT ![s][p] = v]
      /\ answered' = [answered EXCEPT ![p] = @ \cup {v}]
      /\ session' = [session EXCEPT ![s] = IdleSession]
      /\ exposed' = (exposed \cup {p}) \cup HeldTwice(cache')
      /\ UNCHANGED <<owner, stored, durable, inflight>>
    BY DEF UpdateInMemory, Cache, Answer, Finish, Expose
<1> HIDE DEF p, v
<1>3. TypeOK'
    BY <1>1, <1>2 DEF IInv, TypeOK, Shown, Status, HeldTwice, Session, IdleSession
<1>4. Unused'
    BY <1>1, <1>2, PacketStoreAssumption DEF IInv, TypeOK, Unused
<1>5. Deciding'
    BY <1>1, <1>2 DEF IInv, TypeOK, Deciding, Idle
<1>6. Kept'
    BY <1>1, <1>2 DEF IInv, TypeOK, Kept, HeldTwice, Verdict
<1> QED
    BY <1>3, <1>4, <1>5, <1>6 DEF IInv

LEMMA UpdateTimesOutIInv ==
    ASSUME IInv, NEW s \in Servers, UpdateTimesOut(s)
    PROVE  IInv'
<1> DEFINE p == session[s].packet
           w == [packet |-> p, status |-> session[s].verdict]
<1>1. /\ p \in Packets
      /\ w \in Write
      /\ owner[p] \in Tenants
    BY DEF IInv, Deciding, UpdateTimesOut, Write, Status
<1>2. /\ inflight' = inflight \cup {w}
      /\ session' = [session EXCEPT ![s] = IdleSession]
      /\ exposed' = (exposed \cup {p}) \cup HeldTwice(cache')
      /\ UNCHANGED <<owner, stored, cache, durable, answered>>
    BY DEF UpdateTimesOut, Finish, Expose
<1>3. w.packet = p
    OBVIOUS
<1> HIDE DEF p, w
<1>4. TypeOK'
    BY <1>1, <1>2 DEF IInv, TypeOK, HeldTwice, Session, IdleSession
<1>5. Unused'
    BY <1>1, <1>2, <1>3, PacketStoreAssumption DEF IInv, TypeOK, Unused
<1>6. Deciding'
    BY <1>1, <1>2 DEF IInv, TypeOK, Deciding, Idle
<1>7. Kept'
    BY <1>1, <1>2, <1>3 DEF IInv, TypeOK, Kept, HeldTwice
<1> QED
    BY <1>4, <1>5, <1>6, <1>7 DEF IInv

LEMMA LandIInv ==
    ASSUME IInv, NEW w \in inflight, Land(w)
    PROVE  IInv'
<1> USE DEF IInv, Land
<1>1. w \in Write
    BY DEF TypeOK
<1>2. TypeOK'
    BY <1>1 DEF TypeOK, Store, Write, Shown
<1>3. Unused'
    BY <1>1 DEF Unused, TypeOK, Store, Write
<1>4. Deciding'
    BY DEF Deciding, Idle
<1>5. Kept'
    BY <1>1 DEF Kept, TypeOK, Store, Takes, Write, HeldTwice, Verdict
<1> QED
    BY <1>2, <1>3, <1>4, <1>5

LEMMA RestartIInv ==
    ASSUME IInv, NEW s \in Servers, Restart(s)
    PROVE  IInv'
<1> USE DEF IInv, Restart, Finish
<1>1. TypeOK'
    BY DEF TypeOK, Shown, Session, IdleSession
<1>2. Unused'
    BY DEF Unused, TypeOK
<1>3. Deciding'
    BY DEF Deciding, TypeOK, Idle
<1>4. Kept'
    BY DEF Kept, TypeOK, HeldTwice
<1> QED
    BY <1>1, <1>2, <1>3, <1>4

LEMMA NextIInv == IInv /\ [Next]_vars => IInv'
<1> SUFFICES ASSUME IInv, [Next]_vars PROVE IInv'
    OBVIOUS
<1>1. CASE UNCHANGED vars
    BY <1>1 DEF vars, IInv, TypeOK, Unused, Deciding, Idle, Kept, HeldTwice
<1>2. CASE Next
    BY <1>2, CreateIInv, ShowIInv, DecideIInv, UpdateStoredIInv, UpdateInMemoryIInv,
       UpdateTimesOutIInv, LandIInv, RestartIInv DEF Next
<1> QED
    BY <1>1, <1>2

THEOREM Invariance == Spec => []IInv
BY InitIInv, NextIInv, PTL DEF Spec

-----------------------------------------------------------------------------
\* Rows, memories, sessions and late writes stay well typed.
THEOREM TypeCorrect == Spec => []TypeOK
<1>1. IInv => TypeOK
    BY DEF IInv
<1> QED
    BY <1>1, Invariance, PTL

\* The assertion of approve_packet and reject_packet never fails: the fallback of
\* update_status finds in memory the packet that get found.
THEOREM AssertionHolds == Spec => []UpdateFindsPacket
<1>1. IInv => UpdateFindsPacket
    BY DEF IInv, Deciding, UpdateFindsPacket
<1> QED
    BY <1>1, Invariance, PTL

\* With any number of servers and restarts, an answered decision is the one
\* giraffe-db has, unless the packet was exposed to a failed write or two deciders.
THEOREM AnswersStand == Spec => []AnsweredIsKept
<1>1. IInv => AnsweredIsKept
    BY DEF IInv, Kept, AnsweredIsKept
<1> QED
    BY <1>1, Invariance, PTL

\* Whatever giraffe-db does, the servers implement PacketViews: no server takes back
\* a decision it has shown before it is restarted.
THEOREM ServersFollowPacketViews == Spec => FollowsPacketViews
<1> USE DEF Views!Status, Views!Verdict, Status, Verdict, Shown
<1>1. Init => Views!Init
    BY DEF Init, Views!Init
<1>2. IInv /\ [Next]_vars => [Views!Next]_cache
  <2> SUFFICES ASSUME IInv, [Next]_vars, cache' # cache PROVE Views!Next
      OBVIOUS
  <2>1. ASSUME NEW s \in Servers, NEW p \in Packets, NEW t \in Tenants, Create(s, p, t)
        PROVE  Views!Next
    <3>1. cache' = [cache EXCEPT ![s][p] = "pending"] /\ cache[s][p] = "ABSENT"
        BY <2>1 DEF IInv, Unused, Create, SaveStored, SaveInMemory, SaveTimesOut, Cache
    <3> QED
        BY <3>1 DEF Views!Next, Views!Learn
  <2>2. ASSUME NEW s \in Servers, NEW p \in Packets, NEW status \in Fetched(s, p),
               Backfill(s, p, status)
        PROVE  Views!Next
    <3>1. cache[s][p] = "ABSENT" /\ cache' = [cache EXCEPT ![s][p] = status] /\ status \in Shown
        BY <2>2, BackfillIsFill
    <3>2. status # "ABSENT"
        BY <3>1 DEF IInv, TypeOK
    <3> QED
        BY <3>1, <3>2 DEF Views!Next, Views!Learn
  <2>3. ASSUME NEW s \in Servers, UpdateStored(s) \/ UpdateInMemory(s) PROVE Views!Next
    <3>1. /\ session[s].packet \in Packets
          /\ session[s].verdict \in Verdict
          /\ cache[s][session[s].packet] = "pending"
          /\ cache' = [cache EXCEPT ![s][session[s].packet] = session[s].verdict]
        BY <2>3 DEF IInv, Deciding, UpdateStored, UpdateInMemory, Cache
    <3> QED
        BY <3>1 DEF Views!Next, Views!Decide
  <2>4. ASSUME NEW s \in Servers, Restart(s) PROVE Views!Next
      BY <2>4 DEF Restart, Views!Next, Views!Forget
  <2> QED
      BY <2>1, <2>2, <2>3, <2>4
      DEF Next, vars, Show, Decide, UpdateTimesOut, Land
<1> QED
    BY <1>1, <1>2, Invariance, PTL DEF Spec, FollowsPacketViews, Views!Spec
=============================================================================
