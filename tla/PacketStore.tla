---------------------------- MODULE PacketStore -----------------------------
(***************************************************************************)
(* GPM decision packets.  A priced quote is kept as a packet an operator   *)
(* approves or rejects.  Every server process keeps the packets it has     *)
(* seen in memory, in front of giraffe-db: it writes through, and when     *)
(* giraffe-db does not take a write it goes on in memory alone.            *)
(*                                                                         *)
(* The handlers are coroutines without an await, and the client blocks, so *)
(* a process serves one request at a time; other processes run between its *)
(* calls to giraffe-db.  A response outside 2xx is the error the store     *)
(* expects.  A transport failure is not: it leaves the handler, and        *)
(* giraffe-db may take the write at once, later or never.                  *)
(***************************************************************************)
CONSTANTS
    Servers,       \* server processes that share one giraffe-db
    Packets,       \* packet ids
    Tenants,
    None

ASSUME PacketStoreAssumption == None \notin Tenants \cup Packets

VARIABLES
    owner,         \* the tenant a packet was made for, None if the id is unused
    stored,        \* the status of each row of giraffe-db
    cache,         \* GPMPacketStore._mem of each server
    durable,       \* GPMPacketStore._durable of each server
    session,       \* the decision a server is about to write
    inflight,      \* writes that timed out and giraffe-db may still take
    answered,      \* history: the decisions operators were told had been made
    exposed        \* history: packets a write of which was refused or timed out,
                   \* or that two servers have held pending at once

vars == <<owner, stored, cache, durable, session, inflight, answered, exposed>>

Verdict == {"approved", "rejected"}
Status == {"pending"} \cup Verdict
Shown == Status \cup {"ABSENT"}

Session == [packet : Packets \cup {None}, tenant : Tenants \cup {None},
            verdict : Verdict \cup {None}]
IdleSession == [packet |-> None, tenant |-> None, verdict |-> None]
Idle(s) == session[s] = IdleSession
Finish(s) == session' = [session EXCEPT ![s] = IdleSession]

Write == [packet : Packets, status : Status]

\* POST inserts a row, PATCH changes one that is there.
Takes(w) == (stored[w.packet] = "ABSENT") <=> (w.status = "pending")
Store(w) == stored' = [stored EXCEPT ![w.packet] = w.status]
Cache(s, p, status) == cache' = [cache EXCEPT ![s][p] = status]

\* Packets that two servers hold as pending, so that both can decide them.
HeldTwice(held) ==
    {p \in Packets : \E s, u \in Servers :
        s # u /\ held[s][p] = "pending" /\ held[u][p] = "pending"}
Expose(ps) == exposed' = exposed \cup ps \cup HeldTwice(cache')

-----------------------------------------------------------------------------
(***************************************************************************)
(* A packet is saved                                                       *)
(***************************************************************************)
SaveStored(s, p) ==
    /\ durable[s]
    /\ Takes([packet |-> p, status |-> "pending"])
    /\ Store([packet |-> p, status |-> "pending"])
    /\ Cache(s, p, "pending")
    /\ UNCHANGED inflight

\* giraffe-db is not there or answers with an error: memory only.
SaveInMemory(s, p) ==
    /\ Cache(s, p, "pending")
    /\ UNCHANGED <<stored, inflight>>

SaveTimesOut(s, p) ==
    /\ durable[s]
    /\ inflight' = inflight \cup {[packet |-> p, status |-> "pending"]}
    /\ UNCHANGED <<stored, cache>>

\* create_quote_guidance
Create(s, p, t) ==
    /\ Idle(s)
    /\ owner[p] = None
    /\ owner' = [owner EXCEPT ![p] = t]
    /\ SaveStored(s, p) \/ SaveInMemory(s, p) \/ SaveTimesOut(s, p)
    /\ Expose({})
    /\ UNCHANGED <<durable, session, answered>>

-----------------------------------------------------------------------------
(***************************************************************************)
(* A packet is looked up and decided                                       *)
(***************************************************************************)
\* GPMPacketStore.get: memory, else giraffe-db, which may fail or not have it.
Fetched(s, p) ==
    IF cache[s][p] # "ABSENT" THEN {cache[s][p]}
    ELSE {"ABSENT"} \cup (IF durable[s] THEN {stored[p]} ELSE {})

\* Mutant of Backfill: a row read from giraffe-db is not put in memory.
BackfillNot(s, p, status) == UNCHANGED cache

Backfill(s, p, status) == Cache(s, p, status)

\* get_quote_guidance
Show(s, p) ==
    /\ Idle(s)
    /\ \E status \in Fetched(s, p) : Backfill(s, p, status)
    /\ Expose({})
    /\ UNCHANGED <<owner, stored, durable, session, inflight, answered>>

\* Mutant of MayDecide: a packet already decided is decided again.
MayDecideAgain(p, status, t) == status # "ABSENT" /\ owner[p] = t

\* Neither 404, 403 nor 409.
MayDecide(p, status, t) == status = "pending" /\ owner[p] = t

\* approve_packet and reject_packet up to the update: get and the checks on what it
\* returned.
Decide(s, p, t, verdict) ==
    /\ Idle(s)
    /\ \E status \in Fetched(s, p) :
          /\ Backfill(s, p, status)
          /\ session' = IF MayDecide(p, status, t)
                        THEN [session EXCEPT ![s] =
                                 [packet |-> p, tenant |-> t, verdict |-> verdict]]
                        ELSE session
    /\ Expose({})
    /\ UNCHANGED <<owner, stored, durable, inflight, answered>>

\* The operator is told that the packet has been decided.
Answer(s) ==
    /\ answered' = [answered EXCEPT ![session[s].packet] = @ \cup {session[s].verdict}]
    /\ Finish(s)

\* Mutant of UpdateStored: memory is updated, giraffe-db is not.
UpdateStoredNot(s) ==
    LET p == session[s].packet IN
    /\ ~Idle(s)
    /\ durable[s]
    /\ Cache(s, p, session[s].verdict)
    /\ Answer(s)
    /\ Expose({})
    /\ UNCHANGED <<owner, stored, durable, inflight>>

\* update_status: giraffe-db takes the decision, and memory what it returns.
UpdateStored(s) ==
    LET p == session[s].packet
        w == [packet |-> p, status |-> session[s].verdict] IN
    /\ ~Idle(s)
    /\ durable[s]
    /\ Takes(w)
    /\ Store(w)
    /\ Cache(s, p, session[s].verdict)
    /\ Answer(s)
    /\ Expose({})
    /\ UNCHANGED <<owner, durable, inflight>>

\* giraffe-db is not there, has no such row or answers with an error: the decision
\* is made in memory alone.
UpdateInMemory(s) ==
    LET p == session[s].packet IN
    /\ ~Idle(s)
    /\ cache[s][p] # "ABSENT"
    /\ owner[p] = session[s].tenant
    /\ Cache(s, p, session[s].verdict)
    /\ Answer(s)
    /\ Expose({p})
    /\ UNCHANGED <<owner, stored, durable, inflight>>

\* The PATCH times out: the request fails with its effect unknown.
UpdateTimesOut(s) ==
    LET p == session[s].packet IN
    /\ ~Idle(s)
    /\ durable[s]
    /\ inflight' = inflight \cup {[packet |-> p, status |-> session[s].verdict]}
    /\ Finish(s)
    /\ UNCHANGED <<owner, stored, cache, durable, answered>>
    /\ Expose({p})

\* giraffe-db takes a write whose sender no longer waits for it.
Land(w) ==
    /\ inflight' = inflight \ {w}
    /\ IF Takes(w) THEN Store(w) ELSE UNCHANGED stored
    /\ UNCHANGED <<owner, cache, durable, session, answered, exposed>>

\* The process is restarted: _init_store makes a new store, and one call to
\* giraffe-db settles whether it is durable.
Restart(s) ==
    /\ cache' = [cache EXCEPT ![s] = [p \in Packets |-> "ABSENT"]]
    /\ \E up \in BOOLEAN : durable' = [durable EXCEPT ![s] = up]
    /\ Finish(s)
    /\ UNCHANGED <<owner, stored, inflight, answered, exposed>>

-----------------------------------------------------------------------------
Init ==
    /\ owner = [p \in Packets |-> None]
    /\ stored = [p \in Packets |-> "ABSENT"]
    /\ cache = [s \in Servers |-> [p \in Packets |-> "ABSENT"]]
    /\ durable \in [Servers -> BOOLEAN]
    /\ session = [s \in Servers |-> IdleSession]
    /\ inflight = {}
    /\ answered = [p \in Packets |-> {}]
    /\ exposed = {}

Next ==
    \/ \E s \in Servers, p \in Packets, t \in Tenants : Create(s, p, t)
    \/ \E s \in Servers, p \in Packets : Show(s, p)
    \/ \E s \in Servers, p \in Packets, t \in Tenants, v \in Verdict : Decide(s, p, t, v)
    \/ \E s \in Servers : UpdateStored(s) \/ UpdateInMemory(s) \/ UpdateTimesOut(s)
    \/ \E w \in inflight : Land(w)
    \/ \E s \in Servers : Restart(s)

Spec == Init /\ [][Next]_vars

-----------------------------------------------------------------------------
TypeOK ==
    /\ owner \in [Packets -> Tenants \cup {None}]
    /\ stored \in [Packets -> Shown]
    /\ cache \in [Servers -> [Packets -> Shown]]
    /\ durable \in [Servers -> BOOLEAN]
    /\ session \in [Servers -> Session]
    /\ inflight \in SUBSET Write
    /\ answered \in [Packets -> SUBSET Verdict]
    /\ exposed \in SUBSET Packets

\* The assertion of approve_packet and reject_packet cannot fail: when the update
\* is reached, the packet is in this server's memory, where the fallback looks for
\* it, and belongs to the tenant that decides.
UpdateFindsPacket ==
    \A s \in Servers : ~Idle(s) =>
        /\ cache[s][session[s].packet] # "ABSENT"
        /\ owner[session[s].packet] = session[s].tenant

\* Restarts and several servers notwithstanding, a decision an operator was told of
\* is the one giraffe-db has, so that no other can be made, unless a write of the
\* packet was refused or timed out or two servers held it pending at once.
AnsweredIsKept ==
    \A p \in Packets \ exposed : \A v \in answered[p] : stored[p] = v

\* Whatever giraffe-db does, a server never takes back what it has shown of a packet
\* until it is restarted: the stores implement PacketViews.
Views == INSTANCE PacketViews WITH view <- cache
FollowsPacketViews == Views!Spec
=============================================================================
