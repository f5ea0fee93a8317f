----------------------------- MODULE ReducerProofs -----------------------------
(***************************************************************************)
(* The timeline reducer: the rows it stores are those of the transcript,   *)
(* whatever the batches were and however often it was rebuilt.             *)
(*                                                                         *)
(* A reducer is looked at through the rows it stands for (ViewOf): what is *)
(* stored with its changes, whatever it has loaded.  Each step is restated *)
(* on those rows alone (See...), the cache is shown to keep to them        *)
(* (Held), and the rows of a transcript are defined by going through its   *)
(* lines once (ViewAt).  The rest is about ViewAt: which calls it has      *)
(* answered, and what it has billed.                                       *)
(*                                                                         *)
(* Then the types of all parts of Pipeline, from what this module and      *)
(* PipelineProofs show of each and from the bounds it keeps to.            *)
(***************************************************************************)
EXTENDS PipelineProofs

-----------------------------------------------------------------------------
(***************************************************************************)
(* Tables.                                                                 *)
(***************************************************************************)
\* What a table over another holds.
LEMMA OntoIs ==
    ASSUME NEW f, NEW g
    PROVE  /\ DOMAIN Onto(f, g) = DOMAIN f \cup DOMAIN g
           /\ \A k \in DOMAIN f : Onto(f, g)[k] = f[k]
           /\ \A k \in DOMAIN g : k \notin DOMAIN f => Onto(f, g)[k] = g[k]
BY DEF Onto

\* What a table with an entry put in holds.
LEMMA PutAtIs ==
    ASSUME NEW f, NEW k, NEW entry
    PROVE  /\ DOMAIN PutAt(f, k, entry) = DOMAIN f \cup {k}
           /\ PutAt(f, k, entry)[k] = entry
           /\ \A j \in DOMAIN f : j # k => PutAt(f, k, entry)[j] = f[j]
BY DEF PutAt

\* An entry put into the upper table is put into both.
LEMMA PutOnto ==
    ASSUME NEW f, NEW g, NEW k, NEW entry
    PROVE  Onto(PutAt(f, k, entry), g) = PutAt(Onto(f, g), k, entry)
BY DEF Onto, PutAt

\* Loading rows of the lower table into the upper one changes nothing.
LEMMA LoadOnto ==
    ASSUME NEW f, NEW g, NEW S \in SUBSET DOMAIN g
    PROVE  Onto(Onto(f, [k \in S |-> g[k]]), g) = Onto(f, g)
BY DEF Onto

\* Nor does loading one.
LEMMA LoadOneOnto ==
    ASSUME NEW f, NEW g, NEW k \in DOMAIN g, k \notin DOMAIN f
    PROVE  Onto(PutAt(f, k, g[k]), g) = Onto(f, g)
BY DEF Onto, PutAt

\* Rows of the upper table that are those of the lower one may be left out.
LEMMA ChangedOnto ==
    ASSUME NEW f, NEW g, NEW S \in SUBSET DOMAIN f,
           \A k \in DOMAIN f : k \notin S => k \in DOMAIN g /\ f[k] = g[k]
    PROVE  Onto([k \in S |-> f[k]], g) = Onto(f, g)
BY DEF Onto

\* An empty table over another is the other.
LEMMA NothingOnto ==
    ASSUME NEW g, g = [k \in DOMAIN g |-> g[k]]
    PROVE  Onto(NoEntry, g) = g
BY DEF Onto, NoEntry

-----------------------------------------------------------------------------
(***************************************************************************)
(* What a reducer stands for: the stored rows with its changes, whatever   *)
(* it has loaded.  Each step of the fold is restated on these rows alone.  *)
(***************************************************************************)
ViewOf(r) ==
    [st |-> r.st, turns |-> Onto(r.turns, r.d.turns), ops |-> Onto(r.ops, r.d.ops),
     items |-> r.d.items \cup r.items, usage |-> Onto(r.usage, r.d.usage)]

SeeTurn(v, t, entry) == [v EXCEPT !.turns = PutAt(@, t, entry)]
SeeOp(v, k, entry) == [v EXCEPT !.ops = PutAt(@, k, entry)]

SeeMark(v, t, err) ==
    IF t \in DOMAIN v.turns THEN SeeTurn(v, t, [v.turns[t] EXCEPT !.errors = @ \/ err]) ELSE v

WithCall(turn, e) == [turn EXCEPT !.ops = @ + 1, !.errors = @ \/ e.err]
SeeCall(v, t, e) ==
    SeeOp(SeeTurn(v, t, WithCall(v.turns[t], e)),
          <<t, v.turns[t].ops>>, NewOp(e))

SeeClosed(v, wait, entry, e) ==
    IF entry.tool # "wait" \/ e.cell # None \/ entry.target = None THEN v
    ELSE [v EXCEPT !.ops = [k \in DOMAIN @ |-> IF @[k].running = entry.target /\ k # wait
                                               THEN Ended(@[k], e) ELSE @[k]]]

SeeAnswer(v, k, e) ==
    LET entry == SetResult(v.ops[k], e)
    IN  SeeMark(SeeOp(SeeClosed(v, k, entry, e), k, entry), k[1], Failed(entry))

SeeResult(v, t, e) ==
    LET m == IF e.err THEN SeeMark(v, t, TRUE) ELSE v
        found == CalledBefore(m.ops, e.id, e.at)
    IN  IF found = {} THEN m ELSE SeeAnswer(m, LatestOf(m, found), e)

SeeEvidence(v, k, e) ==
    LET new == WithEvidence(v.ops[k], e) IN SeeMark(SeeOp(v, k, new), k[1], Failed(new))

OwnersOf(v, e) ==
    LET exact == CalledBefore(v.ops, e.id, e.at)
    IN  IF exact # {} THEN exact
        ELSE {k \in ExecCandidates(v.ops, e.at, e.start) : v.ops[k].pair # e.id}

SeeRuntime(v, e) ==
    IF Cardinality(OwnersOf(v, e)) # 1 THEN v
    ELSE SeeEvidence(v, CHOOSE k \in OwnersOf(v, e) : TRUE, e)

SeeCreated(v, e, prompt) ==
    [v EXCEPT !.turns = PutAt(@, e.at, NewTurn(v.st, e, prompt)), !.st = Opened(@, e, prompt)]

UsageOfMessage(v, m) == IF m \in DOMAIN v.usage THEN v.usage[m] ELSE [turn |-> 0, tokens |-> 0]

SeeReply(v, t, e) ==
    LET prior == UsageOfMessage(v, e.id)
        owner == IF prior.turn \in DOMAIN v.turns THEN prior.turn ELSE t
        less  == IF prior.turn = owner THEN prior.tokens ELSE 0
    IN  [SeeTurn(v, owner, [v.turns[owner] EXCEPT !.tokens = @ - less + e.tok])
           EXCEPT !.usage = PutAt(@, e.id, [turn |-> owner, tokens |-> e.tok])]

SeeTotal(v, t, e) ==
    [SeeTurn(v, t, [v.turns[t] EXCEPT !.tokens = IF e.tok > v.turns[t].base
                                                 THEN e.tok - v.turns[t].base ELSE 0])
       EXCEPT !.st.total = e.tok]

SeeUsage(v, t, e) ==
    IF e.k = "total" THEN SeeTotal(v, t, e)
    ELSE IF e.k = "reply" THEN SeeReply(v, t, e) ELSE v

SeeCounted(v, t) ==
    [SeeTurn(v, t, [v.turns[t] EXCEPT !.events = @ + 1]) EXCEPT !.st.events = @ + 1]
SeeItem(v, t, e) == IF e.k = "result" THEN v ELSE [v EXCEPT !.items = @ \cup {<<t, e.at>>}]
SeePayload(v, t, e) ==
    IF e.k = "call" THEN SeeCall(v, t, e) ELSE IF e.k = "result" THEN SeeResult(v, t, e) ELSE v

SeeAppended(v, t, e) == SeeUsage(SeeItem(SeePayload(SeeCounted(v, t), t, e), t, e), t, e)

TurnNow(v, e) == IF e.side THEN v.st.side ELSE v.st.main
SeeLanded(v, e) ==
    IF e.k = "prompt" THEN SeeCreated(v, e, TRUE)
    ELSE IF TurnNow(v, e) # 0 THEN SeeAppended(v, TurnNow(v, e), e)
    ELSE IF Bookkeeping(e) THEN v
    ELSE SeeAppended(SeeCreated(v, e, FALSE), e.at, e)

Asked(v, u) == \E t \in DOMAIN v.turns : v.turns[t].prompt = u
Repeated(v, e) == e.k = "prompt" /\ e.id # None /\ Asked(v, e.id)
SeeThrough(v, e) == [v EXCEPT !.st.through = e.at]
SeeFound(v, e) == IF e.k = "evidence" THEN SeeRuntime(v, e) ELSE v

SeeApplied(v, e) ==
    LET a == SeeThrough(v, e)
    IN  IF e.k = "inherited" \/ Repeated(a, e) THEN a ELSE SeeLanded(SeeFound(a, e), e)

\* The link an event adds: that of a side chain it opens.
Opens(v, e) ==
    /\ e.k # "inherited" /\ ~Repeated(v, e)
    /\ e.k = "prompt" \/ (TurnNow(v, e) = 0 /\ ~Bookkeeping(e))
LinkOf(v, e) == IF Opens(v, e) /\ e.side /\ e.link # None THEN {<<e.link, e.at>>} ELSE {}

-----------------------------------------------------------------------------
(***************************************************************************)
(* The rows are well formed: turns by the offset of their first event,     *)
(* operations numbered in their turn, one for each call.  Up to the offset *)
(* n there are turns, and up to c calls.                                   *)
(***************************************************************************)
StateRow == [through : Nat, ord : Nat, main : Nat, side : Nat, total : Int, events : Nat, turns : Nat]
TurnFields == {"ord", "side", "prompt", "events", "ops", "errors", "tokens", "base"}
TurnRow(x) ==
    /\ x = [f \in TurnFields |-> x[f]]
    /\ x.events \in Nat /\ x.ops \in Nat /\ x.tokens \in Int /\ x.base \in Int
OpFields == {"pair", "tool", "target", "call", "changed", "callErr", "resErr", "pending", "running",
             "finished", "input", "payload"}
OpRow(x) ==
    /\ x = [f \in OpFields |-> x[f]]
    /\ x.pending \in BOOLEAN
    /\ ~x.pending => x.payload = x.input

TurnsFormed(st, turns, c, n) ==
    /\ \A t \in DOMAIN turns : t \in 1 .. n /\ TurnRow(turns[t]) /\ turns[t].ops \in 0 .. c
    /\ st.main = 0 \/ st.main \in DOMAIN turns
    /\ st.side = 0 \/ st.side \in DOMAIN turns

OpsFormed(turns, ops, c) ==
    /\ \A k \in DOMAIN ops :
         /\ k = <<k[1], k[2]>> /\ k[1] \in DOMAIN turns
         /\ k[2] \in 0 .. (turns[k[1]].ops - 1)
         /\ OpRow(ops[k]) /\ ops[k].call \in 1 .. c
    /\ \A j, k \in DOMAIN ops : ops[j].call = ops[k].call => j = k

ViewFields == {"st", "turns", "ops", "items", "usage"}
Formed(v, c, n) ==
    /\ v = [f \in ViewFields |-> v[f]] /\ v.st \in StateRow
    /\ TurnsFormed(v.st, v.turns, c, n) /\ OpsFormed(v.turns, v.ops, c)
    /\ c \in Nat /\ n \in Nat

Event(e) ==
    /\ e.at \in Nat \ {0} /\ {e.side, e.err} \subseteq BOOLEAN /\ e.tok \in Int

\* The rows of a batch of events one after the other, and the links they add.
CoreOf(d) == [st |-> d.st, turns |-> d.turns, ops |-> d.ops, items |-> d.items, usage |-> d.usage]
EventIn(lg, i) == PutAt(lg[i], "at", i)
ViewAt(lg) ==
    LET after[i \in 0 .. MaxLine] ==
          IF i = 0 THEN CoreOf(NoRows)
          ELSE IF i \in DOMAIN lg THEN SeeApplied(after[i - 1], EventIn(lg, i)) ELSE after[i - 1]
    IN  after

\* A turn's row is replaced by one with as many operations.
LEMMA TurnReplaced ==
    ASSUME NEW v, NEW c, NEW n, Formed(v, c, n), NEW t \in DOMAIN v.turns, NEW x,
           TurnRow(x), x.ops \in 0 .. c, x.ops >= v.turns[t].ops
    PROVE  /\ Formed(SeeTurn(v, t, x), c, n)
           /\ SeeTurn(v, t, x).st = v.st /\ SeeTurn(v, t, x).ops = v.ops
           /\ SeeTurn(v, t, x).turns = PutAt(v.turns, t, x)
           /\ SeeTurn(v, t, x).items = v.items /\ SeeTurn(v, t, x).usage = v.usage
<1> DEFINE w == SeeTurn(v, t, x)
<1>1. /\ w = [f \in ViewFields |-> w[f]] /\ w.st = v.st /\ w.ops = v.ops
      /\ w.turns = PutAt(v.turns, t, x) /\ w.items = v.items /\ w.usage = v.usage
  BY DEF Formed, SeeTurn, ViewFields
<1>2. /\ DOMAIN w.turns = DOMAIN v.turns /\ w.turns[t] = x
      /\ \A s \in DOMAIN v.turns : s # t => w.turns[s] = v.turns[s]
  BY <1>1 DEF PutAt
<1> HIDE DEF w
<1>3. TurnsFormed(w.st, w.turns, c, n)
  BY <1>1, <1>2 DEF Formed, TurnsFormed
<1>4. OpsFormed(w.turns, w.ops, c)
  <2> SUFFICES ASSUME NEW k \in DOMAIN v.ops PROVE k[1] \in DOMAIN w.turns /\ k[2] \in 0 .. (w.turns[k[1]].ops - 1)
    BY <1>1 DEF Formed, OpsFormed
  <2>1. k[1] \in DOMAIN v.turns /\ k[2] \in 0 .. (v.turns[k[1]].ops - 1)
    BY DEF Formed, OpsFormed
  <2>2. \A s \in DOMAIN v.turns : v.turns[s].ops \in Nat
    BY DEF Formed, TurnsFormed, TurnRow
  <2>3. w.turns[k[1]].ops \in Nat /\ w.turns[k[1]].ops >= v.turns[k[1]].ops
    BY <1>2, <2>1, <2>2 DEF TurnRow
  <2> QED
    BY <1>2, <2>1, <2>2, <2>3
<1> QED
  BY <1>1, <1>3, <1>4 DEF Formed, w

\* An operation's row is replaced by one of the same call.
LEMMA OpReplaced ==
    ASSUME NEW v, NEW c, NEW n, Formed(v, c, n), NEW k \in DOMAIN v.ops, NEW x,
           OpRow(x), x.call = v.ops[k].call
    PROVE  /\ Formed(SeeOp(v, k, x), c, n)
           /\ SeeOp(v, k, x).st = v.st /\ SeeOp(v, k, x).turns = v.turns
           /\ SeeOp(v, k, x).ops = PutAt(v.ops, k, x)
           /\ SeeOp(v, k, x).items = v.items /\ SeeOp(v, k, x).usage = v.usage
<1> DEFINE w == SeeOp(v, k, x)
<1>1. /\ w = [f \in ViewFields |-> w[f]] /\ w.st = v.st /\ w.turns = v.turns
      /\ w.ops = PutAt(v.ops, k, x) /\ w.items = v.items /\ w.usage = v.usage
  BY DEF Formed, SeeOp, ViewFields
<1>2. /\ DOMAIN w.ops = DOMAIN v.ops /\ w.ops[k] = x
      /\ \A j \in DOMAIN v.ops : j # k => w.ops[j] = v.ops[j]
  BY <1>1 DEF PutAt
<1> HIDE DEF w
<1>3. \A j \in DOMAIN v.ops : OpRow(w.ops[j]) /\ w.ops[j].call = v.ops[j].call
  BY <1>2 DEF Formed, OpsFormed
<1>4. OpsFormed(w.turns, w.ops, c)
  BY <1>1, <1>2, <1>3 DEF Formed, OpsFormed
<1> QED
  BY <1>1, <1>4 DEF Formed, w

\* An error marks a turn.
LEMMA MarkFormed ==
    ASSUME NEW v, NEW c, NEW n, Formed(v, c, n), NEW t, NEW err
    PROVE  /\ Formed(SeeMark(v, t, err), c, n)
           /\ SeeMark(v, t, err).st = v.st /\ SeeMark(v, t, err).ops = v.ops
           /\ DOMAIN SeeMark(v, t, err).turns = DOMAIN v.turns
           /\ SeeMark(v, t, err).items = v.items /\ SeeMark(v, t, err).usage = v.usage
           /\ \A s \in DOMAIN v.turns :
                /\ SeeMark(v, t, err).turns[s].ops = v.turns[s].ops
                /\ SeeMark(v, t, err).turns[s].events = v.turns[s].events
                /\ SeeMark(v, t, err).turns[s].tokens = v.turns[s].tokens
                /\ SeeMark(v, t, err).turns[s].prompt = v.turns[s].prompt
<1>1. CASE t \notin DOMAIN v.turns
  BY <1>1 DEF SeeMark
<1>2. CASE t \in DOMAIN v.turns
  <2> DEFINE x == [v.turns[t] EXCEPT !.errors = @ \/ err]
  <2>1. TurnRow(v.turns[t]) /\ v.turns[t].ops \in 0 .. c /\ c \in Nat
    BY <1>2 DEF Formed, TurnsFormed
  <2>2. /\ TurnRow(x) /\ x.ops = v.turns[t].ops /\ x.events = v.turns[t].events
        /\ x.tokens = v.turns[t].tokens /\ x.prompt = v.turns[t].prompt
    BY <2>1 DEF TurnRow, TurnFields
  <2>3. SeeMark(v, t, err) = SeeTurn(v, t, x)
    BY <1>2 DEF SeeMark
  <2> HIDE DEF x
  <2>4. x.ops \in 0 .. c /\ x.ops >= v.turns[t].ops
    BY <2>1, <2>2
  <2>5. /\ Formed(SeeTurn(v, t, x), c, n) /\ SeeTurn(v, t, x).turns = PutAt(v.turns, t, x)
        /\ SeeTurn(v, t, x).st = v.st /\ SeeTurn(v, t, x).ops = v.ops
        /\ SeeTurn(v, t, x).items = v.items /\ SeeTurn(v, t, x).usage = v.usage
    BY <1>2, <2>2, <2>4, TurnReplaced
  <2>6. /\ DOMAIN PutAt(v.turns, t, x) = DOMAIN v.turns /\ PutAt(v.turns, t, x)[t] = x
        /\ \A s \in DOMAIN v.turns : s # t => PutAt(v.turns, t, x)[s] = v.turns[s]
    BY <1>2 DEF PutAt
  <2> QED
    BY <2>2, <2>3, <2>5, <2>6
<1> QED
  BY <1>1, <1>2

\* A step leaves the session state, the usage and the counts of the turns alone.
TurnsKept(v, w) ==
    /\ w.st = v.st /\ w.usage = v.usage /\ DOMAIN w.turns = DOMAIN v.turns
    /\ \A s \in DOMAIN v.turns :
         /\ w.turns[s].ops = v.turns[s].ops /\ w.turns[s].events = v.turns[s].events
         /\ w.turns[s].tokens = v.turns[s].tokens /\ w.turns[s].prompt = v.turns[s].prompt

\* A step answers the operations of S and no other, and opens none.
OpsKept(v, w, S) ==
    /\ DOMAIN w.ops = DOMAIN v.ops
    /\ \A k \in DOMAIN v.ops :
         /\ w.ops[k].call = v.ops[k].call /\ w.ops[k].pair = v.ops[k].pair
         /\ w.ops[k].pending = (v.ops[k].pending /\ k \notin S)

\* Two such steps, the second of which answers nothing.
LEMMA KeptTwice ==
    ASSUME NEW u, NEW v, NEW w, NEW S, TurnsKept(u, v), TurnsKept(v, w), OpsKept(u, v, S), OpsKept(v, w, {})
    PROVE  TurnsKept(u, w) /\ OpsKept(u, w, S)
<1>1. TurnsKept(u, w)
  BY DEF TurnsKept
<1>2. DOMAIN w.ops = DOMAIN u.ops
  BY DEF OpsKept
<1>3. ASSUME NEW k \in DOMAIN u.ops
      PROVE  /\ w.ops[k].call = u.ops[k].call /\ w.ops[k].pair = u.ops[k].pair
             /\ w.ops[k].pending = (u.ops[k].pending /\ k \notin S)
  <2>1. k \in DOMAIN v.ops
    BY DEF OpsKept
  <2>2. w.ops[k].pending = (v.ops[k].pending /\ k \notin {}) /\ v.ops[k].pending = (u.ops[k].pending /\ k \notin S)
    BY <2>1 DEF OpsKept
  <2> QED
    BY <2>1, <2>2 DEF OpsKept
<1> QED
  BY <1>1, <1>2, <1>3 DEF OpsKept

\* The same with the marks of a turn.
LEMMA MarkStands ==
    ASSUME NEW v, NEW c, NEW n, Formed(v, c, n), NEW t, NEW err
    PROVE  TurnsKept(v, SeeMark(v, t, err)) /\ OpsKept(v, SeeMark(v, t, err), {})
<1>1. TurnsKept(v, SeeMark(v, t, err)) /\ SeeMark(v, t, err).ops = v.ops
  BY MarkFormed DEF TurnsKept
<1>2. \A k \in DOMAIN v.ops : v.ops[k].pending \in BOOLEAN
  BY DEF Formed, OpsFormed, OpRow
<1> QED
  BY <1>1, <1>2 DEF OpsKept

\* The latest of some calls is the only one none is later than.
LEMMA LatestIs ==
    ASSUME NEW v, NEW c, NEW n, Formed(v, c, n), NEW found \in SUBSET DOMAIN v.ops, found # {}
    PROVE  /\ LatestOf(v, found) \in found
           /\ \A j \in found : v.ops[j].call <= v.ops[LatestOf(v, found)].call
           /\ \A k \in found : (\A j \in found : v.ops[j].call <= v.ops[k].call) => k = LatestOf(v, found)
<1> DEFINE S == {v.ops[k].call : k \in found}
<1>1. \A k \in found : v.ops[k].call \in 1 .. c /\ c \in Nat
  BY DEF Formed, OpsFormed
<1>2. S \in SUBSET Nat /\ S # {} /\ \A x \in S : x <= c
  BY <1>1
<1>3. PICK x \in S : \A y \in S : y <= x
  <2> DEFINE T == {z \in Nat : \E y \in S : z = c - y}
  <2> HIDE DEF S
  <2>0. c \in Nat
    BY DEF Formed
  <2>1. T \in SUBSET Nat /\ T # {}
    <3>1. PICK y \in S : TRUE
      BY <1>2
    <3>2. c - y \in T
      BY <1>2, <2>0
    <3> QED
      BY <3>2
  <2>2. PICK z \in T : \A y \in T : z <= y
    <3> HIDE DEF T
    <3> QED
      BY <2>1, FirstOf
  <2>3. PICK x \in S : z = c - x
    BY <2>2
  <2>4. ASSUME NEW y \in S PROVE y <= x
    <3>1. c - y \in T
      BY <1>2, <2>0
    <3>2. z <= c - y
      BY <2>2, <3>1
    <3> QED
      BY <1>2, <2>0, <2>3, <3>2
  <2> QED
    BY <2>4
<1>4. PICK k \in found : x = v.ops[k].call
  OBVIOUS
<1>5. \A j \in found : v.ops[j].call <= v.ops[k].call
  BY <1>3, <1>4
<1>6. /\ LatestOf(v, found) \in found
      /\ \A j \in found : v.ops[j].call <= v.ops[LatestOf(v, found)].call
  BY <1>5 DEF LatestOf
<1> HIDE DEF S
<1>7. ASSUME NEW m \in found, NEW l \in found, \A j \in found : v.ops[j].call <= v.ops[m].call,
             \A j \in found : v.ops[j].call <= v.ops[l].call
      PROVE  m = l
  <2>1. v.ops[m].call = v.ops[l].call
    BY <1>1, <1>7
  <2> QED
    BY <2>1 DEF Formed, OpsFormed
<1> QED
  BY <1>6, <1>7

\* A completed wait ends other calls.
LEMMA ClosedFormed ==
    ASSUME NEW v, NEW c, NEW n, Formed(v, c, n), NEW wait, NEW entry, NEW e
    PROVE  /\ Formed(SeeClosed(v, wait, entry, e), c, n)
           /\ SeeClosed(v, wait, entry, e).st = v.st /\ SeeClosed(v, wait, entry, e).turns = v.turns
           /\ TurnsKept(v, SeeClosed(v, wait, entry, e)) /\ OpsKept(v, SeeClosed(v, wait, entry, e), {})
<1> DEFINE w == SeeClosed(v, wait, entry, e)
<1>0. \A k \in DOMAIN v.ops : v.ops[k].pending \in BOOLEAN /\ OpRow(v.ops[k])
  BY DEF Formed, OpsFormed, OpRow
<1>1. CASE w = v
  BY <1>0, <1>1 DEF TurnsKept, OpsKept
<1>2. CASE w # v
  <2> DEFINE Close(k) == IF v.ops[k].running = entry.target /\ k # wait THEN Ended(v.ops[k], e) ELSE v.ops[k]
  <2>1. w = [v EXCEPT !.ops = [k \in DOMAIN v.ops |-> Close(k)]]
    BY <1>2 DEF SeeClosed
  <2>2. /\ w = [f \in ViewFields |-> w[f]] /\ w.st = v.st /\ w.turns = v.turns
        /\ w.ops = [k \in DOMAIN v.ops |-> Close(k)] /\ w.items = v.items /\ w.usage = v.usage
    BY <2>1 DEF Formed, ViewFields
  <2>3. ASSUME NEW k \in DOMAIN v.ops
        PROVE  /\ OpRow(Close(k)) /\ Close(k).call = v.ops[k].call /\ Close(k).pair = v.ops[k].pair
               /\ Close(k).pending = v.ops[k].pending
    BY <1>0 DEF OpRow, OpFields, Ended
  <2> HIDE DEF w, Close
  <2>4. \A k \in DOMAIN v.ops : w.ops[k] = Close(k)
    BY <2>2
  <2>5. OpsFormed(w.turns, w.ops, c)
    <3>1. DOMAIN w.ops = DOMAIN v.ops
      BY <2>2
    <3>2. \A k \in DOMAIN v.ops : OpRow(w.ops[k]) /\ w.ops[k].call = v.ops[k].call
      BY <2>3, <2>4
    <3>3. w.turns = v.turns /\ OpsFormed(v.turns, v.ops, c)
      BY <2>2 DEF Formed
    <3> QED
      BY <3>1, <3>2, <3>3 DEF OpsFormed
  <2>6. Formed(w, c, n)
    BY <2>2, <2>5 DEF Formed
  <2>7. TurnsKept(v, w) /\ OpsKept(v, w, {})
    BY <1>0, <2>2, <2>3, <2>4 DEF TurnsKept, OpsKept
  <2> QED
    BY <2>2, <2>6, <2>7 DEF w
<1> QED
  BY <1>1, <1>2

\* A result is put on a call.
LEMMA AnswerFormed ==
    ASSUME NEW v, NEW c, NEW n, Formed(v, c, n), NEW k \in DOMAIN v.ops, NEW e
    PROVE  /\ Formed(SeeAnswer(v, k, e), c, n)
           /\ TurnsKept(v, SeeAnswer(v, k, e)) /\ OpsKept(v, SeeAnswer(v, k, e), {k})
<1> DEFINE entry == SetResult(v.ops[k], e)
           u == SeeClosed(v, k, entry, e)
           w == SeeOp(u, k, entry)
<1>1. OpRow(v.ops[k]) /\ \A j \in DOMAIN v.ops : v.ops[j].pending \in BOOLEAN
  BY DEF Formed, OpsFormed, OpRow
<1>2. /\ OpRow(entry) /\ entry.call = v.ops[k].call /\ entry.pair = v.ops[k].pair /\ entry.pending = FALSE
  BY <1>1 DEF OpRow, OpFields, SetResult
<1> HIDE DEF entry
<1>3. Formed(u, c, n) /\ TurnsKept(v, u) /\ OpsKept(v, u, {})
  BY ClosedFormed
<1> HIDE DEF u
<1>4. /\ k \in DOMAIN u.ops /\ entry.call = u.ops[k].call /\ DOMAIN u.ops = DOMAIN v.ops
      /\ \A j \in DOMAIN v.ops : /\ u.ops[j].call = v.ops[j].call /\ u.ops[j].pair = v.ops[j].pair
                                 /\ u.ops[j].pending = v.ops[j].pending
  BY <1>1, <1>2, <1>3 DEF OpsKept
<1>5. Formed(w, c, n) /\ w.st = u.st /\ w.turns = u.turns /\ w.ops = PutAt(u.ops, k, entry) /\ w.usage = u.usage
  BY <1>2, <1>3, <1>4, OpReplaced
<1>6. SeeAnswer(v, k, e) = SeeMark(w, k[1], Failed(entry))
  BY DEF SeeAnswer, entry, u
<1> HIDE DEF w
<1>7. TurnsKept(v, w)
  BY <1>3, <1>5 DEF TurnsKept
<1>8. OpsKept(v, w, {k})
  <2>1. /\ DOMAIN w.ops = DOMAIN v.ops /\ w.ops[k] = entry
        /\ \A j \in DOMAIN v.ops : j # k => w.ops[j] = u.ops[j]
    BY <1>4, <1>5 DEF PutAt
  <2> QED
    BY <1>1, <1>2, <1>4, <2>1 DEF OpsKept
<1>9. /\ Formed(SeeMark(w, k[1], Failed(entry)), c, n) /\ TurnsKept(w, SeeMark(w, k[1], Failed(entry)))
      /\ OpsKept(w, SeeMark(w, k[1], Failed(entry)), {})
  BY <1>5, MarkFormed, MarkStands
<1> DEFINE z == SeeMark(w, k[1], Failed(entry))
<1> HIDE DEF z
<1>10. Formed(z, c, n) /\ TurnsKept(w, z) /\ OpsKept(w, z, {})
  BY <1>9 DEF z
<1>11. TurnsKept(v, z) /\ OpsKept(v, z, {k})
  BY <1>7, <1>8, <1>10, KeptTwice
<1> QED
  BY <1>6, <1>10, <1>11 DEF z

\* The call a result belongs to: the latest of its pair.
AnsweredBy(v, e) ==
    {k \in CalledBefore(v.ops, e.id, e.at) :
        \A j \in CalledBefore(v.ops, e.id, e.at) : v.ops[j].call <= v.ops[k].call}

\* A result is applied.
LEMMA ResultFormed ==
    ASSUME NEW v, NEW c, NEW n, Formed(v, c, n), NEW t, NEW e
    PROVE  /\ Formed(SeeResult(v, t, e), c, n)
           /\ TurnsKept(v, SeeResult(v, t, e)) /\ OpsKept(v, SeeResult(v, t, e), AnsweredBy(v, e))
<1> DEFINE m == IF e.err THEN SeeMark(v, t, TRUE) ELSE v
           found == CalledBefore(v.ops, e.id, e.at)
<1>0. \A j \in DOMAIN v.ops : v.ops[j].pending \in BOOLEAN
  BY DEF Formed, OpsFormed, OpRow
<1>1. Formed(m, c, n) /\ TurnsKept(v, m) /\ m.ops = v.ops
  <2>1. CASE e.err
    <3>1. m = SeeMark(v, t, TRUE)
      BY <2>1
    <3>2. ASSUME NEW err PROVE /\ Formed(SeeMark(v, t, err), c, n) /\ TurnsKept(v, SeeMark(v, t, err))
                               /\ SeeMark(v, t, err).ops = v.ops
      BY MarkFormed, MarkStands
    <3> HIDE DEF m
    <3>3. /\ Formed(SeeMark(v, t, TRUE), c, n) /\ TurnsKept(v, SeeMark(v, t, TRUE))
          /\ SeeMark(v, t, TRUE).ops = v.ops
      BY <3>2, Zenon
    <3> QED
      BY <3>1, <3>3
  <2>2. CASE ~e.err
    BY <2>2 DEF TurnsKept
  <2> QED
    BY <2>1, <2>2
<1>2. SeeResult(v, t, e) = IF found = {} THEN m ELSE SeeAnswer(m, LatestOf(m, found), e)
  BY <1>1 DEF SeeResult
<1> HIDE DEF m
<1>3. found \in SUBSET DOMAIN v.ops
  BY DEF CalledBefore
<1> HIDE DEF found
<1>4. CASE found = {}
  <2>1. AnsweredBy(v, e) = {}
    BY <1>4 DEF AnsweredBy, found
  <2> QED
    BY <1>0, <1>1, <1>2, <1>4, <2>1 DEF OpsKept
<1>5. CASE found # {}
  <2> DEFINE k == LatestOf(m, found)
  <2>1. /\ k \in found /\ \A j \in found : m.ops[j].call <= m.ops[k].call
        /\ \A l \in found : (\A j \in found : m.ops[j].call <= m.ops[l].call) => l = k
    BY <1>1, <1>3, <1>5, LatestIs
  <2> HIDE DEF k
  <2>2. AnsweredBy(v, e) = {k}
    BY <1>1, <2>1 DEF AnsweredBy, found
  <2>3. k \in DOMAIN m.ops
    BY <1>1, <1>3, <2>1
  <2>4. Formed(SeeAnswer(m, k, e), c, n) /\ TurnsKept(m, SeeAnswer(m, k, e)) /\ OpsKept(m, SeeAnswer(m, k, e), {k})
    BY <1>1, <2>3, AnswerFormed
  <2>5. SeeResult(v, t, e) = SeeAnswer(m, k, e)
    BY <1>2, <1>5 DEF k
  <2> DEFINE z == SeeAnswer(m, k, e)
  <2> HIDE DEF z
  <2>6. TurnsKept(v, z)
    BY <1>1, <2>4 DEF TurnsKept, z
  <2>7. OpsKept(v, z, {k})
    BY <1>1, <2>4 DEF OpsKept, z
  <2> QED
    BY <2>2, <2>4, <2>5, <2>6, <2>7 DEF z
<1> QED
  BY <1>4, <1>5

\* Evidence is put on a call.
LEMMA EvidenceFormed ==
    ASSUME NEW v, NEW c, NEW n, Formed(v, c, n), NEW k \in DOMAIN v.ops, NEW e
    PROVE  /\ Formed(SeeEvidence(v, k, e), c, n)
           /\ TurnsKept(v, SeeEvidence(v, k, e)) /\ OpsKept(v, SeeEvidence(v, k, e), {})
<1> DEFINE entry == WithEvidence(v.ops[k], e)
           w == SeeOp(v, k, entry)
<1>1. OpRow(v.ops[k]) /\ \A j \in DOMAIN v.ops : v.ops[j].pending \in BOOLEAN
  BY DEF Formed, OpsFormed, OpRow
<1>2. /\ OpRow(entry) /\ entry.call = v.ops[k].call /\ entry.pair = v.ops[k].pair
      /\ entry.pending = v.ops[k].pending
  <2>1. /\ entry = [f \in OpFields |-> entry[f]] /\ entry.call = v.ops[k].call
        /\ entry.pair = v.ops[k].pair /\ entry.pending = v.ops[k].pending
        /\ entry.input = Append(v.ops[k].input, e.at)
        /\ ~v.ops[k].pending => entry.payload = Append(v.ops[k].payload, e.at)
    BY <1>1 DEF OpRow, OpFields, WithEvidence
  <2> HIDE DEF entry
  <2> QED
    BY <1>1, <2>1 DEF OpRow
<1> HIDE DEF entry
<1>5. Formed(w, c, n) /\ w.st = v.st /\ w.turns = v.turns /\ w.ops = PutAt(v.ops, k, entry) /\ w.usage = v.usage
  BY <1>2, OpReplaced
<1>6. SeeEvidence(v, k, e) = SeeMark(w, k[1], Failed(entry))
  BY DEF SeeEvidence, entry
<1> HIDE DEF w
<1>7. TurnsKept(v, w)
  BY <1>5 DEF TurnsKept
<1>8. OpsKept(v, w, {})
  <2>1. /\ DOMAIN w.ops = DOMAIN v.ops /\ w.ops[k] = entry
        /\ \A j \in DOMAIN v.ops : j # k => w.ops[j] = v.ops[j]
    BY <1>5 DEF PutAt
  <2> QED
    BY <1>1, <1>2, <2>1 DEF OpsKept
<1> DEFINE z == SeeMark(w, k[1], Failed(entry))
<1>10. Formed(z, c, n) /\ TurnsKept(w, z) /\ OpsKept(w, z, {})
  BY <1>5, MarkFormed, MarkStands
<1> HIDE DEF z
<1>11. TurnsKept(v, z) /\ OpsKept(v, z, {})
  BY <1>7, <1>8, <1>10, KeptTwice
<1> QED
  BY <1>6, <1>10, <1>11 DEF z

\* Evidence looks for its call.
LEMMA RuntimeFormed ==
    ASSUME NEW v, NEW c, NEW n, Formed(v, c, n), NEW e
    PROVE  /\ Formed(SeeRuntime(v, e), c, n)
           /\ TurnsKept(v, SeeRuntime(v, e)) /\ OpsKept(v, SeeRuntime(v, e), {})
<1>0. \A j \in DOMAIN v.ops : v.ops[j].pending \in BOOLEAN
  BY DEF Formed, OpsFormed, OpRow
<1>1. CASE Cardinality(OwnersOf(v, e)) # 1
  BY <1>0, <1>1 DEF SeeRuntime, TurnsKept, OpsKept
<1>2. CASE Cardinality(OwnersOf(v, e)) = 1
  <2> DEFINE k == CHOOSE x \in OwnersOf(v, e) : TRUE
  <2>1. OwnersOf(v, e) \subseteq DOMAIN v.ops /\ OwnersOf(v, e) # {}
    <3>1. OwnersOf(v, e) # {}
      BY <1>2, FS_EmptySet
    <3> QED
      BY <3>1 DEF OwnersOf, CalledBefore, ExecCandidates
  <2>2. k \in DOMAIN v.ops
    BY <2>1
  <2>3. SeeRuntime(v, e) = SeeEvidence(v, k, e)
    BY <1>2 DEF SeeRuntime
  <2> HIDE DEF k
  <2> QED
    BY <2>2, <2>3, EvidenceFormed
<1> QED
  BY <1>1, <1>2

\* The bounds of well-formed rows may be raised.
LEMMA FormedHigher ==
    ASSUME NEW v, NEW c, NEW n, Formed(v, c, n), NEW b \in Nat, NEW m \in Nat, c <= b, n <= m
    PROVE  Formed(v, b, m)
<1>1. \A i \in 1 .. n : i \in 1 .. m
  BY DEF Formed
<1>2. \A i \in 1 .. c : i \in 1 .. b
  BY DEF Formed
<1>3. \A i \in 0 .. c : i \in 0 .. b
  BY DEF Formed
<1>4. TurnsFormed(v.st, v.turns, b, m)
  BY <1>1, <1>3 DEF Formed, TurnsFormed
<1>5. OpsFormed(v.turns, v.ops, b)
  BY <1>2 DEF Formed, OpsFormed
<1> QED
  BY <1>4, <1>5 DEF Formed

\* Events in reach of the rows: later than anything there is.
Later(v, e) == Event(e) /\ Formed(v, e.at - 1, e.at - 1)

\* A turn is opened at the offset of its event, where there is none.
LEMMA CreatedFormed ==
    ASSUME NEW v, NEW e, Later(v, e), NEW prompt \in BOOLEAN
    PROVE  LET w == SeeCreated(v, e, prompt)
           IN  /\ Formed(w, e.at - 1, e.at) /\ e.at \notin DOMAIN v.turns
               /\ w.ops = v.ops /\ w.usage = v.usage /\ w.items = v.items /\ w.st = Opened(v.st, e, prompt)
               /\ w.turns = PutAt(v.turns, e.at, NewTurn(v.st, e, prompt))
               /\ w.st.events = v.st.events + (IF prompt THEN 1 ELSE 0) /\ w.st.turns = v.st.turns + 1
               /\ w.st.through = v.st.through
<1> DEFINE w == SeeCreated(v, e, prompt)
           new == NewTurn(v.st, e, prompt)
<1>0. /\ e.at \in Nat /\ e.at - 1 \in Nat /\ e.side \in BOOLEAN /\ v.st \in StateRow
      /\ Formed(v, e.at - 1, e.at - 1) /\ v = [f \in ViewFields |-> v[f]]
  BY DEF Later, Event, Formed
<1>1. /\ w = [f \in ViewFields |-> w[f]] /\ w.st = Opened(v.st, e, prompt) /\ w.ops = v.ops
      /\ w.turns = PutAt(v.turns, e.at, new) /\ w.items = v.items /\ w.usage = v.usage
  BY <1>0 DEF SeeCreated, ViewFields
<1>2. TurnRow(new) /\ new.ops = 0 /\ 0 \in 0 .. (e.at - 1)
  BY <1>0 DEF NewTurn, TurnRow, TurnFields, StateRow
<1>3. e.at \notin DOMAIN v.turns
  <2>1. \A t \in DOMAIN v.turns : t \in 1 .. (e.at - 1)
    BY <1>0 DEF Formed, TurnsFormed
  <2>2. e.at \in Nat /\ e.at \notin 1 .. (e.at - 1)
    BY DEF Later, Event
  <2> QED
    BY <2>1, <2>2
<1> DEFINE more == IF prompt THEN 1 ELSE 0
<1>4. /\ Opened(v.st, e, prompt) \in StateRow
      /\ Opened(v.st, e, prompt).main \in {e.at, v.st.main} /\ Opened(v.st, e, prompt).side \in {e.at, v.st.side}
      /\ Opened(v.st, e, prompt).events = v.st.events + more
      /\ Opened(v.st, e, prompt).turns = v.st.turns + 1
      /\ Opened(v.st, e, prompt).through = v.st.through
  <2> DEFINE st == v.st
             o == Opened(v.st, e, prompt)
  <2>1. /\ st = [f \in {"through", "ord", "main", "side", "total", "events", "turns"} |-> st[f]]
        /\ st.through \in Nat /\ st.ord \in Nat /\ st.main \in Nat /\ st.side \in Nat /\ st.total \in Int
        /\ st.events \in Nat /\ st.turns \in Nat
    BY <1>0 DEF StateRow
  <2>2. /\ o = [f \in {"through", "ord", "main", "side", "total", "events", "turns"} |-> o[f]]
        /\ o.through = st.through /\ o.total = st.total /\ o.ord = st.ord + 1 /\ o.turns = st.turns + 1
        /\ o.events = st.events + more /\ o.main = (IF e.side THEN st.main ELSE e.at)
        /\ o.side = (IF e.side THEN e.at ELSE st.side)
    BY <2>1 DEF Opened
  <2>3. more \in Nat
    OBVIOUS
  <2> HIDE DEF o, st, more
  <2>4. o.main \in {e.at, st.main} /\ o.side \in {e.at, st.side}
    BY <2>2
  <2>5. o \in StateRow
    BY <1>0, <2>1, <2>2, <2>3, <2>4 DEF StateRow
  <2> QED
    BY <2>2, <2>4, <2>5 DEF o, st
<1> HIDE DEF w, new
<1>5. /\ DOMAIN w.turns = DOMAIN v.turns \cup {e.at} /\ w.turns[e.at] = new
      /\ \A t \in DOMAIN v.turns : w.turns[t] = v.turns[t]
  BY <1>1, <1>3 DEF PutAt
<1>6. TurnsFormed(w.st, w.turns, e.at - 1, e.at)
  <2>1. Formed(v, e.at - 1, e.at)
    BY <1>0, FormedHigher
  <2>2. TurnsFormed(v.st, v.turns, e.at - 1, e.at)
    BY <2>1 DEF Formed
  <2>3. \A t \in DOMAIN w.turns : t \in 1 .. e.at /\ TurnRow(w.turns[t]) /\ w.turns[t].ops \in 0 .. (e.at - 1)
    <3>1. e.at \in 1 .. e.at
      BY <1>0 DEF Later, Event
    <3> QED
      BY <1>2, <1>5, <2>2, <3>1 DEF TurnsFormed
  <2>4. (w.st.main = 0 \/ w.st.main \in DOMAIN w.turns) /\ (w.st.side = 0 \/ w.st.side \in DOMAIN w.turns)
    BY <1>1, <1>4, <1>5, <2>2 DEF TurnsFormed
  <2> QED
    BY <2>3, <2>4 DEF TurnsFormed
<1>7. OpsFormed(w.turns, w.ops, e.at - 1)
  <2>1. OpsFormed(v.turns, v.ops, e.at - 1)
    BY <1>0 DEF Formed
  <2> QED
    BY <1>1, <1>5, <2>1 DEF OpsFormed
<1>8. Formed(w, e.at - 1, e.at)
  BY <1>0, <1>1, <1>4, <1>6, <1>7 DEF Formed
<1> QED
  BY <1>1, <1>3, <1>4, <1>8 DEF w, new

\* A row stays one when its counts change.
LEMMA TurnWith ==
    ASSUME NEW x, TurnRow(x)
    PROVE  /\ \A i \in Nat : TurnRow([x EXCEPT !.events = i])
           /\ \A i \in Int : TurnRow([x EXCEPT !.tokens = i])
BY DEF TurnRow, TurnFields

\* A call is a new operation of its turn.
LEMMA CallFormed ==
    ASSUME NEW v, NEW e, Event(e), NEW n, Formed(v, e.at - 1, n), NEW t \in DOMAIN v.turns
    PROVE  LET w == SeeCall(v, t, e)
               k == <<t, v.turns[t].ops>>
           IN  /\ Formed(w, e.at, n) /\ k \notin DOMAIN v.ops /\ TurnRow(v.turns[t])
               /\ w.st = v.st /\ w.usage = v.usage /\ w.ops = PutAt(v.ops, k, NewOp(e))
               /\ w.turns = PutAt(v.turns, t, WithCall(v.turns[t], e))
<1> DEFINE w == SeeCall(v, t, e)
           k == <<t, v.turns[t].ops>>
           x == WithCall(v.turns[t], e)
           u == SeeTurn(v, t, x)
<1>0. /\ e.at \in Nat /\ e.at - 1 \in Nat /\ TurnRow(v.turns[t]) /\ v.turns[t].ops \in 0 .. (e.at - 1)
      /\ OpsFormed(v.turns, v.ops, e.at - 1) /\ n \in Nat
  BY DEF Event, Formed, TurnsFormed
<1>1. TurnRow(x) /\ x.ops = v.turns[t].ops + 1
  <2>1. PICK err : err = (v.turns[t].errors \/ e.err)
    OBVIOUS
  <2>2. PICK i \in Nat : i = v.turns[t].ops + 1
    <3>1. v.turns[t].ops \in Nat
      BY <1>0 DEF TurnRow
    <3>2. v.turns[t].ops + 1 \in Nat
      BY <3>1
    <3> QED
      BY <3>2
  <2>3. x = [v.turns[t] EXCEPT !.ops = i, !.errors = err]
    BY <2>1, <2>2 DEF WithCall
  <2> HIDE DEF x
  <2> QED
    BY <1>0, <2>2, <2>3 DEF TurnRow, TurnFields
<1>2. Formed(v, e.at, n)
  BY <1>0, FormedHigher
<1>3. w = SeeOp(u, k, NewOp(e))
  BY DEF SeeCall
<1> HIDE DEF x
<1>4. x.ops \in 0 .. e.at /\ x.ops >= v.turns[t].ops
  BY <1>0, <1>1
<1>5. Formed(u, e.at, n) /\ u.st = v.st /\ u.ops = v.ops /\ u.turns = PutAt(v.turns, t, x) /\ u.usage = v.usage
  BY <1>1, <1>2, <1>4, TurnReplaced
<1> HIDE DEF u
<1>6. k \notin DOMAIN v.ops
  <2> SUFFICES ASSUME k \in DOMAIN v.ops PROVE FALSE
    OBVIOUS
  <2>1. k[1] = t /\ k[2] = v.turns[t].ops
    OBVIOUS
  <2>2. k[2] \in 0 .. (v.turns[k[1]].ops - 1)
    BY <1>0 DEF OpsFormed
  <2> HIDE DEF k
  <2> QED
    BY <1>0, <2>1, <2>2
<1>7. /\ w = [f \in ViewFields |-> w[f]] /\ w.st = u.st /\ w.turns = u.turns /\ w.usage = u.usage
      /\ w.ops = PutAt(u.ops, k, NewOp(e))
  BY <1>3, <1>5 DEF Formed, SeeOp, ViewFields
<1> HIDE DEF w
<1>8. /\ DOMAIN w.ops = DOMAIN v.ops \cup {k} /\ w.ops[k] = NewOp(e)
      /\ \A j \in DOMAIN v.ops : w.ops[j] = v.ops[j]
  BY <1>5, <1>6, <1>7 DEF PutAt
<1>9. OpsFormed(w.turns, w.ops, e.at)
  <2>1. OpsFormed(u.turns, v.ops, e.at)
    BY <1>5 DEF Formed
  <2>2. OpRow(NewOp(e)) /\ NewOp(e).call = e.at
    BY DEF OpRow, OpFields, NewOp
  <2>3. k = <<k[1], k[2]>> /\ k[1] = t /\ k[2] = v.turns[t].ops
    OBVIOUS
  <2>4. t \in DOMAIN w.turns /\ w.turns[t] = x
    BY <1>5, <1>7 DEF PutAt
  <2>5. v.turns[t].ops \in 0 .. (x.ops - 1)
    BY <1>0, <1>1
  <2>6. e.at \in 1 .. e.at /\ \A j \in DOMAIN v.ops : v.ops[j].call # e.at
    <3>1. \A j \in DOMAIN v.ops : v.ops[j].call \in 1 .. (e.at - 1)
      BY <1>0 DEF OpsFormed
    <3> QED
      BY <1>0, <3>1 DEF Event
  <2> HIDE DEF k
  <2>7. ASSUME NEW j \in DOMAIN w.ops
        PROVE  /\ j = <<j[1], j[2]>> /\ j[1] \in DOMAIN w.turns
               /\ j[2] \in 0 .. (w.turns[j[1]].ops - 1)
               /\ OpRow(w.ops[j]) /\ w.ops[j].call \in 1 .. e.at
    <3>1. CASE j = k
      BY <1>8, <2>2, <2>3, <2>4, <2>5, <2>6, <3>1
    <3>2. CASE j # k
      BY <1>7, <1>8, <2>1, <3>2 DEF OpsFormed
    <3> QED
      BY <3>1, <3>2
  <2>8. \A i, j \in DOMAIN w.ops : w.ops[i].call = w.ops[j].call => i = j
    BY <1>8, <2>1, <2>2, <2>6 DEF OpsFormed
  <2> QED
    BY <2>7, <2>8 DEF OpsFormed
<1>10. Formed(w, e.at, n)
  BY <1>5, <1>7, <1>9 DEF Formed
<1> QED
  BY <1>0, <1>5, <1>6, <1>7, <1>10 DEF w, x
-----------------------------------------------------------------------------
(***************************************************************************)
(* The counts of the turns, and their sums.                                *)
(***************************************************************************)
EventsOf(turns) == [t \in DOMAIN turns |-> turns[t].events]
TokensOf(turns) == [t \in DOMAIN turns |-> turns[t].tokens]
Tokens(v) == SumOf(TokensOf(v.turns))

\* The session counts what its turns count.
Balanced(v) == /\ SumOf(EventsOf(v.turns)) = v.st.events
               /\ Cardinality(DOMAIN v.turns) = v.st.turns

\* A table of integers with finitely many entries.
Numbers(f) == f = [x \in DOMAIN f |-> f[x]] /\ IsFiniteSet(DOMAIN f) /\ \A x \in DOMAIN f : f[x] \in Int

\* An entry more.
LEMMA SumPutNew ==
    ASSUME NEW f, Numbers(f), NEW k, k \notin DOMAIN f, NEW x \in Int
    PROVE  SumOf(PutAt(f, k, x)) = SumOf(f) + x /\ SumOf(f) \in Int
<1> DEFINE g == PutAt(f, k, x)
           S == DOMAIN f
<1>1. DOMAIN g = S \cup {k} /\ g[k] = x /\ \A y \in S : g[y] = f[y]
  BY DEF PutAt
<1>2. IsFiniteSet(S) /\ \A y \in S : f[y] \in Int
  BY DEF Numbers
<1> HIDE DEF g, S
<1>3. k \notin S
  BY DEF S
<1>4. \A y \in S \cup {k} : g[y] \in Int
  BY <1>1, <1>2
<1>5. SumOver(g, S \cup {k}) = SumOver(g, S) + g[k]
  BY <1>2, <1>3, <1>4, SumAdd
<1>6. SumOver(g, S) = SumOver(f, S)
  BY <1>1, <1>2, SumSame
<1>7. SumOver(f, S) \in Int
  BY <1>2, SumType
<1>8. SumOf(g) = SumOver(g, S \cup {k}) /\ SumOf(f) = SumOver(f, S)
  <2>1. SumOf(f) = SumOver(f, S)
    BY DEF SumOf, SumOver, S
  <2>2. SumOf(g) = SumOver(g, DOMAIN g)
    BY DEF SumOf, SumOver
  <2> QED
    BY <1>1, <2>1, <2>2
<1> QED
  BY <1>1, <1>5, <1>6, <1>7, <1>8 DEF g

\* Another entry.
LEMMA SumPutOld ==
    ASSUME NEW f, Numbers(f), NEW k \in DOMAIN f, NEW x \in Int
    PROVE  SumOf(PutAt(f, k, x)) = SumOf(f) - f[k] + x /\ SumOf(f) \in Int /\ f[k] \in Int
<1> DEFINE g == PutAt(f, k, x)
           S == DOMAIN f
<1>1. DOMAIN g = S /\ g[k] = x /\ \A y \in S : y # k => g[y] = f[y]
  BY DEF PutAt
<1>2. IsFiniteSet(S) /\ (\A y \in S : f[y] \in Int) /\ k \in S
  BY DEF Numbers
<1> HIDE DEF g, S
<1>4. \A y \in S : f[y] \in Int /\ g[y] \in Int /\ (y # k => g[y] = f[y])
  BY <1>1, <1>2
<1>5. SumOver(g, S) = SumOver(f, S) - f[k] + g[k]
  BY <1>2, <1>4, SumChange
<1>7. SumOver(f, S) \in Int
  BY <1>2, SumType
<1>8. SumOf(g) = SumOver(g, S) /\ SumOf(f) = SumOver(f, S)
  <2>1. SumOf(f) = SumOver(f, S)
    BY DEF SumOf, SumOver, S
  <2>2. SumOf(g) = SumOver(g, DOMAIN g)
    BY DEF SumOf, SumOver
  <2> QED
    BY <1>1, <2>1, <2>2
<1> QED
  BY <1>1, <1>2, <1>5, <1>7, <1>8 DEF g

\* The counts of well-formed rows are numbers.
LEMMA CountsAre ==
    ASSUME NEW v, NEW c, NEW n, Formed(v, c, n)
    PROVE  Numbers(EventsOf(v.turns)) /\ Numbers(TokensOf(v.turns)) /\ IsFiniteSet(DOMAIN v.turns)
<1>1. /\ \A t \in DOMAIN v.turns : t \in 1 .. n /\ v.turns[t].events \in Nat /\ v.turns[t].tokens \in Int
      /\ n \in Nat
  BY DEF Formed, TurnsFormed, TurnRow
<1>2. IsFiniteSet(DOMAIN v.turns)
  <2>1. IsFiniteSet(1 .. n)
    BY <1>1, FS_Interval
  <2>2. DOMAIN v.turns \in SUBSET (1 .. n)
    BY <1>1
  <2> QED
    BY <2>1, <2>2, FS_Subset
<1> QED
  BY <1>1, <1>2 DEF Numbers, EventsOf, TokensOf

\* A row put in puts its counts in.
LEMMA CountsPut ==
    ASSUME NEW turns, NEW t, NEW x
    PROVE  /\ EventsOf(PutAt(turns, t, x)) = PutAt(EventsOf(turns), t, x.events)
           /\ TokensOf(PutAt(turns, t, x)) = PutAt(TokensOf(turns), t, x.tokens)
BY DEF EventsOf, TokensOf, PutAt

\* One that counts the same changes no count.
LEMMA SameEvents ==
    ASSUME NEW turns, NEW t \in DOMAIN turns, NEW x, x.events = turns[t].events
    PROVE  EventsOf(PutAt(turns, t, x)) = EventsOf(turns) /\ DOMAIN PutAt(turns, t, x) = DOMAIN turns
<1>1. DOMAIN PutAt(turns, t, x) = DOMAIN turns
  BY DEF PutAt
<1>2. \A s \in DOMAIN turns : PutAt(turns, t, x)[s].events = turns[s].events
  BY DEF PutAt
<1> QED
  BY <1>1, <1>2 DEF EventsOf

\* Turns that count the same have the same sums.
LEMMA KeptCounts ==
    ASSUME NEW v, NEW w, TurnsKept(v, w)
    PROVE  /\ EventsOf(w.turns) = EventsOf(v.turns) /\ TokensOf(w.turns) = TokensOf(v.turns)
           /\ (Balanced(v) => Balanced(w)) /\ Tokens(w) = Tokens(v)
<1>1. EventsOf(w.turns) = EventsOf(v.turns) /\ TokensOf(w.turns) = TokensOf(v.turns)
  BY DEF EventsOf, TokensOf, TurnsKept
<1> QED
  BY <1>1 DEF Balanced, Tokens, TurnsKept

\* A new turn has no tokens yet and at most its prompt.
LEMMA CreatedCounts ==
    ASSUME NEW v, NEW e, Later(v, e), NEW prompt \in BOOLEAN
    PROVE  /\ Balanced(v) => Balanced(SeeCreated(v, e, prompt))
           /\ Tokens(SeeCreated(v, e, prompt)) = Tokens(v)
<1> DEFINE w == SeeCreated(v, e, prompt)
           new == NewTurn(v.st, e, prompt)
           more == IF prompt THEN 1 ELSE 0
<1>1. /\ e.at \notin DOMAIN v.turns /\ w.turns = PutAt(v.turns, e.at, new)
      /\ w.st.events = v.st.events + more /\ w.st.turns = v.st.turns + 1
  BY CreatedFormed
<1>2. new.events = more /\ new.tokens = 0 /\ more \in Int
  BY DEF NewTurn
<1> HIDE DEF w, new, more
<1>3. Numbers(EventsOf(v.turns)) /\ Numbers(TokensOf(v.turns)) /\ IsFiniteSet(DOMAIN v.turns)
  BY CountsAre DEF Later
<1>4. e.at \notin DOMAIN EventsOf(v.turns) /\ e.at \notin DOMAIN TokensOf(v.turns)
  BY <1>1 DEF EventsOf, TokensOf
<1>5. EventsOf(w.turns) = PutAt(EventsOf(v.turns), e.at, more) /\ TokensOf(w.turns) = PutAt(TokensOf(v.turns), e.at, 0)
  <2>1. /\ EventsOf(PutAt(v.turns, e.at, new)) = PutAt(EventsOf(v.turns), e.at, new.events)
        /\ TokensOf(PutAt(v.turns, e.at, new)) = PutAt(TokensOf(v.turns), e.at, new.tokens)
    BY CountsPut
  <2> QED
    BY <1>1, <1>2, <2>1
<1>6. SumOf(EventsOf(w.turns)) = SumOf(EventsOf(v.turns)) + more
  BY <1>2, <1>3, <1>4, <1>5, SumPutNew
<1>7. SumOf(TokensOf(w.turns)) = SumOf(TokensOf(v.turns)) + 0 /\ SumOf(TokensOf(v.turns)) \in Int
  <2>1. 0 \in Int
    OBVIOUS
  <2> QED
    BY <1>3, <1>4, <1>5, <2>1, SumPutNew
<1>8. Cardinality(DOMAIN w.turns) = Cardinality(DOMAIN v.turns) + 1
  <2>1. DOMAIN w.turns = DOMAIN v.turns \cup {e.at}
    BY <1>1 DEF PutAt
  <2> QED
    BY <1>1, <1>3, <2>1, FS_AddElement
<1> QED
  BY <1>1, <1>6, <1>7, <1>8 DEF Balanced, Tokens, w

\* An event is counted on its turn and on the session.
LEMMA CountedFormed ==
    ASSUME NEW v, NEW c, NEW n, Formed(v, c, n), NEW t \in DOMAIN v.turns
    PROVE  LET w == SeeCounted(v, t)
           IN  /\ Formed(w, c, n) /\ w.ops = v.ops /\ w.usage = v.usage /\ DOMAIN w.turns = DOMAIN v.turns
               /\ (Balanced(v) => Balanced(w)) /\ Tokens(w) = Tokens(v)
               /\ w.st.through = v.st.through
<1> DEFINE x == [v.turns[t] EXCEPT !.events = @ + 1]
           u == SeeTurn(v, t, x)
           w == SeeCounted(v, t)
<1>0. TurnRow(v.turns[t]) /\ v.turns[t].ops \in 0 .. c /\ c \in Nat /\ v.st \in StateRow
  BY DEF Formed, TurnsFormed
<1>1. /\ TurnRow(x) /\ x.ops = v.turns[t].ops /\ x.events = v.turns[t].events + 1
      /\ x.tokens = v.turns[t].tokens
  BY <1>0 DEF TurnRow, TurnFields
<1>2. x.ops \in 0 .. c /\ x.ops >= v.turns[t].ops
  <2> HIDE DEF x
  <2> QED
    BY <1>0, <1>1
<1>3. w = [u EXCEPT !.st.events = @ + 1]
  BY DEF SeeCounted
<1> HIDE DEF x
<1>4. Formed(u, c, n) /\ u.st = v.st /\ u.ops = v.ops /\ u.turns = PutAt(v.turns, t, x) /\ u.usage = v.usage
  BY <1>1, <1>2, TurnReplaced
<1> HIDE DEF u
<1>5. /\ w = [f \in ViewFields |-> w[f]] /\ w.ops = u.ops /\ w.turns = u.turns /\ w.usage = u.usage
      /\ w.st = [u.st EXCEPT !.events = @ + 1]
  BY <1>3, <1>4 DEF Formed, ViewFields
<1>6. /\ w.st \in StateRow /\ w.st.events = v.st.events + 1 /\ w.st.turns = v.st.turns
      /\ w.st.main = u.st.main /\ w.st.side = u.st.side /\ w.st.through = v.st.through
  BY <1>0, <1>4, <1>5 DEF StateRow
<1> HIDE DEF w
<1>7. Formed(w, c, n)
  <2>1. TurnsFormed(w.st, w.turns, c, n)
    BY <1>4, <1>5, <1>6 DEF Formed, TurnsFormed
  <2> QED
    BY <1>4, <1>5, <1>6, <2>1 DEF Formed
<1>8. Numbers(EventsOf(v.turns)) /\ Numbers(TokensOf(v.turns)) /\ IsFiniteSet(DOMAIN v.turns)
  BY CountsAre
<1>9. /\ t \in DOMAIN EventsOf(v.turns) /\ EventsOf(v.turns)[t] = v.turns[t].events
      /\ t \in DOMAIN TokensOf(v.turns) /\ TokensOf(v.turns)[t] = v.turns[t].tokens
  BY DEF EventsOf, TokensOf
<1>10. EventsOf(w.turns) = PutAt(EventsOf(v.turns), t, x.events) /\ TokensOf(w.turns) = PutAt(TokensOf(v.turns), t, x.tokens)
  BY <1>4, <1>5, CountsPut
<1>11. x.events \in Int /\ x.tokens \in Int /\ v.turns[t].events \in Int
  BY <1>0, <1>1 DEF TurnRow
<1>12. /\ SumOf(EventsOf(w.turns)) = SumOf(EventsOf(v.turns)) - v.turns[t].events + x.events
       /\ SumOf(EventsOf(v.turns)) \in Int
  BY <1>8, <1>9, <1>10, <1>11, SumPutOld
<1>13. /\ SumOf(TokensOf(w.turns)) = SumOf(TokensOf(v.turns)) - v.turns[t].tokens + x.tokens
       /\ SumOf(TokensOf(v.turns)) \in Int
  BY <1>8, <1>9, <1>10, <1>11, SumPutOld
<1>14. SumOf(EventsOf(w.turns)) = SumOf(EventsOf(v.turns)) + 1
  BY <1>1, <1>11, <1>12
<1>15. SumOf(TokensOf(w.turns)) = SumOf(TokensOf(v.turns))
  BY <1>1, <1>11, <1>13
<1>16. DOMAIN w.turns = DOMAIN v.turns
  BY <1>4, <1>5 DEF PutAt
<1>17. (Balanced(v) => Balanced(w)) /\ Tokens(w) = Tokens(v)
  BY <1>6, <1>14, <1>15, <1>16 DEF Balanced, Tokens
<1> QED
  BY <1>4, <1>5, <1>6, <1>7, <1>16, <1>17 DEF w

\* A total sets the tokens of the turn it falls in.
LEMMA TotalFormed ==
    ASSUME NEW v, NEW c, NEW n, Formed(v, c, n), NEW t \in DOMAIN v.turns, NEW e, e.tok \in Int
    PROVE  LET w == SeeTotal(v, t, e)
           IN  /\ Formed(w, c, n) /\ w.ops = v.ops /\ w.usage = v.usage /\ DOMAIN w.turns = DOMAIN v.turns
               /\ (Balanced(v) => Balanced(w)) /\ w.st.through = v.st.through
<1> DEFINE rise == IF e.tok > v.turns[t].base THEN e.tok - v.turns[t].base ELSE 0
           x == [v.turns[t] EXCEPT !.tokens = rise]
           u == SeeTurn(v, t, x)
           w == SeeTotal(v, t, e)
<1>0. TurnRow(v.turns[t]) /\ v.turns[t].ops \in 0 .. c /\ c \in Nat /\ v.st \in StateRow
  BY DEF Formed, TurnsFormed
<1>1. rise \in Int
  BY <1>0 DEF TurnRow
<1>2. w = [u EXCEPT !.st.total = e.tok]
  BY DEF SeeTotal
<1> HIDE DEF rise
<1>3. /\ TurnRow(x) /\ x.ops = v.turns[t].ops /\ x.events = v.turns[t].events
  BY <1>0, <1>1 DEF TurnRow, TurnFields
<1> HIDE DEF x
<1>4. x.ops \in 0 .. c /\ x.ops >= v.turns[t].ops
  BY <1>0, <1>3
<1>5. Formed(u, c, n) /\ u.st = v.st /\ u.ops = v.ops /\ u.turns = PutAt(v.turns, t, x) /\ u.usage = v.usage
  BY <1>3, <1>4, TurnReplaced
<1> HIDE DEF u
<1>6. /\ w = [f \in ViewFields |-> w[f]] /\ w.ops = u.ops /\ w.turns = u.turns /\ w.usage = u.usage
      /\ w.st = [u.st EXCEPT !.total = e.tok]
  BY <1>2, <1>5 DEF Formed, ViewFields
<1>7. /\ w.st \in StateRow /\ w.st.events = v.st.events /\ w.st.turns = v.st.turns
      /\ w.st.main = u.st.main /\ w.st.side = u.st.side /\ w.st.through = v.st.through
  BY <1>0, <1>5, <1>6 DEF StateRow
<1> HIDE DEF w
<1>8. Formed(w, c, n)
  <2>1. TurnsFormed(w.st, w.turns, c, n)
    BY <1>5, <1>6, <1>7 DEF Formed, TurnsFormed
  <2> QED
    BY <1>5, <1>6, <1>7, <2>1 DEF Formed
<1>9. EventsOf(w.turns) = EventsOf(v.turns) /\ DOMAIN w.turns = DOMAIN v.turns
  BY <1>3, <1>5, <1>6, SameEvents
<1> QED
  BY <1>5, <1>6, <1>7, <1>8, <1>9 DEF w, Balanced

\* The usage of a message is that of a turn there is.
UsageOwned(v) ==
    \A m \in DOMAIN v.usage : v.usage[m].turn \in DOMAIN v.turns /\ v.usage[m].tokens \in Int

\* A receipt replaces the one before on the turn that has it.
LEMMA ReplyFormed ==
    ASSUME NEW v, NEW c, NEW n, Formed(v, c, n), NEW t \in DOMAIN v.turns, NEW e, e.tok \in Int,
           UsageOwned(v)
    PROVE  LET w == SeeReply(v, t, e)
           IN  /\ Formed(w, c, n) /\ w.ops = v.ops /\ DOMAIN w.turns = DOMAIN v.turns
               /\ (Balanced(v) => Balanced(w)) /\ w.st.through = v.st.through
               /\ UsageOwned(w) /\ DOMAIN w.usage = DOMAIN v.usage \cup {e.id}
               /\ w.usage[e.id].tokens = e.tok
               /\ \A m \in DOMAIN v.usage : m # e.id => w.usage[m] = v.usage[m]
               /\ Tokens(w) = Tokens(v) - UsageOfMessage(v, e.id).tokens + e.tok
               /\ Tokens(v) \in Int /\ UsageOfMessage(v, e.id).tokens \in Int
<1> DEFINE prior == UsageOfMessage(v, e.id)
           owner == IF prior.turn \in DOMAIN v.turns THEN prior.turn ELSE t
           less == IF prior.turn = owner THEN prior.tokens ELSE 0
           x == [v.turns[owner] EXCEPT !.tokens = @ - less + e.tok]
           u == SeeTurn(v, owner, x)
           w == SeeReply(v, t, e)
<1>1. prior.tokens \in Int /\ owner \in DOMAIN v.turns /\ less = prior.tokens
  <2>1. CASE e.id \in DOMAIN v.usage
    BY <2>1 DEF UsageOwned, UsageOfMessage
  <2>2. CASE e.id \notin DOMAIN v.usage
    <3>1. prior = [turn |-> 0, tokens |-> 0]
      BY <2>2 DEF UsageOfMessage
    <3>2. \A s \in DOMAIN v.turns : s \in 1 .. n
      BY DEF Formed, TurnsFormed
    <3>3. 0 \notin DOMAIN v.turns
      BY <3>2
    <3> QED
      BY <3>1, <3>3
  <2> QED
    BY <2>1, <2>2
<1>2. w = [u EXCEPT !.usage = PutAt(@, e.id, [turn |-> owner, tokens |-> e.tok])]
  BY DEF SeeReply
<1> HIDE DEF owner, less, prior
<1>3. TurnRow(v.turns[owner]) /\ v.turns[owner].ops \in 0 .. c /\ c \in Nat
  BY <1>1 DEF Formed, TurnsFormed
<1>4. /\ TurnRow(x) /\ x.ops = v.turns[owner].ops /\ x.events = v.turns[owner].events
      /\ x.tokens = v.turns[owner].tokens - less + e.tok /\ v.turns[owner].tokens \in Int
  BY <1>1, <1>3 DEF TurnRow, TurnFields
<1> HIDE DEF x
<1>5. x.ops \in 0 .. c /\ x.ops >= v.turns[owner].ops
  BY <1>3, <1>4
<1>6. Formed(u, c, n) /\ u.st = v.st /\ u.ops = v.ops /\ u.turns = PutAt(v.turns, owner, x) /\ u.usage = v.usage
  BY <1>1, <1>4, <1>5, TurnReplaced
<1> HIDE DEF u
<1>7. /\ w = [f \in ViewFields |-> w[f]] /\ w.ops = u.ops /\ w.turns = u.turns /\ w.st = u.st
      /\ w.usage = PutAt(u.usage, e.id, [turn |-> owner, tokens |-> e.tok])
  BY <1>2, <1>6 DEF Formed, ViewFields
<1> HIDE DEF w
<1>8. Formed(w, c, n)
  BY <1>6, <1>7 DEF Formed
<1>9. EventsOf(w.turns) = EventsOf(v.turns) /\ DOMAIN w.turns = DOMAIN v.turns
  BY <1>1, <1>4, <1>6, <1>7, SameEvents
<1>10. /\ DOMAIN w.usage = DOMAIN v.usage \cup {e.id} /\ w.usage[e.id] = [turn |-> owner, tokens |-> e.tok]
       /\ \A m \in DOMAIN v.usage : m # e.id => w.usage[m] = v.usage[m]
  BY <1>6, <1>7 DEF PutAt
<1>11. UsageOwned(w)
  BY <1>1, <1>9, <1>10 DEF UsageOwned
<1>12. Numbers(TokensOf(v.turns)) /\ owner \in DOMAIN TokensOf(v.turns) /\ TokensOf(v.turns)[owner] = v.turns[owner].tokens
  BY <1>1, CountsAre DEF TokensOf
<1>13. TokensOf(w.turns) = PutAt(TokensOf(v.turns), owner, x.tokens)
  <2>1. TokensOf(PutAt(v.turns, owner, x)) = PutAt(TokensOf(v.turns), owner, x.tokens)
    BY CountsPut
  <2> QED
    BY <1>6, <1>7, <2>1
<1>14. x.tokens \in Int
  BY <1>1, <1>4
<1>15. Tokens(w) = Tokens(v) - v.turns[owner].tokens + x.tokens /\ Tokens(v) \in Int
  BY <1>12, <1>13, <1>14, SumPutOld DEF Tokens
<1>16. Tokens(w) = Tokens(v) - prior.tokens + e.tok
  BY <1>1, <1>4, <1>15
<1> QED
  BY <1>1, <1>6, <1>7, <1>8, <1>9, <1>10, <1>11, <1>15, <1>16 DEF w, prior, Balanced
-----------------------------------------------------------------------------
(* What one event does to the rows. *)

CalledNew(v, w, e) == \E k : k \notin DOMAIN v.ops /\ w.ops = PutAt(v.ops, k, NewOp(e))
OpsStep(v, w, e) ==
    IF e.k = "call" THEN CalledNew(v, w, e)
    ELSE OpsKept(v, w, IF e.k = "result" THEN AnsweredBy(v, e) ELSE {})
ReplyStep(v, w, e) ==
    /\ DOMAIN w.usage = DOMAIN v.usage \cup {e.id}
    /\ w.usage[e.id].tokens = e.tok
    /\ \A m \in DOMAIN v.usage : m # e.id => w.usage[m] = v.usage[m]
    /\ Tokens(w) = Tokens(v) - UsageOfMessage(v, e.id).tokens + e.tok
    /\ Tokens(v) \in Int /\ UsageOfMessage(v, e.id).tokens \in Int
UsageStep(v, w, e) ==
    /\ UsageOwned(w)
    /\ e.k = "reply" => ReplyStep(v, w, e)
    /\ e.k \notin {"reply", "total"} => w.usage = v.usage /\ Tokens(w) = Tokens(v)
EventStep(v, w, e) == OpsStep(v, w, e) /\ UsageStep(v, w, e) /\ (Balanced(v) => Balanced(w))

\* An item changes the items only.
LEMMA ItemFormed ==
    ASSUME NEW v, NEW c, NEW n, Formed(v, c, n), NEW t, NEW e
    PROVE  LET w == SeeItem(v, t, e)
           IN  /\ Formed(w, c, n) /\ w.st = v.st /\ w.turns = v.turns /\ w.ops = v.ops /\ w.usage = v.usage
<1> DEFINE w == SeeItem(v, t, e)
<1>1. /\ w = [f \in ViewFields |-> w[f]] /\ w.st = v.st /\ w.turns = v.turns /\ w.ops = v.ops /\ w.usage = v.usage
  BY DEF SeeItem, Formed, ViewFields
<1> HIDE DEF w
<1>2. Formed(w, c, n)
  BY <1>1 DEF Formed
<1> QED
  BY <1>1, <1>2 DEF w

\* A call or a result is applied to its operation.
LEMMA PayloadFormed ==
    ASSUME NEW v, NEW e, Event(e), Formed(v, e.at - 1, e.at), NEW t \in DOMAIN v.turns
    PROVE  LET w == SeePayload(v, t, e)
           IN  /\ Formed(w, e.at, e.at) /\ OpsStep(v, w, e) /\ w.st = v.st /\ w.usage = v.usage
               /\ DOMAIN w.turns = DOMAIN v.turns
               /\ EventsOf(w.turns) = EventsOf(v.turns) /\ TokensOf(w.turns) = TokensOf(v.turns)
<1> DEFINE w == SeePayload(v, t, e)
<1>0. e.at \in Nat /\ e.at - 1 \in Nat
  BY DEF Event
<1>1. CASE e.k = "call"
  <2> DEFINE x == WithCall(v.turns[t], e)
  <2>1. w = SeeCall(v, t, e)
    BY <1>1 DEF SeePayload
  <2>2. /\ Formed(w, e.at, e.at) /\ <<t, v.turns[t].ops>> \notin DOMAIN v.ops /\ w.st = v.st /\ w.usage = v.usage
        /\ w.ops = PutAt(v.ops, <<t, v.turns[t].ops>>, NewOp(e)) /\ w.turns = PutAt(v.turns, t, x)
        /\ TurnRow(v.turns[t])
    BY <2>1, CallFormed
  <2>3. x.events = v.turns[t].events /\ x.tokens = v.turns[t].tokens
    BY <2>2 DEF TurnRow, TurnFields, WithCall
  <2> HIDE DEF w, x
  <2>4. DOMAIN w.turns = DOMAIN v.turns /\ \A s \in DOMAIN v.turns : w.turns[s].events = v.turns[s].events /\ w.turns[s].tokens = v.turns[s].tokens
    BY <2>2, <2>3 DEF PutAt
  <2>5. EventsOf(w.turns) = EventsOf(v.turns) /\ TokensOf(w.turns) = TokensOf(v.turns)
    BY <2>4 DEF EventsOf, TokensOf
  <2>6. OpsStep(v, w, e)
    BY <1>1, <2>2 DEF OpsStep, CalledNew
  <2> QED
    BY <2>2, <2>4, <2>5, <2>6 DEF w
<1>2. CASE e.k = "result"
  <2>1. w = SeeResult(v, t, e)
    BY <1>2 DEF SeePayload
  <2>2. Formed(w, e.at - 1, e.at) /\ TurnsKept(v, w) /\ OpsKept(v, w, AnsweredBy(v, e))
    BY <2>1, ResultFormed
  <2> HIDE DEF w
  <2>3. Formed(w, e.at, e.at)
    BY <1>0, <2>2, FormedHigher
  <2>4. EventsOf(w.turns) = EventsOf(v.turns) /\ TokensOf(w.turns) = TokensOf(v.turns)
    BY <2>2, KeptCounts
  <2> QED
    BY <1>2, <2>2, <2>3, <2>4 DEF OpsStep, TurnsKept, w
<1>3. CASE e.k \notin {"call", "result"}
  <2>1. w = v
    BY <1>3 DEF SeePayload
  <2>2. \A j \in DOMAIN v.ops : v.ops[j].pending \in BOOLEAN
    BY DEF Formed, OpsFormed, OpRow
  <2>3. OpsKept(v, v, {})
    BY <2>2 DEF OpsKept
  <2>4. Formed(v, e.at, e.at)
    BY <1>0, FormedHigher
  <2> HIDE DEF w
  <2> QED
    BY <1>3, <2>1, <2>3, <2>4 DEF OpsStep, w
<1> QED
  BY <1>1, <1>2, <1>3

\* An event is appended to a turn.
LEMMA AppendedFormed ==
    ASSUME NEW v, NEW e, Event(e), Formed(v, e.at - 1, e.at), NEW t \in DOMAIN v.turns, UsageOwned(v)
    PROVE  LET w == SeeAppended(v, t, e)
           IN  /\ Formed(w, e.at, e.at) /\ EventStep(v, w, e) /\ w.st.through = v.st.through
<1> DEFINE a == SeeCounted(v, t)
           b == SeePayload(a, t, e)
           i == SeeItem(b, t, e)
           w == SeeUsage(i, t, e)
<1>1. /\ Formed(a, e.at - 1, e.at) /\ a.ops = v.ops /\ a.usage = v.usage /\ DOMAIN a.turns = DOMAIN v.turns
      /\ (Balanced(v) => Balanced(a)) /\ Tokens(a) = Tokens(v) /\ a.st.through = v.st.through
  BY CountedFormed
<1> HIDE DEF a
<1>2. t \in DOMAIN a.turns
  BY <1>1
<1>3. /\ Formed(b, e.at, e.at) /\ OpsStep(a, b, e) /\ b.st = a.st /\ b.usage = a.usage
      /\ DOMAIN b.turns = DOMAIN a.turns
      /\ EventsOf(b.turns) = EventsOf(a.turns) /\ TokensOf(b.turns) = TokensOf(a.turns)
  BY <1>1, <1>2, PayloadFormed
<1> HIDE DEF b
<1>4. Formed(i, e.at, e.at) /\ i.st = b.st /\ i.turns = b.turns /\ i.ops = b.ops /\ i.usage = b.usage
  BY <1>3, ItemFormed
<1> HIDE DEF i
<1>5. /\ OpsStep(v, i, e) /\ i.usage = v.usage /\ DOMAIN i.turns = DOMAIN v.turns /\ UsageOwned(i)
      /\ (Balanced(v) => Balanced(i)) /\ Tokens(i) = Tokens(v) /\ i.st.through = v.st.through
  <2>1. OpsStep(v, i, e)
    BY <1>1, <1>3, <1>4 DEF OpsStep, CalledNew, OpsKept, AnsweredBy
  <2>2. i.usage = v.usage /\ DOMAIN i.turns = DOMAIN v.turns
    BY <1>1, <1>3, <1>4
  <2>3. UsageOwned(i)
    BY <2>2 DEF UsageOwned
  <2>4. (Balanced(v) => Balanced(i)) /\ Tokens(i) = Tokens(v) /\ i.st.through = v.st.through
    BY <1>1, <1>3, <1>4 DEF Balanced, Tokens
  <2> QED
    BY <2>1, <2>2, <2>3, <2>4
<1>6. t \in DOMAIN i.turns /\ e.tok \in Int
  BY <1>5 DEF Event
<1>7. SeeAppended(v, t, e) = w
  BY DEF SeeAppended, a, b, i
<1>8. CASE e.k = "total"
  <2>1. w = SeeTotal(i, t, e)
    BY <1>8 DEF SeeUsage
  <2>2. /\ Formed(w, e.at, e.at) /\ w.ops = i.ops /\ w.usage = i.usage /\ DOMAIN w.turns = DOMAIN i.turns
        /\ (Balanced(i) => Balanced(w)) /\ w.st.through = i.st.through
    BY <1>4, <1>6, <2>1, TotalFormed
  <2> HIDE DEF w
  <2>3. OpsStep(v, w, e)
    BY <1>5, <1>8, <2>2 DEF OpsStep, CalledNew, OpsKept
  <2>4. UsageStep(v, w, e)
    BY <1>5, <1>8, <2>2 DEF UsageStep, UsageOwned
  <2> QED
    BY <1>5, <1>7, <2>2, <2>3, <2>4 DEF EventStep
<1>9. CASE e.k = "reply"
  <2>1. w = SeeReply(i, t, e)
    BY <1>9 DEF SeeUsage
  <2>2. /\ Formed(w, e.at, e.at) /\ w.ops = i.ops
        /\ (Balanced(i) => Balanced(w)) /\ w.st.through = i.st.through
        /\ UsageOwned(w) /\ ReplyStep(i, w, e)
    BY <1>4, <1>5, <1>6, <2>1, ReplyFormed DEF ReplyStep
  <2> HIDE DEF w
  <2>3. OpsStep(v, w, e)
    BY <1>5, <1>9, <2>2 DEF OpsStep, CalledNew, OpsKept
  <2>4. UsageOfMessage(i, e.id) = UsageOfMessage(v, e.id)
    BY <1>5 DEF UsageOfMessage
  <2>5. ReplyStep(v, w, e)
    BY <1>5, <2>2, <2>4 DEF ReplyStep
  <2>6. UsageStep(v, w, e)
    BY <1>9, <2>2, <2>5 DEF UsageStep
  <2> QED
    BY <1>5, <1>7, <2>2, <2>3, <2>6 DEF EventStep
<1>10. CASE e.k \notin {"reply", "total"}
  <2>1. w = i
    BY <1>10 DEF SeeUsage
  <2> HIDE DEF w
  <2>2. UsageStep(v, w, e)
    BY <1>5, <1>10, <2>1 DEF UsageStep
  <2> QED
    BY <1>4, <1>5, <1>7, <2>1, <2>2 DEF EventStep
<1> QED
  BY <1>8, <1>9, <1>10

\* Rows that do not change under an event that is not a call, a result, a receipt or a total.
LEMMA StillStep ==
    ASSUME NEW v, NEW c, NEW n, Formed(v, c, n), NEW w, NEW e, e.k \notin {"call", "result", "reply"},
           w.ops = v.ops, w.usage = v.usage, UsageOwned(w), Tokens(w) = Tokens(v), Balanced(v) => Balanced(w)
    PROVE  EventStep(v, w, e)
<1>1. \A j \in DOMAIN v.ops : v.ops[j].pending \in BOOLEAN
  BY DEF Formed, OpsFormed, OpRow
<1>2. OpsKept(v, w, {})
  BY <1>1 DEF OpsKept
<1> QED
  BY <1>2 DEF EventStep, OpsStep, UsageStep

\* The step of an event is that from rows with the same operations, usage and sums.
LEMMA StepFrom ==
    ASSUME NEW v, NEW u, NEW w, NEW e, EventStep(u, w, e), u.ops = v.ops, u.usage = v.usage, Tokens(u) = Tokens(v),
           Balanced(v) => Balanced(u)
    PROVE  EventStep(v, w, e)
<1>1. OpsStep(v, w, e)
  BY DEF EventStep, OpsStep, CalledNew, OpsKept, AnsweredBy
<1>2. UsageOfMessage(u, e.id) = UsageOfMessage(v, e.id)
  BY DEF UsageOfMessage
<1>3. UsageStep(v, w, e)
  BY <1>2 DEF EventStep, UsageStep, ReplyStep
<1> QED
  BY <1>1, <1>3 DEF EventStep

\* An event lands in its turn.
LEMMA LandedFormed ==
    ASSUME NEW v, NEW e, Later(v, e), UsageOwned(v)
    PROVE  LET w == SeeLanded(v, e)
           IN  /\ Formed(w, e.at, e.at) /\ EventStep(v, w, e) /\ w.st.through = v.st.through
<1> DEFINE w == SeeLanded(v, e)
<1>0. e.at \in Nat /\ e.at - 1 \in Nat /\ Event(e) /\ Formed(v, e.at - 1, e.at - 1)
  BY DEF Later, Event
<1>1. Formed(v, e.at - 1, e.at) /\ Formed(v, e.at, e.at)
  BY <1>0, FormedHigher
<1>2. ASSUME NEW prompt \in BOOLEAN
      PROVE  LET u == SeeCreated(v, e, prompt)
             IN  /\ Formed(u, e.at - 1, e.at) /\ u.ops = v.ops /\ u.usage = v.usage
                 /\ e.at \in DOMAIN u.turns /\ UsageOwned(u) /\ u.st.through = v.st.through
                 /\ (Balanced(v) => Balanced(u)) /\ Tokens(u) = Tokens(v)
  <2> DEFINE u == SeeCreated(v, e, prompt)
  <2>1. /\ Formed(u, e.at - 1, e.at) /\ u.ops = v.ops /\ u.usage = v.usage
        /\ u.turns = PutAt(v.turns, e.at, NewTurn(v.st, e, prompt)) /\ u.st.through = v.st.through
    BY CreatedFormed
  <2>2. (Balanced(v) => Balanced(u)) /\ Tokens(u) = Tokens(v)
    BY CreatedCounts
  <2> HIDE DEF u
  <2>3. DOMAIN u.turns = DOMAIN v.turns \cup {e.at}
    BY <2>1 DEF PutAt
  <2>4. UsageOwned(u)
    BY <2>1, <2>3 DEF UsageOwned
  <2> QED
    BY <2>1, <2>2, <2>3, <2>4 DEF u
<1>3. CASE e.k = "prompt"
  <2> DEFINE u == SeeCreated(v, e, TRUE)
  <2>1. /\ Formed(u, e.at - 1, e.at) /\ u.ops = v.ops /\ u.usage = v.usage
        /\ UsageOwned(u) /\ u.st.through = v.st.through
        /\ (Balanced(v) => Balanced(u)) /\ Tokens(u) = Tokens(v)
    BY <1>2, Zenon
  <2>2. w = u
    BY <1>3 DEF SeeLanded
  <2> HIDE DEF u
  <2>3. Formed(u, e.at, e.at)
    BY <1>0, <2>1, FormedHigher
  <2>4. EventStep(v, u, e)
    BY <1>0, <1>3, <2>1, StillStep
  <2> QED
    BY <2>1, <2>2, <2>3, <2>4
<1>4. CASE e.k # "prompt" /\ TurnNow(v, e) # 0
  <2>1. TurnNow(v, e) \in DOMAIN v.turns
    BY <1>4 DEF TurnNow, Later, Formed, TurnsFormed
  <2>2. w = SeeAppended(v, TurnNow(v, e), e)
    BY <1>4 DEF SeeLanded
  <2> QED
    BY <1>0, <1>1, <2>1, <2>2, AppendedFormed
<1>5. CASE e.k # "prompt" /\ TurnNow(v, e) = 0 /\ Bookkeeping(e)
  <2>1. w = v /\ e.k \notin {"call", "result", "reply"}
    BY <1>5 DEF SeeLanded, Bookkeeping
  <2>2. EventStep(v, v, e)
    BY <1>0, <2>1, StillStep
  <2> QED
    BY <1>1, <2>1, <2>2
<1>6. CASE e.k # "prompt" /\ TurnNow(v, e) = 0 /\ ~Bookkeeping(e)
  <2> DEFINE u == SeeCreated(v, e, FALSE)
  <2>1. /\ Formed(u, e.at - 1, e.at) /\ u.ops = v.ops /\ u.usage = v.usage /\ e.at \in DOMAIN u.turns
        /\ UsageOwned(u) /\ u.st.through = v.st.through
        /\ (Balanced(v) => Balanced(u)) /\ Tokens(u) = Tokens(v)
    BY <1>2, Zenon
  <2>2. w = SeeAppended(u, e.at, e)
    BY <1>6 DEF SeeLanded
  <2> HIDE DEF u
  <2>3. Formed(w, e.at, e.at) /\ EventStep(u, w, e) /\ w.st.through = u.st.through
    BY <1>0, <2>1, <2>2, AppendedFormed
  <2> HIDE DEF w
  <2>4. EventStep(v, w, e)
    BY <2>1, <2>3, StepFrom
  <2> QED
    BY <2>1, <2>3, <2>4 DEF w
<1> QED
  BY <1>3, <1>4, <1>5, <1>6

\* The cursor moves to the event.
LEMMA ThroughFormed ==
    ASSUME NEW v, NEW e, Later(v, e)
    PROVE  LET a == SeeThrough(v, e)
           IN  /\ Later(a, e) /\ a.turns = v.turns
               /\ a.ops = v.ops /\ a.items = v.items /\ a.usage = v.usage /\ a.st.through = e.at
               /\ a.st.main = v.st.main /\ a.st.side = v.st.side
               /\ a.st.events = v.st.events /\ a.st.turns = v.st.turns
<1> DEFINE a == SeeThrough(v, e)
<1>0. Formed(v, e.at - 1, e.at - 1) /\ v.st \in StateRow /\ e.at \in Nat /\ v = [f \in ViewFields |-> v[f]]
  BY DEF Later, Formed, Event
<1>1. /\ a = [f \in ViewFields |-> a[f]] /\ a.turns = v.turns /\ a.ops = v.ops /\ a.usage = v.usage
      /\ a.items = v.items /\ a.st = [v.st EXCEPT !.through = e.at]
  BY <1>0 DEF SeeThrough, ViewFields
<1>2. /\ a.st \in StateRow /\ a.st.through = e.at /\ a.st.main = v.st.main /\ a.st.side = v.st.side
      /\ a.st.events = v.st.events /\ a.st.turns = v.st.turns
  BY <1>0, <1>1 DEF StateRow
<1> HIDE DEF a
<1>3. Formed(a, e.at - 1, e.at - 1)
  <2>1. TurnsFormed(a.st, a.turns, e.at - 1, e.at - 1)
    BY <1>0, <1>1, <1>2 DEF Formed, TurnsFormed
  <2> QED
    BY <1>0, <1>1, <1>2, <2>1 DEF Formed
<1> QED
  BY <1>1, <1>2, <1>3 DEF a, Later

\* Evidence is attached before it lands.
LEMMA FoundFormed ==
    ASSUME NEW v, NEW c, NEW n, Formed(v, c, n), NEW e
    PROVE  LET u == SeeFound(v, e)
           IN  /\ Formed(u, c, n) /\ TurnsKept(v, u) /\ OpsKept(v, u, {}) /\ (e.k # "evidence" => u = v)
<1>1. CASE e.k = "evidence"
  BY <1>1, RuntimeFormed DEF SeeFound
<1>2. CASE e.k # "evidence"
  <2>1. SeeFound(v, e) = v
    BY <1>2 DEF SeeFound
  <2>2. \A j \in DOMAIN v.ops : v.ops[j].pending \in BOOLEAN
    BY DEF Formed, OpsFormed, OpRow
  <2>3. TurnsKept(v, v) /\ OpsKept(v, v, {})
    BY <2>2 DEF TurnsKept, OpsKept
  <2> QED
    BY <1>2, <2>1, <2>3
<1> QED
  BY <1>1, <1>2

\* An event is applied.
LEMMA AppliedFormed ==
    ASSUME NEW v, NEW e, Later(v, e), UsageOwned(v)
    PROVE  LET w == SeeApplied(v, e)
           IN  /\ Formed(w, e.at, e.at) /\ EventStep(v, w, e) /\ w.st.through = e.at
<1> DEFINE a == SeeThrough(v, e)
           u == SeeFound(a, e)
           w == SeeApplied(v, e)
<1>0. e.at \in Nat /\ e.at - 1 \in Nat /\ Event(e) /\ Formed(v, e.at - 1, e.at - 1)
  BY DEF Later, Event
<1>1. /\ Later(a, e) /\ a.turns = v.turns /\ a.ops = v.ops /\ a.usage = v.usage /\ a.st.through = e.at
      /\ a.st.events = v.st.events /\ a.st.turns = v.st.turns
  BY ThroughFormed
<1>2. UsageOwned(a) /\ Tokens(a) = Tokens(v) /\ (Balanced(v) => Balanced(a)) /\ Formed(a, e.at - 1, e.at - 1)
  BY <1>1 DEF UsageOwned, Tokens, Balanced, Later
<1>3. w = IF e.k = "inherited" \/ Repeated(a, e) THEN a ELSE SeeLanded(u, e)
  BY DEF SeeApplied
<1> HIDE DEF a
<1>4. CASE e.k = "inherited" \/ Repeated(a, e)
  <2>1. w = a /\ e.k \notin {"call", "result", "reply"}
    BY <1>3, <1>4 DEF Repeated
  <2>2. Formed(a, e.at, e.at)
    BY <1>0, <1>2, FormedHigher
  <2>3. EventStep(v, a, e)
    BY <1>0, <1>1, <1>2, <2>1, StillStep
  <2> QED
    BY <1>1, <2>1, <2>2, <2>3
<1>5. CASE ~(e.k = "inherited" \/ Repeated(a, e))
  <2>1. w = SeeLanded(u, e)
    BY <1>3, <1>5
  <2>2. /\ Formed(u, e.at - 1, e.at - 1) /\ TurnsKept(a, u) /\ OpsKept(a, u, {}) /\ (e.k # "evidence" => u = a)
    BY <1>2, FoundFormed
  <2> HIDE DEF u
  <2>3. Later(u, e) /\ UsageOwned(u) /\ u.st.through = e.at /\ u.usage = v.usage
    BY <1>0, <1>1, <1>2, <2>2 DEF Later, UsageOwned, TurnsKept
  <2>4. Formed(w, e.at, e.at) /\ EventStep(u, w, e) /\ w.st.through = u.st.through
    BY <2>1, <2>3, LandedFormed
  <2>5. (Balanced(v) => Balanced(u)) /\ Tokens(u) = Tokens(v)
    BY <1>2, <2>2, KeptCounts
  <2> HIDE DEF w
  <2>6. EventStep(v, w, e)
    <3>1. CASE e.k # "evidence"
      <4>1. u.ops = v.ops
        BY <1>1, <2>2, <3>1
      <4> QED
        BY <2>3, <2>4, <2>5, <4>1, StepFrom
    <3>2. CASE e.k = "evidence"
      <4>1. OpsKept(u, w, {})
        BY <2>4, <3>2 DEF EventStep, OpsStep
      <4>2. OpsKept(v, w, {})
        BY <1>1, <2>2, <4>1 DEF OpsKept
      <4>3. UsageStep(v, w, e)
        BY <2>3, <2>4, <2>5, <3>2 DEF EventStep, UsageStep
      <4> QED
        BY <2>4, <2>5, <3>2, <4>2, <4>3 DEF EventStep, OpsStep
    <3> QED
      BY <3>1, <3>2
  <2> QED
    BY <2>3, <2>4, <2>6 DEF w
<1> QED
  BY <1>4, <1>5
-----------------------------------------------------------------------------
(***************************************************************************)
(* The reducer keeps to its rows: what it has loaded and not changed is    *)
(* what is stored, what it has not loaded it has not changed, and what it  *)
(* has looked for it has loaded.                                           *)
(***************************************************************************)
IsTable(f) == f = [k \in DOMAIN f |-> f[k]]
RowFields == {"st", "turns", "ops", "items", "usage", "links", "touches"}
RowsStand(d) ==
    /\ d = [f \in RowFields |-> d[f]] /\ IsTable(d.turns) /\ IsTable(d.ops) /\ IsTable(d.usage)
    /\ Formed(CoreOf(d), d.st.through, d.st.through)
    /\ d.touches = [k \in DOMAIN d.ops |-> d.ops[k].input]

ReducerFields == {"d", "st", "start", "turns", "dirty", "items", "ops", "newOps", "updated", "inputs",
                  "queried", "prompts", "usage", "links"}
IsReducer(r) == r = [f \in ReducerFields |-> r[f]]

\* A step changes at most the fields S.
Only(r, l, S) == IsReducer(l) /\ \A f \in ReducerFields : f \notin S => l[f] = r[f]

TurnsHeld(turns, dirty, base) ==
    /\ dirty \subseteq DOMAIN turns
    /\ \A t \in DOMAIN turns : t \notin dirty => t \in DOMAIN base /\ turns[t] = base[t]

OpsHeld(ops, new, updated, inputs, base) ==
    /\ new \subseteq DOMAIN ops /\ updated \subseteq DOMAIN ops /\ inputs \subseteq DOMAIN ops
    /\ \A k \in DOMAIN ops : k \notin new =>
         /\ k \in DOMAIN base
         /\ k \notin updated => ops[k] = base[k]
         /\ k \notin inputs => ops[k].input = base[k].input

LookedUp(ops, queried, base) == \A k \in DOMAIN base : base[k].pair \in queried => k \in DOMAIN ops

PromptsHeld(r) == \A u : u # None => (PromptSeen(r, u) <=> Asked(ViewOf(r), u))

HeldRows(r, d) ==
    /\ IsReducer(r) /\ r.d = d /\ r.start = d.st.through
    /\ TurnsHeld(r.turns, r.dirty, d.turns)
    /\ OpsHeld(r.ops, r.newOps, r.updated, r.inputs, d.ops)
    /\ LookedUp(r.ops, r.queried, d.ops)
Held(r, d) == HeldRows(r, d) /\ PromptsHeld(r)

\* The fields of a view.
LEMMA ViewIs ==
    ASSUME NEW r
    PROVE  /\ ViewOf(r).st = r.st /\ ViewOf(r).turns = Onto(r.turns, r.d.turns)
           /\ ViewOf(r).ops = Onto(r.ops, r.d.ops) /\ ViewOf(r).items = r.d.items \cup r.items
           /\ ViewOf(r).usage = Onto(r.usage, r.d.usage)
           /\ ViewOf(r) = [f \in ViewFields |-> ViewOf(r)[f]]
BY DEF ViewOf, ViewFields

\* Views with the same fields are the same.
LEMMA SameView ==
    ASSUME NEW v, NEW w, v = [f \in ViewFields |-> v[f]], w = [f \in ViewFields |-> w[f]],
           v.st = w.st, v.turns = w.turns, v.ops = w.ops, v.items = w.items, v.usage = w.usage
    PROVE  v = w
<1>1. \A f \in ViewFields : v[f] = w[f]
  BY DEF ViewFields
<1> QED
  BY <1>1

\* Prompts are kept where the turns keep theirs.
LEMMA PromptsKept ==
    ASSUME NEW r, NEW l, PromptsHeld(r), l.prompts = r.prompts, l.d = r.d,
           DOMAIN ViewOf(l).turns = DOMAIN ViewOf(r).turns,
           \A t \in DOMAIN ViewOf(r).turns : ViewOf(l).turns[t].prompt = ViewOf(r).turns[t].prompt
    PROVE  PromptsHeld(l)
BY DEF PromptsHeld, PromptSeen, Asked

\* A turn is loaded.
LEMMA LoadTurnHeld ==
    ASSUME NEW r, NEW d, Held(r, d), NEW t
    PROVE  LET l == LoadTurn(r, t)
           IN  /\ Held(l, d) /\ ViewOf(l) = ViewOf(r) /\ Only(r, l, {"turns"})
               /\ t \in DOMAIN l.turns <=> t \in DOMAIN ViewOf(r).turns
               /\ t \in DOMAIN l.turns => l.turns[t] = ViewOf(r).turns[t]
               /\ \A s \in DOMAIN r.turns : s \in DOMAIN l.turns
<1> DEFINE l == LoadTurn(r, t)
<1>0. IsReducer(r) /\ r.d = d /\ HeldRows(r, d) /\ TurnsHeld(r.turns, r.dirty, d.turns)
  BY DEF Held, HeldRows
<1>1. CASE t \in DOMAIN r.turns \/ t \notin DOMAIN d.turns
  <2>1. l = r
    BY <1>0, <1>1 DEF LoadTurn
  <2>2. /\ t \in DOMAIN r.turns <=> t \in DOMAIN ViewOf(r).turns
        /\ t \in DOMAIN r.turns => r.turns[t] = ViewOf(r).turns[t]
    <3>1. ViewOf(r).turns = Onto(r.turns, d.turns)
      BY <1>0, ViewIs
    <3> QED
      BY <1>1, <3>1 DEF Onto
  <2>3. Only(r, r, {"turns"})
    BY <1>0 DEF Only
  <2> HIDE DEF l
  <2> QED
    BY <2>1, <2>2, <2>3 DEF l
<1>2. CASE t \notin DOMAIN r.turns /\ t \in DOMAIN d.turns
  <2>1. l = [r EXCEPT !.turns = PutAt(r.turns, t, d.turns[t])]
    BY <1>0, <1>2 DEF LoadTurn
  <2>2. Only(r, l, {"turns"}) /\ l.turns = PutAt(r.turns, t, d.turns[t])
    BY <1>0, <2>1 DEF Only, IsReducer, ReducerFields
  <2> HIDE DEF l
  <2>3. /\ l.d = r.d /\ l.st = r.st /\ l.start = r.start /\ l.dirty = r.dirty /\ l.items = r.items
        /\ l.ops = r.ops /\ l.newOps = r.newOps /\ l.updated = r.updated /\ l.inputs = r.inputs
        /\ l.queried = r.queried /\ l.prompts = r.prompts /\ l.usage = r.usage /\ IsReducer(l)
    BY <2>2 DEF Only, ReducerFields
  <2>4. Onto(l.turns, d.turns) = Onto(r.turns, d.turns)
    BY <1>2, <2>2, LoadOneOnto
  <2>5. ViewOf(l) = ViewOf(r)
    BY <1>0, <2>3, <2>4 DEF ViewOf
  <2>6. /\ DOMAIN l.turns = DOMAIN r.turns \cup {t} /\ l.turns[t] = d.turns[t]
        /\ \A s \in DOMAIN r.turns : l.turns[s] = r.turns[s]
    BY <1>2, <2>2 DEF PutAt
  <2>7. TurnsHeld(l.turns, l.dirty, d.turns)
    BY <1>0, <1>2, <2>3, <2>6 DEF TurnsHeld
  <2>8. HeldRows(l, d)
    BY <1>0, <2>3, <2>7 DEF HeldRows
  <2>9. PromptsHeld(l)
    BY <2>3, <2>5, PromptsKept DEF Held
  <2>10. t \in DOMAIN ViewOf(r).turns /\ l.turns[t] = ViewOf(r).turns[t]
    <3>1. ViewOf(r).turns = Onto(r.turns, d.turns)
      BY <1>0, ViewIs
    <3> QED
      BY <1>2, <2>6, <3>1 DEF Onto
  <2> QED
    BY <2>2, <2>5, <2>6, <2>8, <2>9, <2>10 DEF Held, l
<1> QED
  BY <1>1, <1>2

\* A turn's row is put.
LEMMA PutTurnRows ==
    ASSUME NEW r, NEW d, HeldRows(r, d), NEW t, NEW x
    PROVE  LET l == PutTurn(r, t, x)
           IN  /\ HeldRows(l, d) /\ ViewOf(l) = SeeTurn(ViewOf(r), t, x) /\ Only(r, l, {"turns", "dirty"})
               /\ DOMAIN l.turns = DOMAIN r.turns \cup {t} /\ l.turns[t] = x
<1> DEFINE l == PutTurn(r, t, x)
<1>0. IsReducer(r) /\ r.d = d /\ TurnsHeld(r.turns, r.dirty, d.turns)
  BY DEF HeldRows
<1>2. Only(r, l, {"turns", "dirty"}) /\ l.turns = PutAt(r.turns, t, x) /\ l.dirty = r.dirty \cup {t}
  BY <1>0 DEF PutTurn, Only, IsReducer, ReducerFields
<1> HIDE DEF l
<1>3. /\ l.d = r.d /\ l.st = r.st /\ l.start = r.start /\ l.items = r.items
      /\ l.ops = r.ops /\ l.newOps = r.newOps /\ l.updated = r.updated /\ l.inputs = r.inputs
      /\ l.queried = r.queried /\ l.prompts = r.prompts /\ l.usage = r.usage /\ IsReducer(l)
  BY <1>2 DEF Only, ReducerFields
<1>4. Onto(l.turns, d.turns) = PutAt(Onto(r.turns, d.turns), t, x)
  BY <1>2, PutOnto
<1>5. ViewOf(l) = SeeTurn(ViewOf(r), t, x)
  <2> DEFINE v == ViewOf(r)
             w == SeeTurn(v, t, x)
             u == ViewOf(l)
  <2>1. /\ v = [f \in ViewFields |-> v[f]] /\ v.st = r.st /\ v.turns = Onto(r.turns, d.turns)
        /\ v.ops = Onto(r.ops, d.ops) /\ v.items = d.items \cup r.items /\ v.usage = Onto(r.usage, d.usage)
    BY <1>0, ViewIs
  <2>2. /\ u = [f \in ViewFields |-> u[f]] /\ u.st = v.st /\ u.turns = PutAt(v.turns, t, x)
        /\ u.ops = v.ops /\ u.items = v.items /\ u.usage = v.usage
    BY <1>0, <1>3, <1>4, <2>1, ViewIs
  <2> HIDE DEF v, u
  <2>3. /\ w = [f \in ViewFields |-> w[f]] /\ w.st = v.st /\ w.turns = PutAt(v.turns, t, x)
        /\ w.ops = v.ops /\ w.items = v.items /\ w.usage = v.usage
    BY <2>1 DEF SeeTurn, ViewFields
  <2> HIDE DEF w
  <2>4. u = w
    BY <2>2, <2>3, SameView
  <2> QED
    BY <2>4 DEF u, v, w
<1>6. /\ DOMAIN l.turns = DOMAIN r.turns \cup {t} /\ l.turns[t] = x
      /\ \A s \in DOMAIN r.turns : s # t => l.turns[s] = r.turns[s]
  BY <1>2 DEF PutAt
<1>7. TurnsHeld(l.turns, l.dirty, d.turns)
  BY <1>0, <1>2, <1>6 DEF TurnsHeld
<1>8. HeldRows(l, d)
  BY <1>0, <1>3, <1>7 DEF HeldRows
<1> QED
  BY <1>2, <1>5, <1>6, <1>8 DEF l

\* It is put in the place of one with the same prompt.
LEMMA PutTurnHeld ==
    ASSUME NEW r, NEW d, Held(r, d), NEW t \in DOMAIN ViewOf(r).turns, NEW x, x.prompt = ViewOf(r).turns[t].prompt
    PROVE  LET l == PutTurn(r, t, x)
           IN  /\ Held(l, d) /\ ViewOf(l) = SeeTurn(ViewOf(r), t, x) /\ Only(r, l, {"turns", "dirty"})
               /\ DOMAIN l.turns = DOMAIN r.turns \cup {t} /\ l.turns[t] = x
<1> DEFINE l == PutTurn(r, t, x)
           v == ViewOf(r)
<1>1. /\ HeldRows(l, d) /\ ViewOf(l) = SeeTurn(v, t, x) /\ Only(r, l, {"turns", "dirty"})
      /\ DOMAIN l.turns = DOMAIN r.turns \cup {t} /\ l.turns[t] = x
  BY PutTurnRows DEF Held
<1>2. t \in DOMAIN v.turns /\ x.prompt = v.turns[t].prompt /\ v = [f \in ViewFields |-> v[f]]
  BY ViewIs
<1> HIDE DEF l, v
<1>3. ViewOf(l).turns = PutAt(v.turns, t, x)
  BY <1>1, <1>2 DEF SeeTurn, ViewFields
<1>4. /\ DOMAIN ViewOf(l).turns = DOMAIN v.turns
      /\ \A s \in DOMAIN v.turns : ViewOf(l).turns[s].prompt = v.turns[s].prompt
  BY <1>2, <1>3 DEF PutAt
<1>5. l.prompts = r.prompts /\ l.d = r.d
  BY <1>1 DEF Only, ReducerFields
<1>6. PromptsHeld(l)
  BY <1>4, <1>5, PromptsKept DEF Held, v
<1> QED
  BY <1>1, <1>6 DEF Held, l, v

\* A turn takes an error.
LEMMA MarkHeld ==
    ASSUME NEW r, NEW d, Held(r, d), NEW c, NEW n, Formed(ViewOf(r), c, n), NEW t, NEW err
    PROVE  LET l == MarkTurn(r, t, err)
           IN  /\ Held(l, d) /\ ViewOf(l) = SeeMark(ViewOf(r), t, err) /\ Only(r, l, {"turns", "dirty"})
               /\ \A s \in DOMAIN r.turns : s \in DOMAIN l.turns
<1> DEFINE a == LoadTurn(r, t)
           v == ViewOf(r)
           l == MarkTurn(r, t, err)
<1>1. /\ Held(a, d) /\ ViewOf(a) = v /\ Only(r, a, {"turns"})
      /\ t \in DOMAIN a.turns <=> t \in DOMAIN v.turns
      /\ t \in DOMAIN a.turns => a.turns[t] = v.turns[t]
      /\ \A s \in DOMAIN r.turns : s \in DOMAIN a.turns
  BY LoadTurnHeld
<1>2. l = IF t \in DOMAIN a.turns THEN PutTurn(a, t, [a.turns[t] EXCEPT !.errors = @ \/ err]) ELSE a
  BY DEF MarkTurn
<1> HIDE DEF a, v, l
<1>3. CASE t \notin DOMAIN v.turns
  <2>1. l = a /\ SeeMark(v, t, err) = v
    BY <1>1, <1>2, <1>3 DEF SeeMark
  <2>2. Only(r, a, {"turns", "dirty"})
    BY <1>1 DEF Only
  <2> QED
    BY <1>1, <2>1, <2>2 DEF l, v
<1>4. CASE t \in DOMAIN v.turns
  <2> DEFINE x == [v.turns[t] EXCEPT !.errors = @ \/ err]
  <2>1. l = PutTurn(a, t, x) /\ SeeMark(v, t, err) = SeeTurn(v, t, x)
    BY <1>1, <1>2, <1>4 DEF SeeMark
  <2>2. TurnRow(v.turns[t])
    BY <1>4 DEF Formed, TurnsFormed, v
  <2>3. x.prompt = v.turns[t].prompt
    BY <2>2 DEF TurnRow, TurnFields
  <2> HIDE DEF x
  <2>4. /\ Held(l, d) /\ ViewOf(l) = SeeTurn(v, t, x) /\ Only(a, l, {"turns", "dirty"})
        /\ DOMAIN l.turns = DOMAIN a.turns \cup {t}
    BY <1>1, <1>4, <2>1, <2>3, PutTurnHeld
  <2>5. Only(r, l, {"turns", "dirty"})
    BY <1>1, <2>4 DEF Only
  <2> QED
    BY <1>1, <2>1, <2>4, <2>5 DEF l, v
<1> QED
  BY <1>3, <1>4
OpsPart == {"ops", "newOps", "updated", "inputs", "queried"}

\* A step on the operations leaves the rest of the view alone.
LEMMA OpsStepHeld ==
    ASSUME NEW r, NEW d, Held(r, d), NEW l, Only(r, l, OpsPart),
           OpsHeld(l.ops, l.newOps, l.updated, l.inputs, d.ops), LookedUp(l.ops, l.queried, d.ops)
    PROVE  /\ Held(l, d) /\ ViewOf(l).st = ViewOf(r).st /\ ViewOf(l).turns = ViewOf(r).turns
           /\ ViewOf(l).items = ViewOf(r).items /\ ViewOf(l).usage = ViewOf(r).usage
           /\ ViewOf(l).ops = Onto(l.ops, d.ops) /\ ViewOf(r).ops = Onto(r.ops, d.ops)
<1>1. /\ l.d = r.d /\ l.st = r.st /\ l.start = r.start /\ l.turns = r.turns /\ l.dirty = r.dirty /\ l.items = r.items
      /\ l.prompts = r.prompts /\ l.usage = r.usage /\ IsReducer(l)
  BY DEF Only, ReducerFields, OpsPart
<1>2. HeldRows(l, d) /\ r.d = d
  BY <1>1 DEF Held, HeldRows
<1>3. /\ ViewOf(l).st = ViewOf(r).st /\ ViewOf(l).turns = ViewOf(r).turns
      /\ ViewOf(l).items = ViewOf(r).items /\ ViewOf(l).usage = ViewOf(r).usage
      /\ ViewOf(l).ops = Onto(l.ops, d.ops) /\ ViewOf(r).ops = Onto(r.ops, d.ops)
  BY <1>1, <1>2, ViewIs
<1>4. PromptsHeld(l)
  BY <1>1, <1>3, PromptsKept DEF Held
<1> QED
  BY <1>2, <1>3, <1>4 DEF Held

\* Operations are loaded.
LEMMA RememberHeld ==
    ASSUME NEW r, NEW d, Held(r, d), NEW keys \in SUBSET DOMAIN d.ops
    PROVE  LET l == RememberOps(r, keys)
           IN  /\ Held(l, d) /\ ViewOf(l) = ViewOf(r) /\ Only(r, l, {"ops"})
               /\ DOMAIN l.ops = DOMAIN r.ops \cup keys
               /\ \A k \in DOMAIN l.ops : l.ops[k] = ViewOf(r).ops[k]
<1> DEFINE l == RememberOps(r, keys)
           old == [k \in keys |-> d.ops[k]]
<1>0. /\ IsReducer(r) /\ r.d = d /\ OpsHeld(r.ops, r.newOps, r.updated, r.inputs, d.ops)
      /\ LookedUp(r.ops, r.queried, d.ops)
  BY DEF Held, HeldRows
<1>1. l = [r EXCEPT !.ops = Onto(r.ops, old)]
  BY <1>0 DEF RememberOps
<1>2. Only(r, l, {"ops"}) /\ l.ops = Onto(r.ops, old)
  BY <1>0, <1>1 DEF Only, IsReducer, ReducerFields
<1> HIDE DEF l
<1>3. /\ DOMAIN l.ops = DOMAIN r.ops \cup keys
      /\ \A k \in DOMAIN r.ops : l.ops[k] = r.ops[k]
      /\ \A k \in keys : k \notin DOMAIN r.ops => l.ops[k] = d.ops[k]
  BY <1>2 DEF Onto
<1>4. Only(r, l, OpsPart) /\ l.newOps = r.newOps /\ l.updated = r.updated /\ l.inputs = r.inputs /\ l.queried = r.queried
  BY <1>2 DEF Only, OpsPart, ReducerFields
<1>5. OpsHeld(l.ops, l.newOps, l.updated, l.inputs, d.ops)
  BY <1>0, <1>3, <1>4 DEF OpsHeld
<1>6. LookedUp(l.ops, l.queried, d.ops)
  BY <1>0, <1>3, <1>4 DEF LookedUp
<1>7. /\ Held(l, d) /\ ViewOf(l).st = ViewOf(r).st /\ ViewOf(l).turns = ViewOf(r).turns
      /\ ViewOf(l).items = ViewOf(r).items /\ ViewOf(l).usage = ViewOf(r).usage
      /\ ViewOf(l).ops = Onto(l.ops, d.ops) /\ ViewOf(r).ops = Onto(r.ops, d.ops)
  BY <1>4, <1>5, <1>6, OpsStepHeld
<1>8. Onto(l.ops, d.ops) = Onto(r.ops, d.ops)
  BY <1>2, LoadOnto
<1>9. ViewOf(l) = ViewOf(r)
  <2>1. ViewOf(l) = [f \in ViewFields |-> ViewOf(l)[f]] /\ ViewOf(r) = [f \in ViewFields |-> ViewOf(r)[f]]
    BY ViewIs
  <2> QED
    BY <1>7, <1>8, <2>1, SameView
<1>10. \A k \in DOMAIN l.ops : l.ops[k] = Onto(r.ops, d.ops)[k]
  BY <1>3 DEF Onto
<1> QED
  BY <1>2, <1>3, <1>7, <1>9, <1>10 DEF l

\* An operation's row is put.
LEMMA PutOpHeld ==
    ASSUME NEW r, NEW d, Held(r, d), NEW k \in DOMAIN r.ops, NEW x, NEW changed \in BOOLEAN,
           ~changed => x.input = r.ops[k].input
    PROVE  LET l == PutOp(r, k, x, changed)
           IN  Held(l, d) /\ ViewOf(l) = SeeOp(ViewOf(r), k, x) /\ Only(r, l, OpsPart)
<1> DEFINE l == PutOp(r, k, x, changed)
           v == ViewOf(r)
           w == SeeOp(v, k, x)
<1>0. /\ IsReducer(r) /\ r.d = d /\ OpsHeld(r.ops, r.newOps, r.updated, r.inputs, d.ops)
      /\ LookedUp(r.ops, r.queried, d.ops)
  BY DEF Held, HeldRows
<1>1. /\ Only(r, l, OpsPart) /\ l.ops = PutAt(r.ops, k, x) /\ l.newOps = r.newOps /\ l.queried = r.queried
      /\ l.updated = (IF k \in r.newOps THEN r.updated ELSE r.updated \cup {k})
      /\ l.inputs = (IF k \in r.newOps \/ ~changed THEN r.inputs ELSE r.inputs \cup {k})
  BY <1>0 DEF PutOp, Only, IsReducer, ReducerFields, OpsPart
<1> HIDE DEF l
<1>3. /\ DOMAIN l.ops = DOMAIN r.ops /\ l.ops[k] = x
      /\ \A j \in DOMAIN r.ops : j # k => l.ops[j] = r.ops[j]
  BY <1>1 DEF PutAt
<1>5. OpsHeld(l.ops, l.newOps, l.updated, l.inputs, d.ops)
  <2>1. l.newOps \subseteq DOMAIN l.ops /\ l.updated \subseteq DOMAIN l.ops /\ l.inputs \subseteq DOMAIN l.ops
    BY <1>0, <1>1, <1>3 DEF OpsHeld
  <2>2. ASSUME NEW j \in DOMAIN l.ops, j \notin l.newOps
        PROVE  /\ j \in DOMAIN d.ops
               /\ j \notin l.updated => l.ops[j] = d.ops[j]
               /\ j \notin l.inputs => l.ops[j].input = d.ops[j].input
    <3>1. CASE j = k
      BY <1>0, <1>1, <1>3, <2>2, <3>1 DEF OpsHeld
    <3>2. CASE j # k
      BY <1>0, <1>1, <1>3, <2>2, <3>2 DEF OpsHeld
    <3> QED
      BY <3>1, <3>2
  <2> QED
    BY <2>1, <2>2 DEF OpsHeld
<1>6. LookedUp(l.ops, l.queried, d.ops)
  BY <1>0, <1>1, <1>3 DEF LookedUp
<1>7. /\ Held(l, d) /\ ViewOf(l).st = v.st /\ ViewOf(l).turns = v.turns
      /\ ViewOf(l).items = v.items /\ ViewOf(l).usage = v.usage
      /\ ViewOf(l).ops = Onto(l.ops, d.ops) /\ v.ops = Onto(r.ops, d.ops)
  BY <1>1, <1>5, <1>6, OpsStepHeld
<1>8. Onto(l.ops, d.ops) = PutAt(v.ops, k, x)
  BY <1>1, <1>7, PutOnto
<1>9. v = [f \in ViewFields |-> v[f]] /\ ViewOf(l) = [f \in ViewFields |-> ViewOf(l)[f]]
  BY ViewIs
<1> HIDE DEF v
<1>10. /\ w = [f \in ViewFields |-> w[f]] /\ w.st = v.st /\ w.turns = v.turns
       /\ w.ops = PutAt(v.ops, k, x) /\ w.items = v.items /\ w.usage = v.usage
  BY <1>9 DEF SeeOp, ViewFields
<1> HIDE DEF w
<1>11. ViewOf(l) = w
  BY <1>7, <1>8, <1>9, <1>10, SameView
<1> QED
  BY <1>1, <1>7, <1>11 DEF l, v, w

\* A call is applied to a turn that is loaded.
LEMMA CallHeld ==
    ASSUME NEW r, NEW d, Held(r, d), NEW c, NEW n, Formed(ViewOf(r), c, n), NEW t \in DOMAIN r.turns, NEW e
    PROVE  LET l == ApplyCall(r, t, e)
           IN  /\ Held(l, d) /\ ViewOf(l) = SeeCall(ViewOf(r), t, e) /\ Only(r, l, OpsPart \cup {"turns", "dirty"})
               /\ t \in DOMAIN l.turns
<1> DEFINE v == ViewOf(r)
           x == WithCall(v.turns[t], e)
           k == <<t, v.turns[t].ops>>
           a == PutTurn(r, t, x)
           l == ApplyCall(r, t, e)
<1>1. v.turns = Onto(r.turns, d.turns) /\ t \in DOMAIN v.turns /\ r.turns[t] = v.turns[t] /\ IsReducer(r)
  <2>1. r.d = d /\ IsReducer(r)
    BY DEF Held, HeldRows
  <2>2. v.turns = Onto(r.turns, d.turns)
    BY <2>1, ViewIs
  <2> QED
    BY <2>1, <2>2 DEF Onto
<1>2. x.prompt = v.turns[t].prompt
  <2>1. TurnRow(v.turns[t])
    BY <1>1 DEF Formed, TurnsFormed
  <2> QED
    BY <2>1 DEF TurnRow, TurnFields, WithCall
<1>3. l = PutOp([a EXCEPT !.newOps = @ \cup {k}], k, NewOp(e), TRUE)
  <2>1. r.turns[t].ops = v.turns[t].ops /\ WithCall(r.turns[t], e) = x
    BY <1>1
  <2> HIDE DEF v, x
  <2> QED
    BY <2>1 DEF ApplyCall, WithCall
<1> HIDE DEF x
<1>4. /\ Held(a, d) /\ ViewOf(a) = SeeTurn(v, t, x) /\ Only(r, a, {"turns", "dirty"})
      /\ DOMAIN a.turns = DOMAIN r.turns \cup {t}
  BY <1>1, <1>2, PutTurnHeld
<1> HIDE DEF a, k, v
<1> DEFINE b == [a EXCEPT !.newOps = @ \cup {k}]
<1>5. /\ IsReducer(a) /\ a.d = d /\ OpsHeld(a.ops, a.newOps, a.updated, a.inputs, d.ops)
      /\ LookedUp(a.ops, a.queried, d.ops)
  BY <1>4 DEF Held, HeldRows
<1>6. /\ Only(a, b, {"newOps"}) /\ b.newOps = a.newOps \cup {k} /\ b.ops = a.ops /\ b.updated = a.updated
      /\ b.inputs = a.inputs /\ b.queried = a.queried /\ IsReducer(b)
  BY <1>5 DEF Only, IsReducer, ReducerFields
<1>7. l = PutOp(b, k, NewOp(e), TRUE)
  BY <1>3
<1> HIDE DEF b
<1>8. /\ Only(b, l, OpsPart) /\ l.ops = PutAt(b.ops, k, NewOp(e)) /\ l.newOps = b.newOps
      /\ l.queried = b.queried /\ l.updated = b.updated /\ l.inputs = b.inputs
  BY <1>6, <1>7 DEF PutOp, Only, IsReducer, ReducerFields, OpsPart
<1> HIDE DEF l
<1>9. Only(a, l, OpsPart)
  BY <1>6, <1>8 DEF Only, OpsPart
<1>10. /\ DOMAIN l.ops = DOMAIN a.ops \cup {k} /\ l.newOps = a.newOps \cup {k}
       /\ \A j \in DOMAIN a.ops : j # k => l.ops[j] = a.ops[j]
  BY <1>6, <1>8 DEF PutAt
<1>11. OpsHeld(l.ops, l.newOps, l.updated, l.inputs, d.ops)
  BY <1>5, <1>6, <1>8, <1>10 DEF OpsHeld
<1>12. LookedUp(l.ops, l.queried, d.ops)
  BY <1>5, <1>6, <1>8, <1>10 DEF LookedUp
<1> DEFINE u == ViewOf(a)
           w == SeeOp(u, k, NewOp(e))
<1>13. /\ Held(l, d) /\ ViewOf(l).st = u.st /\ ViewOf(l).turns = u.turns
       /\ ViewOf(l).items = u.items /\ ViewOf(l).usage = u.usage
       /\ ViewOf(l).ops = Onto(l.ops, d.ops) /\ u.ops = Onto(a.ops, d.ops)
  BY <1>4, <1>9, <1>11, <1>12, OpsStepHeld
<1>14. Onto(l.ops, d.ops) = PutAt(u.ops, k, NewOp(e))
  BY <1>6, <1>8, <1>13, PutOnto
<1>15. u = [f \in ViewFields |-> u[f]] /\ ViewOf(l) = [f \in ViewFields |-> ViewOf(l)[f]]
  BY ViewIs
<1> HIDE DEF u
<1>16. /\ w = [f \in ViewFields |-> w[f]] /\ w.st = u.st /\ w.turns = u.turns
       /\ w.ops = PutAt(u.ops, k, NewOp(e)) /\ w.items = u.items /\ w.usage = u.usage
  BY <1>15 DEF SeeOp, ViewFields
<1> HIDE DEF w
<1>17. ViewOf(l) = w
  BY <1>13, <1>14, <1>15, <1>16, SameView
<1>18. w = SeeCall(v, t, e)
  BY <1>4 DEF w, u, SeeCall, x, k
<1>19. l.turns = a.turns /\ Only(r, l, OpsPart \cup {"turns", "dirty"})
  BY <1>4, <1>9 DEF Only, OpsPart, ReducerFields
<1> QED
  BY <1>4, <1>13, <1>17, <1>18, <1>19 DEF l, v

\* A wait that is over ends the calls of its cell, loaded or not.
LEMMA CloseHeld ==
    ASSUME NEW r, NEW d, Held(r, d), NEW c, NEW n, Formed(ViewOf(r), c, n), NEW wait \in DOMAIN r.ops,
           NEW entry, NEW e
    PROVE  LET l == CloseWaitedCells(r, wait, entry, e)
           IN  /\ Held(l, d) /\ ViewOf(l) = SeeClosed(ViewOf(r), wait, entry, e) /\ Only(r, l, OpsPart)
               /\ wait \in DOMAIN l.ops /\ l.ops[wait] = r.ops[wait]
<1> DEFINE v == ViewOf(r)
           b == CloseWaitedCells(r, wait, entry, e)
           w == SeeClosed(v, wait, entry, e)
<1>0. r.d = d /\ IsReducer(r)
  BY DEF Held, HeldRows
<1>1. CASE entry.tool # "wait" \/ e.cell # None \/ entry.target = None
  <2>1. b = r /\ w = v
    BY <1>1 DEF CloseWaitedCells, SeeClosed
  <2>2. Only(r, r, OpsPart)
    BY <1>0 DEF Only
  <2> QED
    BY <2>1, <2>2
<1>2. CASE ~(entry.tool # "wait" \/ e.cell # None \/ entry.target = None)
  <2> DEFINE keys == {k \in DOMAIN d.ops : d.ops[k].running = entry.target}
             l == RememberOps(r, keys)
             ended == {k \in DOMAIN l.ops : l.ops[k].running = entry.target /\ k # wait}
             ops == [k \in DOMAIN l.ops |-> IF k \in ended THEN Ended(l.ops[k], e) ELSE l.ops[k]]
  <2>1. b = [l EXCEPT !.ops = ops, !.updated = @ \cup (ended \ l.newOps)]
    BY <1>0, <1>2 DEF CloseWaitedCells
  <2>2. keys \in SUBSET DOMAIN d.ops
    OBVIOUS
  <2> HIDE DEF keys
  <2>3. /\ Held(l, d) /\ ViewOf(l) = v /\ Only(r, l, {"ops"})
        /\ DOMAIN l.ops = DOMAIN r.ops \cup keys
        /\ \A k \in DOMAIN l.ops : l.ops[k] = v.ops[k]
    BY <2>2, RememberHeld
  <2> HIDE DEF l
  <2>4. /\ IsReducer(l) /\ OpsHeld(l.ops, l.newOps, l.updated, l.inputs, d.ops)
        /\ LookedUp(l.ops, l.queried, d.ops)
    BY <2>3 DEF Held, HeldRows
  <2>5. /\ Only(l, b, OpsPart) /\ b.ops = ops /\ b.updated = l.updated \cup (ended \ l.newOps)
        /\ b.newOps = l.newOps /\ b.inputs = l.inputs /\ b.queried = l.queried
    <3> HIDE DEF ops, ended, b
    <3> QED
      BY <2>1, <2>4 DEF Only, IsReducer, ReducerFields, OpsPart
  <2> HIDE DEF b
  <2>6. ended \subseteq DOMAIN l.ops /\ wait \notin ended /\ wait \in DOMAIN l.ops
    BY <2>3
  <2>7. v.ops = Onto(r.ops, d.ops) /\ v = [f \in ViewFields |-> v[f]]
    BY <1>0, ViewIs
  <2>8. DOMAIN l.ops \subseteq DOMAIN v.ops /\ \A k \in DOMAIN v.ops : k \notin DOMAIN l.ops => k \in DOMAIN d.ops /\ v.ops[k] = d.ops[k] /\ v.ops[k].running # entry.target
    <3>1. DOMAIN v.ops = DOMAIN r.ops \cup DOMAIN d.ops
      BY <2>7 DEF Onto
    <3>2. \A k \in DOMAIN v.ops : k \notin DOMAIN r.ops => v.ops[k] = d.ops[k]
      BY <2>7, <3>1 DEF Onto
    <3> HIDE DEF v
    <3> QED
      BY <2>2, <2>3, <3>1, <3>2 DEF keys
  <2>9. \A k \in DOMAIN v.ops : OpRow(v.ops[k])
    BY DEF Formed, OpsFormed
  <2> HIDE DEF v
  <2>10. \A k \in DOMAIN l.ops : Ended(l.ops[k], e).input = l.ops[k].input
    BY <2>3, <2>8, <2>9 DEF OpRow, OpFields, Ended
  <2>11. /\ DOMAIN ops = DOMAIN l.ops /\ \A k \in DOMAIN l.ops : ops[k].input = l.ops[k].input
         /\ \A k \in DOMAIN l.ops : k \notin ended => ops[k] = l.ops[k]
         /\ \A k \in ended : ops[k] = Ended(v.ops[k], e)
    BY <2>3, <2>10
  <2>12. \A k \in DOMAIN l.ops : k \in ended <=> v.ops[k].running = entry.target /\ k # wait
    BY <2>3
  <2> HIDE DEF ops, ended
  <2>13. OpsHeld(b.ops, b.newOps, b.updated, b.inputs, d.ops)
    BY <2>4, <2>5, <2>6, <2>11 DEF OpsHeld
  <2>14. LookedUp(b.ops, b.queried, d.ops)
    BY <2>4, <2>5, <2>11 DEF LookedUp
  <2>15. /\ Held(b, d) /\ ViewOf(b).st = v.st /\ ViewOf(b).turns = v.turns
         /\ ViewOf(b).items = v.items /\ ViewOf(b).usage = v.usage
         /\ ViewOf(b).ops = Onto(b.ops, d.ops)
    <3>0. Held(l, d) /\ Only(l, b, OpsPart)
      BY <2>3, <2>5
    <3>1. /\ Held(b, d) /\ ViewOf(b).st = ViewOf(l).st /\ ViewOf(b).turns = ViewOf(l).turns
          /\ ViewOf(b).items = ViewOf(l).items /\ ViewOf(b).usage = ViewOf(l).usage
          /\ ViewOf(b).ops = Onto(b.ops, d.ops)
      BY <3>0, <2>13, <2>14, OpsStepHeld
    <3> QED
      BY <2>3, <3>1
  <2> DEFINE closed == [k \in DOMAIN v.ops |-> IF v.ops[k].running = entry.target /\ k # wait
                                               THEN Ended(v.ops[k], e) ELSE v.ops[k]]
  <2>16. w = [v EXCEPT !.ops = closed]
    BY <1>2 DEF SeeClosed
  <2>17. Onto(ops, d.ops) = closed
    <3>1. DOMAIN Onto(ops, d.ops) = DOMAIN v.ops
      <4>1. DOMAIN v.ops = DOMAIN r.ops \cup DOMAIN d.ops
        BY <2>7 DEF Onto
      <4> QED
        BY <2>2, <2>3, <2>11, <4>1 DEF Onto
    <3>2. ASSUME NEW k \in DOMAIN v.ops PROVE Onto(ops, d.ops)[k] = closed[k]
      <4>1. CASE k \in ended
        <5>1. k \in DOMAIN ops /\ k \in DOMAIN l.ops
          BY <2>6, <2>11, <4>1
        <5>2. Onto(ops, d.ops)[k] = ops[k]
          BY <5>1 DEF Onto
        <5> QED
          BY <2>11, <2>12, <4>1, <5>1, <5>2
      <4>2. CASE k \notin ended /\ k \in DOMAIN l.ops
        <5>1. k \in DOMAIN ops
          BY <2>11, <4>2
        <5>2. Onto(ops, d.ops)[k] = ops[k]
          BY <5>1 DEF Onto
        <5> QED
          BY <2>3, <2>11, <2>12, <4>2, <5>2
      <4>3. CASE k \notin DOMAIN l.ops
        <5>1. k \notin DOMAIN ops /\ k \in DOMAIN d.ops
          BY <2>8, <2>11, <4>3
        <5>2. Onto(ops, d.ops)[k] = d.ops[k]
          BY <5>1 DEF Onto
        <5> QED
          BY <2>8, <4>3, <5>2
      <4> QED
        BY <4>1, <4>2, <4>3
    <3> HIDE DEF closed
    <3>3. closed = [k \in DOMAIN v.ops |-> closed[k]]
      BY DEF closed
    <3>4. Onto(ops, d.ops) = [k \in DOMAIN v.ops |-> Onto(ops, d.ops)[k]]
      BY <3>1 DEF Onto
    <3> QED
      BY <3>2, <3>3, <3>4
  <2> HIDE DEF closed
  <2>18. /\ w = [f \in ViewFields |-> w[f]] /\ w.st = v.st /\ w.turns = v.turns
         /\ w.ops = closed /\ w.items = v.items /\ w.usage = v.usage
    BY <2>7, <2>16 DEF ViewFields
  <2> HIDE DEF w
  <2>19. ViewOf(b) = [f \in ViewFields |-> ViewOf(b)[f]]
    BY ViewIs
  <2>20. ViewOf(b) = w
    BY <2>5, <2>15, <2>17, <2>18, <2>19, SameView
  <2>21. Only(r, b, OpsPart)
    BY <2>3, <2>5 DEF Only, OpsPart
  <2>22. wait \in DOMAIN b.ops /\ b.ops[wait] = r.ops[wait]
    <3>1. v.ops[wait] = r.ops[wait]
      BY <2>7 DEF Onto
    <3> QED
      BY <2>3, <2>5, <2>6, <2>11, <3>1
  <2> QED
    BY <2>15, <2>20, <2>21, <2>22 DEF b, w, v
<1> QED
  BY <1>1, <1>2

\* The latest of some loaded calls is the same in the view.
LEMMA LatestLoaded ==
    ASSUME NEW v, NEW c, NEW n, Formed(v, c, n), NEW l, NEW found \in SUBSET DOMAIN v.ops, found # {},
           \A k \in found : l.ops[k] = v.ops[k]
    PROVE  LatestOf(l, found) = LatestOf(v, found)
<1> DEFINE k == LatestOf(v, found)
           m == LatestOf(l, found)
<1>1. /\ k \in found /\ \A j \in found : v.ops[j].call <= v.ops[k].call
      /\ \A i \in found : (\A j \in found : v.ops[j].call <= v.ops[i].call) => i = k
  BY LatestIs
<1> HIDE DEF k
<1>2. \A j \in found : l.ops[j].call <= l.ops[k].call
  BY <1>1
<1>3. m \in found /\ \A j \in found : l.ops[j].call <= l.ops[m].call
  BY <1>1, <1>2 DEF LatestOf
<1> HIDE DEF m
<1>4. \A j \in found : v.ops[j].call <= v.ops[m].call
  BY <1>3
<1>5. m = k
  BY <1>1, <1>3, <1>4
<1> QED
  BY <1>5 DEF k, m

\* The rows are older than an event.
Before(d, i) == RowsStand(d) /\ i \in Nat /\ d.st.through < i

\* What is stored was called before.
LEMMA StoredBefore ==
    ASSUME NEW d, NEW i, Before(d, i)
    PROVE  \A k \in DOMAIN d.ops : d.ops[k].call \in Nat /\ d.ops[k].call <= d.st.through /\ d.ops[k].call < i
<1>1. CoreOf(d).ops = d.ops /\ d.st.through \in Nat
  BY DEF CoreOf, Before, RowsStand, Formed
<1>2. \A k \in DOMAIN d.ops : d.ops[k].call \in 1 .. d.st.through
  BY <1>1 DEF Before, RowsStand, Formed, OpsFormed
<1> QED
  BY <1>1, <1>2 DEF Before

\* The calls of a pair are loaded.
LEMMA PairLoaded ==
    ASSUME NEW r, NEW d, Held(r, d), NEW p, NEW i, Before(d, i)
    PROVE  LET l == OpsForPair(r, p, i)
           IN  /\ Held(l, d) /\ ViewOf(l) = ViewOf(r) /\ Only(r, l, OpsPart)
               /\ \A k \in DOMAIN r.ops : k \in DOMAIN l.ops
               /\ \A k \in DOMAIN l.ops : k \in DOMAIN ViewOf(r).ops /\ l.ops[k] = ViewOf(r).ops[k]
               /\ CalledBefore(l.ops, p, i) = CalledBefore(ViewOf(r).ops, p, i)
<1> DEFINE l == OpsForPair(r, p, i)
           v == ViewOf(r)
<1>0. /\ r.d = d /\ IsReducer(r) /\ LookedUp(r.ops, r.queried, d.ops)
      /\ OpsHeld(r.ops, r.newOps, r.updated, r.inputs, d.ops)
  BY DEF Held, HeldRows
<1>1. v.ops = Onto(r.ops, d.ops)
  BY <1>0, ViewIs
<1>2. ASSUME NEW a, Held(a, d), ViewOf(a) = v, \A k \in DOMAIN d.ops : d.ops[k].pair = p => k \in DOMAIN a.ops
      PROVE  /\ \A k \in DOMAIN a.ops : k \in DOMAIN v.ops /\ a.ops[k] = v.ops[k]
             /\ CalledBefore(a.ops, p, i) = CalledBefore(v.ops, p, i)
  <2>1. a.d = d
    BY <1>2 DEF Held, HeldRows
  <2>2. v.ops = Onto(a.ops, d.ops)
    BY <1>2, <2>1, ViewIs
  <2> HIDE DEF v
  <2>3. \A k \in DOMAIN a.ops : k \in DOMAIN v.ops /\ a.ops[k] = v.ops[k]
    BY <2>2 DEF Onto
  <2>4. \A k \in DOMAIN v.ops : k \notin DOMAIN a.ops => k \in DOMAIN d.ops /\ v.ops[k] = d.ops[k]
    BY <2>2 DEF Onto
  <2> QED
    BY <1>2, <2>3, <2>4 DEF CalledBefore
<1>3. CASE p \in r.queried
  <2>1. l = r
    BY <1>3 DEF OpsForPair
  <2>2. \A k \in DOMAIN d.ops : d.ops[k].pair = p => k \in DOMAIN r.ops
    BY <1>0, <1>3 DEF LookedUp
  <2>3. Only(r, r, OpsPart)
    BY <1>0 DEF Only
  <2>4. /\ \A k \in DOMAIN r.ops : k \in DOMAIN v.ops /\ r.ops[k] = v.ops[k]
        /\ CalledBefore(r.ops, p, i) = CalledBefore(v.ops, p, i)
    BY <1>2, <2>2
  <2> QED
    BY <2>1, <2>3, <2>4
<1>4. CASE p \notin r.queried
  <2> DEFINE keys == CalledBefore(d.ops, p, i)
             b == RememberOps(r, keys)
  <2>1. l = [b EXCEPT !.queried = @ \cup {p}]
    BY <1>0, <1>4 DEF OpsForPair
  <2>2. keys \in SUBSET DOMAIN d.ops /\ \A k \in DOMAIN d.ops : d.ops[k].pair = p => k \in keys
    BY StoredBefore DEF CalledBefore
  <2> HIDE DEF keys
  <2>3. Held(b, d) /\ ViewOf(b) = v /\ Only(r, b, {"ops"}) /\ DOMAIN b.ops = DOMAIN r.ops \cup keys
    BY <2>2, RememberHeld
  <2> HIDE DEF b
  <2>4. /\ IsReducer(b) /\ OpsHeld(b.ops, b.newOps, b.updated, b.inputs, d.ops)
        /\ LookedUp(b.ops, b.queried, d.ops)
    BY <2>3 DEF Held, HeldRows
  <2>5. /\ Only(b, l, {"queried"}) /\ l.queried = b.queried \cup {p} /\ l.ops = b.ops
        /\ l.newOps = b.newOps /\ l.updated = b.updated /\ l.inputs = b.inputs
    BY <2>1, <2>4 DEF Only, IsReducer, ReducerFields
  <2> HIDE DEF l
  <2>6. LookedUp(l.ops, l.queried, d.ops)
    BY <2>2, <2>3, <2>4, <2>5 DEF LookedUp
  <2>7. OpsHeld(l.ops, l.newOps, l.updated, l.inputs, d.ops)
    BY <2>4, <2>5
  <2>8. Only(b, l, OpsPart) /\ Held(b, d)
    BY <2>3, <2>5 DEF Only, OpsPart
  <2>9. /\ Held(l, d) /\ ViewOf(l).st = ViewOf(b).st /\ ViewOf(l).turns = ViewOf(b).turns
        /\ ViewOf(l).items = ViewOf(b).items /\ ViewOf(l).usage = ViewOf(b).usage
        /\ ViewOf(l).ops = Onto(l.ops, d.ops) /\ ViewOf(b).ops = Onto(b.ops, d.ops)
    BY <2>6, <2>7, <2>8, OpsStepHeld
  <2>10. ViewOf(l) = v
    <3>1. ViewOf(l) = [f \in ViewFields |-> ViewOf(l)[f]] /\ ViewOf(b) = [f \in ViewFields |-> ViewOf(b)[f]]
      BY ViewIs
    <3>2. ViewOf(l) = ViewOf(b)
      BY <2>5, <2>9, <3>1, SameView
    <3> QED
      BY <2>3, <3>2
  <2>11. Only(r, l, OpsPart)
    BY <2>3, <2>5 DEF Only, OpsPart
  <2>12. \A k \in DOMAIN d.ops : d.ops[k].pair = p => k \in DOMAIN l.ops
    BY <2>2, <2>3, <2>5
  <2>13. /\ \A k \in DOMAIN l.ops : k \in DOMAIN v.ops /\ l.ops[k] = v.ops[k]
         /\ CalledBefore(l.ops, p, i) = CalledBefore(v.ops, p, i)
    BY <1>2, <2>9, <2>10, <2>12
  <2>14. \A k \in DOMAIN r.ops : k \in DOMAIN l.ops
    BY <2>3, <2>5
  <2> QED
    BY <2>9, <2>10, <2>11, <2>13, <2>14 DEF l
<1> QED
  BY <1>3, <1>4

\* The latest call of a pair is loaded, and what is loaded of the pair has none later.
LEMMA LatestHeld ==
    ASSUME NEW r, NEW d, Held(r, d), NEW c, NEW n, Formed(ViewOf(r), c, n), NEW p, NEW i, Before(d, i)
    PROVE  LET l == LoadLatest(r, p, i)
               seen == CalledBefore(l.ops, p, i)
               found == CalledBefore(ViewOf(r).ops, p, i)
           IN  /\ Held(l, d) /\ ViewOf(l) = ViewOf(r) /\ Only(r, l, OpsPart)
               /\ seen = {} <=> found = {}
               /\ found # {} => /\ LatestOf(l, seen) = LatestOf(ViewOf(r), found)
                                /\ LatestOf(l, seen) \in DOMAIN l.ops /\ LatestOf(l, seen) \in DOMAIN ViewOf(r).ops
                                /\ l.ops[LatestOf(l, seen)] = ViewOf(r).ops[LatestOf(l, seen)]
<1> DEFINE v == ViewOf(r)
           l == LoadLatest(r, p, i)
           found == CalledBefore(v.ops, p, i)
           local == CalledBefore(r.ops, p, i)
<1>0. r.d = d /\ IsReducer(r) /\ r.start = d.st.through
  BY DEF Held, HeldRows
<1>1. v.ops = Onto(r.ops, d.ops)
  BY <1>0, ViewIs
<1>2. found \in SUBSET DOMAIN v.ops
  BY DEF CalledBefore
<1>3. CASE local # {} /\ r.ops[LatestOf(r, local)].call > r.start
  <2>1. l = r
    BY <1>3 DEF LoadLatest
  <2> HIDE DEF v
  <2>2. \A k \in DOMAIN r.ops : k \in DOMAIN v.ops /\ r.ops[k] = v.ops[k]
    BY <1>1 DEF Onto
  <2>3. \A k \in DOMAIN v.ops : k \notin DOMAIN r.ops => k \in DOMAIN d.ops /\ v.ops[k] = d.ops[k]
    BY <1>1 DEF Onto
  <2>4. local \in SUBSET DOMAIN v.ops /\ local \subseteq found /\ local \subseteq DOMAIN r.ops
    BY <2>2 DEF CalledBefore
  <2> DEFINE k == LatestOf(r, local)
  <2>5. \A j \in local : r.ops[j] = v.ops[j]
    BY <2>2, <2>4
  <2> HIDE DEF local
  <2>6. k = LatestOf(v, local)
    BY <1>3, <2>4, <2>5, LatestLoaded DEF v
  <2>7. k \in local /\ \A j \in local : v.ops[j].call <= v.ops[k].call
    BY <1>3, <2>4, <2>6, LatestIs DEF v
  <2>8. v.ops[k].call > r.start
    BY <1>3, <2>5, <2>7
  <2> HIDE DEF k
  <2>9. ASSUME NEW j \in found PROVE v.ops[j].call <= v.ops[k].call
    <3>1. CASE j \in DOMAIN r.ops
      <4>1. j \in local
        BY <2>2, <3>1 DEF local, CalledBefore
      <4> QED
        BY <2>7, <4>1
    <3>2. CASE j \notin DOMAIN r.ops
      <4>1. j \in DOMAIN v.ops
        BY <1>2
      <4>2. j \in DOMAIN d.ops /\ v.ops[j] = d.ops[j]
        BY <2>3, <3>2, <4>1
      <4>3. d.ops[j].call \in Nat /\ d.ops[j].call <= d.st.through
        BY <4>2, StoredBefore
      <4>4. v.ops[k].call \in Nat /\ d.st.through \in Nat
        <5>1. k \in DOMAIN v.ops
          BY <2>4, <2>7
        <5>2. \A x \in DOMAIN v.ops : v.ops[x].call \in 1 .. c
          BY DEF Formed, OpsFormed, v
        <5> QED
          BY <5>1, <5>2 DEF Before, RowsStand, Formed
      <4> QED
        BY <1>0, <2>8, <4>2, <4>3, <4>4
    <3> QED
      BY <3>1, <3>2
  <2>10. k \in found /\ found # {}
    BY <2>4, <2>7
  <2>11. k = LatestOf(v, found)
    BY <1>2, <2>9, <2>10, LatestIs DEF v
  <2>12. Only(r, r, OpsPart)
    BY <1>0 DEF Only
  <2>13. k \in DOMAIN r.ops /\ k \in DOMAIN v.ops /\ r.ops[k] = v.ops[k]
    BY <2>2, <2>4, <2>7
  <2> HIDE DEF l, found
  <2> QED
    BY <1>3, <2>1, <2>10, <2>11, <2>12, <2>13 DEF k, local, l, v, found
<1>4. CASE ~(local # {} /\ r.ops[LatestOf(r, local)].call > r.start)
  <2>1. l = OpsForPair(r, p, i)
    BY <1>4 DEF LoadLatest
  <2>2. /\ Held(l, d) /\ ViewOf(l) = v /\ Only(r, l, OpsPart)
        /\ \A k \in DOMAIN l.ops : k \in DOMAIN v.ops /\ l.ops[k] = v.ops[k]
        /\ CalledBefore(l.ops, p, i) = found
    BY <2>1, PairLoaded
  <2>3. found \subseteq DOMAIN l.ops
    BY <2>2 DEF CalledBefore
  <2> HIDE DEF l, v, found
  <2>4. ASSUME found # {}
        PROVE  /\ LatestOf(l, found) = LatestOf(v, found)
               /\ LatestOf(l, found) \in found
    <3>1. LatestOf(l, found) = LatestOf(v, found)
      BY <1>2, <2>2, <2>3, <2>4, LatestLoaded DEF v
    <3>2. LatestOf(v, found) \in found
      BY <1>2, <2>4, LatestIs DEF v
    <3> QED
      BY <3>1, <3>2
  <2> QED
    BY <2>2, <2>3, <2>4 DEF l, v, found
<1> QED
  BY <1>3, <1>4
WorkPart == OpsPart \cup {"turns", "dirty"}

\* Steps on turns and operations, one after the other.
LEMMA OnlyTwice ==
    ASSUME NEW r, NEW a, NEW b, NEW S, NEW T, NEW U, Only(r, a, S), Only(a, b, T), S \subseteq U, T \subseteq U
    PROVE  Only(r, b, U)
BY DEF Only

\* A result is applied.
LEMMA ResultHeld ==
    ASSUME NEW r, NEW d, Held(r, d), NEW c, NEW n, Formed(ViewOf(r), c, n), NEW t, NEW e, Before(d, e.at)
    PROVE  LET l == ApplyResult(r, t, e)
           IN  Held(l, d) /\ ViewOf(l) = SeeResult(ViewOf(r), t, e) /\ Only(r, l, WorkPart)
<1> DEFINE v == ViewOf(r)
           m == IF e.err THEN MarkTurn(r, t, TRUE) ELSE r
           vm == IF e.err THEN SeeMark(v, t, TRUE) ELSE v
           l == LoadLatest(m, e.id, e.at)
           seen == CalledBefore(l.ops, e.id, e.at)
           found == CalledBefore(vm.ops, e.id, e.at)
<1>0. IsReducer(r)
  BY DEF Held, HeldRows
<1>1. Held(m, d) /\ ViewOf(m) = vm /\ Only(r, m, WorkPart) /\ Formed(vm, c, n)
  <2>1. CASE e.err
    <3>1. ASSUME NEW err PROVE /\ Held(MarkTurn(r, t, err), d) /\ ViewOf(MarkTurn(r, t, err)) = SeeMark(v, t, err)
                               /\ Only(r, MarkTurn(r, t, err), {"turns", "dirty"}) /\ Formed(SeeMark(v, t, err), c, n)
      BY MarkHeld, MarkFormed
    <3> HIDE DEF v
    <3>2. /\ Held(MarkTurn(r, t, TRUE), d) /\ ViewOf(MarkTurn(r, t, TRUE)) = SeeMark(v, t, TRUE)
          /\ Only(r, MarkTurn(r, t, TRUE), {"turns", "dirty"}) /\ Formed(SeeMark(v, t, TRUE), c, n)
      BY <3>1, Zenon
    <3>3. m = MarkTurn(r, t, TRUE) /\ vm = SeeMark(v, t, TRUE)
      BY <2>1
    <3> HIDE DEF m, vm
    <3>4. Only(r, m, WorkPart)
      BY <3>2, <3>3 DEF Only, WorkPart
    <3> QED
      BY <3>2, <3>3, <3>4
  <2>2. CASE ~e.err
    <3>1. m = r /\ vm = v
      BY <2>2
    <3> HIDE DEF m, vm
    <3> QED
      BY <1>0, <3>1 DEF Only
  <2> QED
    BY <2>1, <2>2
<1>2. SeeResult(v, t, e) = IF found = {} THEN vm ELSE SeeAnswer(vm, LatestOf(vm, found), e)
  BY DEF SeeResult
<1> DEFINE k == LatestOf(l, seen)
           entry == SetResult(l.ops[k], e)
           b == CloseWaitedCells(l, k, entry, e)
           put == PutOp(b, k, entry, FALSE)
<1>3. ApplyResult(r, t, e) = IF seen = {} THEN l ELSE MarkTurn(put, k[1], Failed(entry))
  BY DEF ApplyResult
<1> HIDE DEF m, vm, v
<1>4. /\ Held(l, d) /\ ViewOf(l) = vm /\ Only(m, l, OpsPart) /\ (seen = {} <=> found = {})
      /\ found # {} => /\ k = LatestOf(vm, found) /\ k \in DOMAIN l.ops /\ k \in DOMAIN vm.ops
                       /\ l.ops[k] = vm.ops[k]
  <2>1. Formed(ViewOf(m), c, n) /\ Held(m, d)
    BY <1>1
  <2> HIDE DEF l, seen, found, k
  <2>2. LET a == LoadLatest(m, e.id, e.at)
            s == CalledBefore(a.ops, e.id, e.at)
            f == CalledBefore(ViewOf(m).ops, e.id, e.at)
        IN  /\ Held(a, d) /\ ViewOf(a) = ViewOf(m) /\ Only(m, a, OpsPart)
            /\ s = {} <=> f = {}
            /\ f # {} => /\ LatestOf(a, s) = LatestOf(ViewOf(m), f)
                         /\ LatestOf(a, s) \in DOMAIN a.ops /\ LatestOf(a, s) \in DOMAIN ViewOf(m).ops
                         /\ a.ops[LatestOf(a, s)] = ViewOf(m).ops[LatestOf(a, s)]
    BY <2>1, LatestHeld
  <2> QED
    BY <1>1, <2>2 DEF l, seen, found, k
<1> HIDE DEF l, seen, found, k
<1>5. Only(r, l, WorkPart)
  BY <1>1, <1>4, OnlyTwice DEF WorkPart
<1>6. CASE found = {}
  BY <1>2, <1>3, <1>4, <1>5, <1>6 DEF v
<1>7. CASE found # {}
  <2>1. OpRow(vm.ops[k]) /\ k \in DOMAIN vm.ops
    BY <1>1, <1>4, <1>7 DEF Formed, OpsFormed
  <2>2. entry = SetResult(vm.ops[k], e) /\ entry.input = l.ops[k].input /\ OpRow(entry) /\ entry.call = vm.ops[k].call
    <3>1. l.ops[k] = vm.ops[k]
      BY <1>4, <1>7
    <3> QED
      BY <2>1, <3>1 DEF SetResult, OpRow, OpFields
  <2> HIDE DEF entry
  <2> DEFINE vb == SeeClosed(vm, k, entry, e)
  <2>3. /\ Held(b, d) /\ ViewOf(b) = vb /\ Only(l, b, OpsPart)
        /\ k \in DOMAIN b.ops /\ b.ops[k] = l.ops[k]
    <3>1. Formed(ViewOf(l), c, n) /\ k \in DOMAIN l.ops
      BY <1>1, <1>4, <1>7
    <3>2. LET a == CloseWaitedCells(l, k, entry, e)
          IN  /\ Held(a, d) /\ ViewOf(a) = SeeClosed(ViewOf(l), k, entry, e) /\ Only(l, a, OpsPart)
              /\ k \in DOMAIN a.ops /\ a.ops[k] = l.ops[k]
      BY <1>4, <3>1, CloseHeld
    <3> QED
      BY <1>4, <3>2
  <2>4. Formed(vb, c, n) /\ OpsKept(vm, vb, {})
    BY <1>1, ClosedFormed
  <2> HIDE DEF b, vb
  <2>5. /\ Held(put, d) /\ ViewOf(put) = SeeOp(vb, k, entry) /\ Only(b, put, OpsPart)
    <3>1. entry.input = b.ops[k].input
      BY <2>2, <2>3
    <3>2. LET a == PutOp(b, k, entry, FALSE)
          IN  Held(a, d) /\ ViewOf(a) = SeeOp(ViewOf(b), k, entry) /\ Only(b, a, OpsPart)
      <4>1. ASSUME NEW ch \in BOOLEAN
            PROVE  Held(PutOp(b, k, entry, ch), d) /\ ViewOf(PutOp(b, k, entry, ch)) = SeeOp(ViewOf(b), k, entry)
                   /\ Only(b, PutOp(b, k, entry, ch), OpsPart)
        BY <2>3, <3>1, PutOpHeld
      <4> QED
        BY <4>1, Zenon
    <3> QED
      BY <2>3, <3>2
  <2>6. Formed(SeeOp(vb, k, entry), c, n)
    <3>1. k \in DOMAIN vb.ops /\ entry.call = vb.ops[k].call
      BY <2>1, <2>2, <2>4 DEF OpsKept
    <3> QED
      BY <2>2, <2>4, <3>1, OpReplaced
  <2> HIDE DEF put
  <2>7. PICK err : err = Failed(entry)
    OBVIOUS
  <2>8. /\ Held(MarkTurn(put, k[1], err), d) /\ ViewOf(MarkTurn(put, k[1], err)) = SeeMark(SeeOp(vb, k, entry), k[1], err)
        /\ Only(put, MarkTurn(put, k[1], err), {"turns", "dirty"})
    <3>1. Formed(ViewOf(put), c, n)
      BY <2>5, <2>6
    <3> QED
      BY <2>5, <3>1, MarkHeld
  <2>9. ApplyResult(r, t, e) = MarkTurn(put, k[1], err)
    BY <1>3, <1>4, <1>7, <2>7
  <2>10. SeeResult(v, t, e) = SeeMark(SeeOp(vb, k, entry), k[1], err)
    <3>1. SeeResult(v, t, e) = SeeAnswer(vm, k, e)
      BY <1>2, <1>4, <1>7
    <3> QED
      BY <2>2, <2>7, <3>1 DEF SeeAnswer, vb
  <2>11. Only(r, MarkTurn(put, k[1], err), WorkPart)
    <3>1. Only(l, put, OpsPart)
      BY <2>3, <2>5, OnlyTwice
    <3>2. Only(r, put, WorkPart)
      BY <1>5, <3>1, OnlyTwice DEF WorkPart
    <3> QED
      BY <2>8, <3>2, OnlyTwice DEF WorkPart
  <2> QED
    BY <2>8, <2>9, <2>10, <2>11 DEF v
<1> QED
  BY <1>6, <1>7

\* Evidence is put on a loaded call.
LEMMA EvidenceHeld ==
    ASSUME NEW r, NEW d, Held(r, d), NEW c, NEW n, Formed(ViewOf(r), c, n), NEW k \in DOMAIN r.ops, NEW e
    PROVE  LET l == AttachEvidence(r, k, e)
           IN  Held(l, d) /\ ViewOf(l) = SeeEvidence(ViewOf(r), k, e) /\ Only(r, l, WorkPart)
<1> DEFINE v == ViewOf(r)
           entry == WithEvidence(v.ops[k], e)
           put == PutOp(r, k, entry, TRUE)
<1>1. k \in DOMAIN v.ops /\ r.ops[k] = v.ops[k]
  <2>1. r.d = d
    BY DEF Held, HeldRows
  <2>2. v.ops = Onto(r.ops, d.ops)
    BY <2>1, ViewIs
  <2> QED
    BY <2>2 DEF Onto
<1>2. OpRow(v.ops[k])
  BY <1>1 DEF Formed, OpsFormed
<1>3. PICK err : err = Failed(entry)
  OBVIOUS
<1>4. AttachEvidence(r, k, e) = MarkTurn(put, k[1], err) /\ SeeEvidence(v, k, e) = SeeMark(SeeOp(v, k, entry), k[1], err)
  BY <1>1, <1>3 DEF AttachEvidence, SeeEvidence
<1> HIDE DEF entry
<1>5. Held(put, d) /\ ViewOf(put) = SeeOp(v, k, entry) /\ Only(r, put, OpsPart)
  <2>1. ASSUME NEW ch \in BOOLEAN, ch
        PROVE  Held(PutOp(r, k, entry, ch), d) /\ ViewOf(PutOp(r, k, entry, ch)) = SeeOp(ViewOf(r), k, entry)
               /\ Only(r, PutOp(r, k, entry, ch), OpsPart)
    BY <2>1, PutOpHeld
  <2> QED
    BY <2>1, Zenon
<1>6. Formed(SeeEvidence(v, k, e), c, n) /\ Formed(SeeOp(v, k, entry), c, n)
  <2>1. OpRow(entry) /\ entry.call = v.ops[k].call
    <3>1. /\ entry = [f \in OpFields |-> entry[f]] /\ entry.call = v.ops[k].call
          /\ entry.pending = v.ops[k].pending
          /\ entry.input = Append(v.ops[k].input, e.at)
          /\ ~v.ops[k].pending => entry.payload = Append(v.ops[k].payload, e.at)
      BY <1>2 DEF OpRow, OpFields, WithEvidence, entry
    <3> QED
      BY <1>2, <3>1 DEF OpRow
  <2>2. Formed(SeeOp(v, k, entry), c, n)
    BY <1>1, <2>1, OpReplaced
  <2> QED
    BY <1>1, <2>2, EvidenceFormed
<1> HIDE DEF put, v
<1>7. /\ Held(MarkTurn(put, k[1], err), d) /\ ViewOf(MarkTurn(put, k[1], err)) = SeeMark(SeeOp(v, k, entry), k[1], err)
      /\ Only(put, MarkTurn(put, k[1], err), {"turns", "dirty"})
  <2>1. Formed(ViewOf(put), c, n)
    BY <1>5, <1>6
  <2> QED
    BY <1>5, <2>1, MarkHeld
<1>8. Only(r, MarkTurn(put, k[1], err), WorkPart)
  BY <1>5, <1>7, OnlyTwice DEF WorkPart
<1> QED
  BY <1>4, <1>7, <1>8 DEF v

\* Evidence finds the same call as it would in the view.
LEMMA RuntimeHeld ==
    ASSUME NEW r, NEW d, Held(r, d), NEW c, NEW n, Formed(ViewOf(r), c, n), NEW e, Before(d, e.at)
    PROVE  LET l == CorrelateRuntime(r, e)
           IN  Held(l, d) /\ ViewOf(l) = SeeRuntime(ViewOf(r), e) /\ Only(r, l, WorkPart)
<1> DEFINE v == ViewOf(r)
           l == OpsForPair(r, e.id, e.at)
           exact == CalledBefore(l.ops, e.id, e.at)
           keys == ExecCandidates(d.ops, e.at, e.start)
           m == IF exact # {} THEN l ELSE RememberOps(l, keys)
           owners == IF exact # {} THEN exact
                     ELSE {k \in ExecCandidates(m.ops, e.at, e.start) : m.ops[k].pair # e.id}
<1>1. /\ Held(l, d) /\ ViewOf(l) = v /\ Only(r, l, OpsPart) /\ exact = CalledBefore(v.ops, e.id, e.at)
      /\ \A k \in DOMAIN l.ops : k \in DOMAIN v.ops /\ l.ops[k] = v.ops[k]
  BY PairLoaded
<1>2. l.d = d
  BY <1>1 DEF Held, HeldRows
<1>3. CorrelateRuntime(r, e) = IF Cardinality(owners) # 1 THEN m ELSE AttachEvidence(m, CHOOSE k \in owners : TRUE, e)
  BY <1>2 DEF CorrelateRuntime
<1>4. exact \subseteq DOMAIN l.ops /\ keys \in SUBSET DOMAIN d.ops
  BY DEF CalledBefore, ExecCandidates
<1> HIDE DEF l, v, exact, keys
<1>5. /\ Held(m, d) /\ ViewOf(m) = v /\ Only(r, m, OpsPart) /\ owners = OwnersOf(v, e)
      /\ owners \subseteq DOMAIN m.ops
  <2>1. CASE exact # {}
    <3>1. m = l /\ owners = exact
      BY <2>1
    <3>2. OwnersOf(v, e) = exact
      BY <1>1, <2>1 DEF OwnersOf
    <3> HIDE DEF m, owners
    <3> QED
      BY <1>1, <1>4, <3>1, <3>2
  <2>2. CASE exact = {}
    <3>1. m = RememberOps(l, keys)
      BY <2>2
    <3>2. /\ Held(m, d) /\ ViewOf(m) = v /\ Only(l, m, {"ops"}) /\ DOMAIN m.ops = DOMAIN l.ops \cup keys
          /\ \A k \in DOMAIN m.ops : m.ops[k] = v.ops[k]
      <4>1. LET a == RememberOps(l, keys)
            IN  /\ Held(a, d) /\ ViewOf(a) = ViewOf(l) /\ Only(l, a, {"ops"}) /\ DOMAIN a.ops = DOMAIN l.ops \cup keys
                /\ \A k \in DOMAIN a.ops : a.ops[k] = ViewOf(l).ops[k]
        BY <1>1, <1>4, RememberHeld
      <4> HIDE DEF m
      <4> QED
        BY <1>1, <3>1, <4>1
    <3>3. owners = {k \in ExecCandidates(m.ops, e.at, e.start) : m.ops[k].pair # e.id}
      BY <2>2
    <3> HIDE DEF m, owners
    <3>4. Only(r, m, OpsPart)
      BY <1>1, <3>2 DEF Only, OpsPart
    <3>5. m.d = d /\ v.ops = Onto(m.ops, d.ops)
      <4>1. m.d = d
        BY <3>2 DEF Held, HeldRows
      <4>2. ViewOf(m).ops = Onto(m.ops, m.d.ops)
        BY ViewIs
      <4> QED
        BY <3>2, <4>1, <4>2
    <3>6. /\ \A k \in DOMAIN m.ops : k \in DOMAIN v.ops
          /\ \A k \in DOMAIN v.ops : k \notin DOMAIN m.ops => k \in DOMAIN d.ops /\ v.ops[k] = d.ops[k]
      BY <3>5 DEF Onto
    <3>7. ExecCandidates(m.ops, e.at, e.start) = ExecCandidates(v.ops, e.at, e.start)
      BY <3>2, <3>6 DEF ExecCandidates, keys
    <3>8. ExecCandidates(m.ops, e.at, e.start) \subseteq DOMAIN m.ops
      BY DEF ExecCandidates
    <3>9. OwnersOf(v, e) = {k \in ExecCandidates(v.ops, e.at, e.start) : v.ops[k].pair # e.id}
      BY <1>1, <2>2 DEF OwnersOf
    <3> QED
      BY <3>2, <3>3, <3>4, <3>7, <3>8, <3>9
  <2> QED
    BY <2>1, <2>2
<1> HIDE DEF m, owners
<1>6. CASE Cardinality(owners) # 1
  <2>1. CorrelateRuntime(r, e) = m /\ SeeRuntime(v, e) = v
    BY <1>3, <1>5, <1>6 DEF SeeRuntime
  <2>2. Only(r, m, WorkPart)
    BY <1>5 DEF Only, WorkPart
  <2> QED
    BY <1>5, <2>1, <2>2 DEF v
<1>7. CASE Cardinality(owners) = 1
  <2> DEFINE k == CHOOSE x \in owners : TRUE
  <2>1. owners # {}
    BY <1>7, FS_EmptySet
  <2>2. k \in DOMAIN m.ops
    BY <1>5, <2>1
  <2>3. CorrelateRuntime(r, e) = AttachEvidence(m, k, e) /\ SeeRuntime(v, e) = SeeEvidence(v, k, e)
    BY <1>3, <1>5, <1>7 DEF SeeRuntime
  <2> HIDE DEF k
  <2>4. Formed(ViewOf(m), c, n)
    BY <1>5 DEF v
  <2>5. LET a == AttachEvidence(m, k, e)
        IN  Held(a, d) /\ ViewOf(a) = SeeEvidence(ViewOf(m), k, e) /\ Only(m, a, WorkPart)
    BY <1>5, <2>2, <2>4, EvidenceHeld
  <2>6. Only(r, AttachEvidence(m, k, e), WorkPart)
    BY <1>5, <2>5, OnlyTwice DEF WorkPart
  <2> QED
    BY <1>5, <2>3, <2>5, <2>6 DEF v
<1> QED
  BY <1>6, <1>7

RestPart == {"st", "usage", "items", "links"}

\* A step on the rest leaves turns and operations alone.
LEMMA RestHeld ==
    ASSUME NEW r, NEW d, Held(r, d), NEW l, Only(r, l, RestPart)
    PROVE  /\ Held(l, d) /\ ViewOf(l).turns = ViewOf(r).turns /\ ViewOf(l).ops = ViewOf(r).ops
           /\ ViewOf(l).st = l.st /\ ViewOf(l).items = d.items \cup l.items /\ ViewOf(l).usage = Onto(l.usage, d.usage)
           /\ ViewOf(r).st = r.st /\ ViewOf(r).items = d.items \cup r.items /\ ViewOf(r).usage = Onto(r.usage, d.usage)
           /\ l.turns = r.turns
<1>1. /\ l.d = r.d /\ l.start = r.start /\ l.turns = r.turns /\ l.dirty = r.dirty /\ l.ops = r.ops
      /\ l.newOps = r.newOps /\ l.updated = r.updated /\ l.inputs = r.inputs /\ l.queried = r.queried
      /\ l.prompts = r.prompts /\ IsReducer(l)
  BY DEF Only, ReducerFields, RestPart
<1>2. HeldRows(l, d) /\ r.d = d
  BY <1>1 DEF Held, HeldRows
<1>3. ViewOf(l).turns = ViewOf(r).turns /\ ViewOf(l).ops = ViewOf(r).ops
  BY <1>1, ViewIs
<1>4. PromptsHeld(l)
  BY <1>1, <1>3, PromptsKept DEF Held
<1>5. /\ ViewOf(l).st = l.st /\ ViewOf(l).items = d.items \cup l.items /\ ViewOf(l).usage = Onto(l.usage, d.usage)
      /\ ViewOf(r).st = r.st /\ ViewOf(r).items = d.items \cup r.items /\ ViewOf(r).usage = Onto(r.usage, d.usage)
  BY <1>1, <1>2, ViewIs
<1> QED
  BY <1>1, <1>2, <1>3, <1>4, <1>5 DEF Held

\* Two reducers whose views differ in the state of the session.
LEMMA StateHeld ==
    ASSUME NEW r, NEW d, Held(r, d), NEW l, Only(r, l, {"st"})
    PROVE  Held(l, d) /\ ViewOf(l) = [ViewOf(r) EXCEPT !.st = l.st] /\ l.turns = r.turns
<1> DEFINE v == ViewOf(r)
           w == [v EXCEPT !.st = l.st]
           u == ViewOf(l)
<1>0. Only(r, l, RestPart) /\ l.usage = r.usage /\ l.items = r.items
  BY DEF Only, RestPart, ReducerFields
<1>1. /\ Held(l, d) /\ u.turns = v.turns /\ u.ops = v.ops
      /\ u.st = l.st /\ u.items = d.items \cup l.items /\ u.usage = Onto(l.usage, d.usage)
      /\ v.items = d.items \cup r.items /\ v.usage = Onto(r.usage, d.usage) /\ l.turns = r.turns
  BY <1>0, RestHeld
<1>2. v = [f \in ViewFields |-> v[f]] /\ u = [f \in ViewFields |-> u[f]]
  BY ViewIs
<1> HIDE DEF v, u
<1>3. /\ w = [f \in ViewFields |-> w[f]] /\ w.st = l.st /\ w.turns = v.turns
      /\ w.ops = v.ops /\ w.items = v.items /\ w.usage = v.usage
  BY <1>2 DEF ViewFields
<1> HIDE DEF w
<1>4. u.st = w.st /\ u.turns = w.turns /\ u.ops = w.ops /\ u.items = w.items /\ u.usage = w.usage
  BY <1>0, <1>1, <1>3
<1>5. u = w
  BY <1>2, <1>3, <1>4, SameView
<1> QED
  BY <1>1, <1>5 DEF u, w, v

\* The prompts a reducer knows once it has taken up that of an event.
PromptsWith(r, e, prompt) ==
    \A u : u # None => (PromptSeen(r, u) <=> (Asked(ViewOf(r), u) \/ (prompt /\ u = e.id)))
LinksWith(links, e) == IF e.side /\ e.link # None THEN links \cup {<<e.link, e.at>>} ELSE links

\* A turn is opened.
LEMMA CreateHeld ==
    ASSUME NEW r, NEW d, HeldRows(r, d), NEW e, Later(ViewOf(r), e), NEW prompt \in BOOLEAN,
           PromptsWith(r, e, prompt)
    PROVE  LET l == CreateTurn(r, e, prompt)
           IN  /\ Held(l, d) /\ ViewOf(l) = SeeCreated(ViewOf(r), e, prompt) /\ l.links = LinksWith(r.links, e)
<1> DEFINE v == ViewOf(r)
           new == NewTurn(r.st, e, prompt)
           a == PutTurn(r, e.at, new)
           st == Opened(a.st, e, prompt)
           l == CreateTurn(r, e, prompt)
           w == SeeCreated(v, e, prompt)
           u == ViewOf(l)
<1>0. /\ IsReducer(r) /\ r.d = d /\ v.st = r.st /\ v = [f \in ViewFields |-> v[f]]
  BY ViewIs DEF HeldRows
<1>1. /\ HeldRows(a, d) /\ ViewOf(a) = SeeTurn(v, e.at, new) /\ Only(r, a, {"turns", "dirty"})
  BY PutTurnRows
<1>2. l = [a EXCEPT !.st = st, !.links = LinksWith(a.links, e)]
  BY DEF CreateTurn, LinksWith
<1>3. w = [v EXCEPT !.turns = PutAt(v.turns, e.at, new), !.st = Opened(v.st, e, prompt)]
  BY <1>0 DEF SeeCreated
<1>4. new.prompt = IF prompt THEN e.id ELSE None
  BY DEF NewTurn
<1>5. e.at \notin DOMAIN v.turns
  BY CreatedFormed
<1> HIDE DEF a, new, v, w, l
<1>6. /\ IsReducer(a) /\ a.d = d /\ a.st = r.st /\ a.links = r.links /\ a.prompts = r.prompts
  BY <1>1 DEF HeldRows, Only, ReducerFields
<1>7. /\ Only(a, l, {"st", "links"}) /\ l.st = Opened(v.st, e, prompt) /\ l.links = LinksWith(r.links, e)
  BY <1>0, <1>2, <1>6 DEF Only, IsReducer, ReducerFields
<1>8. /\ l.d = a.d /\ l.start = a.start /\ l.turns = a.turns /\ l.dirty = a.dirty /\ l.ops = a.ops
      /\ l.newOps = a.newOps /\ l.updated = a.updated /\ l.inputs = a.inputs /\ l.queried = a.queried
      /\ l.prompts = a.prompts /\ l.items = a.items /\ l.usage = a.usage /\ IsReducer(l)
  BY <1>7 DEF Only, ReducerFields
<1>9. HeldRows(l, d)
  BY <1>1, <1>8 DEF HeldRows
<1> DEFINE va == ViewOf(a)
<1>10. /\ u = [f \in ViewFields |-> u[f]] /\ u.st = l.st /\ u.turns = va.turns /\ u.ops = va.ops
       /\ u.items = va.items /\ u.usage = va.usage
  <2>1. /\ va.turns = Onto(a.turns, a.d.turns) /\ va.ops = Onto(a.ops, a.d.ops)
        /\ va.items = a.d.items \cup a.items /\ va.usage = Onto(a.usage, a.d.usage)
    BY ViewIs
  <2>2. /\ u = [f \in ViewFields |-> u[f]] /\ u.st = l.st /\ u.turns = Onto(l.turns, l.d.turns)
        /\ u.ops = Onto(l.ops, l.d.ops) /\ u.items = l.d.items \cup l.items /\ u.usage = Onto(l.usage, l.d.usage)
    BY ViewIs
  <2> HIDE DEF u, va
  <2> QED
    BY <1>8, <2>1, <2>2
<1>11. /\ va.turns = PutAt(v.turns, e.at, new) /\ va.ops = v.ops /\ va.items = v.items /\ va.usage = v.usage
  BY <1>0, <1>1 DEF SeeTurn, ViewFields
<1> HIDE DEF va, u
<1>12. /\ w = [f \in ViewFields |-> w[f]] /\ w.st = Opened(v.st, e, prompt)
       /\ w.turns = PutAt(v.turns, e.at, new) /\ w.ops = v.ops /\ w.items = v.items /\ w.usage = v.usage
  BY <1>0, <1>3 DEF ViewFields
<1>13. u = w
  <2>1. u.st = w.st /\ u.turns = w.turns /\ u.ops = w.ops /\ u.items = w.items /\ u.usage = w.usage
    BY <1>7, <1>10, <1>11, <1>12
  <2> QED
    BY <1>10, <1>12, <2>1, SameView
<1>14. PromptsHeld(l)
  <2>1. /\ DOMAIN u.turns = DOMAIN v.turns \cup {e.at} /\ u.turns[e.at] = new
        /\ \A t \in DOMAIN v.turns : u.turns[t] = v.turns[t]
    BY <1>5, <1>10, <1>11 DEF PutAt
  <2>2. ASSUME NEW q, q # None PROVE Asked(u, q) <=> (Asked(v, q) \/ (prompt /\ q = e.id))
    BY <1>4, <2>1, <2>2 DEF Asked
  <2>3. ASSUME NEW q PROVE PromptSeen(l, q) <=> PromptSeen(r, q)
    BY <1>0, <1>6, <1>8 DEF PromptSeen
  <2> QED
    BY <2>2, <2>3 DEF PromptsHeld, PromptsWith, u, v
<1> QED
  BY <1>7, <1>9, <1>13, <1>14 DEF Held, l, u, w, v

\* A total is put on the turn.
LEMMA TotalHeld ==
    ASSUME NEW r, NEW d, Held(r, d), NEW c, NEW n, Formed(ViewOf(r), c, n), NEW t \in DOMAIN r.turns, NEW e,
           e.k = "total"
    PROVE  LET l == ApplyUsage(r, t, e)
           IN  Held(l, d) /\ ViewOf(l) = SeeTotal(ViewOf(r), t, e) /\ l.links = r.links
<1> DEFINE v == ViewOf(r)
           x == [v.turns[t] EXCEPT !.tokens = IF e.tok > v.turns[t].base THEN e.tok - v.turns[t].base ELSE 0]
           a == PutTurn(r, t, x)
           l == ApplyUsage(r, t, e)
<1>1. t \in DOMAIN v.turns /\ r.turns[t] = v.turns[t] /\ v.st \in StateRow
  <2>1. r.d = d
    BY DEF Held, HeldRows
  <2>2. v.turns = Onto(r.turns, d.turns)
    BY <2>1, ViewIs
  <2>3. v.st \in StateRow
    BY DEF Formed
  <2> QED
    BY <2>2, <2>3 DEF Onto
<1>2. l = [a EXCEPT !.st.total = e.tok]
  BY <1>1 DEF ApplyUsage
<1>3. x.prompt = v.turns[t].prompt
  <2>1. TurnRow(v.turns[t])
    BY <1>1 DEF Formed, TurnsFormed
  <2> QED
    BY <2>1 DEF TurnRow, TurnFields
<1>4. SeeTotal(v, t, e) = [SeeTurn(v, t, x) EXCEPT !.st.total = e.tok]
  BY DEF SeeTotal
<1> HIDE DEF x
<1>5. Held(a, d) /\ ViewOf(a) = SeeTurn(v, t, x) /\ Only(r, a, {"turns", "dirty"})
  BY <1>1, <1>3, PutTurnHeld
<1> HIDE DEF a, l
<1>6. IsReducer(a) /\ a.st = ViewOf(a).st /\ a.links = r.links
  BY <1>5, ViewIs DEF Held, HeldRows, Only, ReducerFields
<1>7. Only(a, l, {"st"}) /\ l.st = [a.st EXCEPT !.total = e.tok] /\ l.links = a.links
  BY <1>2, <1>6 DEF Only, IsReducer, ReducerFields
<1>8. Held(l, d) /\ ViewOf(l) = [ViewOf(a) EXCEPT !.st = l.st]
  BY <1>5, <1>7, StateHeld
<1>9. ViewOf(l) = [SeeTurn(v, t, x) EXCEPT !.st.total = e.tok]
  <2> DEFINE z == SeeTurn(v, t, x)
  <2>1. ViewOf(a) = z /\ l.st = [z.st EXCEPT !.total = e.tok]
    BY <1>5, <1>6, <1>7
  <2> HIDE DEF z
  <2>2. ViewOf(l) = [z EXCEPT !.st.total = e.tok]
    BY <1>8, <2>1
  <2> QED
    BY <2>2 DEF z
<1> QED
  BY <1>4, <1>6, <1>7, <1>8, <1>9 DEF l, v

\* A receipt is put on the turn that has the one before.
LEMMA ReplyHeld ==
    ASSUME NEW r, NEW d, Held(r, d), NEW c, NEW n, Formed(ViewOf(r), c, n), NEW t \in DOMAIN r.turns, NEW e,
           e.k = "reply"
    PROVE  LET l == ApplyUsage(r, t, e)
           IN  Held(l, d) /\ ViewOf(l) = SeeReply(ViewOf(r), t, e) /\ l.links = r.links
<1> DEFINE v == ViewOf(r)
           prior == PriorUsage(r, e.id)
           b == LoadTurn(r, prior.turn)
           owner == IF prior.turn \in DOMAIN b.turns THEN prior.turn ELSE t
           less == IF prior.turn = owner THEN prior.tokens ELSE 0
           x == [v.turns[owner] EXCEPT !.tokens = @ - less + e.tok]
           a == PutTurn(b, owner, x)
           receipt == [turn |-> owner, tokens |-> e.tok]
           l == ApplyUsage(r, t, e)
<1>1. v.turns = Onto(r.turns, d.turns) /\ v.usage = Onto(r.usage, d.usage) /\ r.d = d
  <2>1. r.d = d
    BY DEF Held, HeldRows
  <2> QED
    BY <2>1, ViewIs
<1>2. prior = UsageOfMessage(v, e.id)
  BY <1>1 DEF PriorUsage, UsageOfMessage, Onto
<1>3. /\ Held(b, d) /\ ViewOf(b) = v /\ Only(r, b, {"turns"})
      /\ prior.turn \in DOMAIN b.turns <=> prior.turn \in DOMAIN v.turns
      /\ prior.turn \in DOMAIN b.turns => b.turns[prior.turn] = v.turns[prior.turn]
      /\ \A s \in DOMAIN r.turns : s \in DOMAIN b.turns
  BY LoadTurnHeld
<1>4. b.d = d /\ v.turns = Onto(b.turns, d.turns)
  <2>1. b.d = d
    BY <1>3 DEF Held, HeldRows
  <2>2. ViewOf(b).turns = Onto(b.turns, b.d.turns)
    BY ViewIs
  <2> QED
    BY <1>3, <2>1, <2>2
<1>5. owner \in DOMAIN b.turns /\ owner \in DOMAIN v.turns /\ b.turns[owner] = v.turns[owner]
  <2>1. owner \in DOMAIN b.turns
    BY <1>3
  <2> HIDE DEF owner, b, v
  <2> QED
    BY <1>4, <2>1 DEF Onto
<1>6. l = [a EXCEPT !.usage = PutAt(@, e.id, receipt)]
  BY <1>5 DEF ApplyUsage
<1>7. SeeReply(v, t, e) = [SeeTurn(v, owner, x) EXCEPT !.usage = PutAt(@, e.id, receipt)]
  <2>1. owner = IF prior.turn \in DOMAIN v.turns THEN prior.turn ELSE t
    BY <1>3
  <2> QED
    BY <1>2, <2>1 DEF SeeReply
<1> HIDE DEF b, owner, less, prior
<1>8. x.prompt = v.turns[owner].prompt
  <2>1. TurnRow(v.turns[owner])
    BY <1>5 DEF Formed, TurnsFormed
  <2> QED
    BY <2>1 DEF TurnRow, TurnFields
<1> HIDE DEF x, v
<1>9. Held(a, d) /\ ViewOf(a) = SeeTurn(v, owner, x) /\ Only(b, a, {"turns", "dirty"})
  <2>1. owner \in DOMAIN ViewOf(b).turns /\ x.prompt = ViewOf(b).turns[owner].prompt
    BY <1>3, <1>5, <1>8
  <2>2. LET z == PutTurn(b, owner, x)
        IN  Held(z, d) /\ ViewOf(z) = SeeTurn(ViewOf(b), owner, x) /\ Only(b, z, {"turns", "dirty"})
    BY <1>3, <2>1, PutTurnHeld
  <2> QED
    BY <1>3, <2>2
<1> HIDE DEF a, receipt, l
<1> DEFINE z == SeeTurn(v, owner, x)
           w == [z EXCEPT !.usage = PutAt(@, e.id, receipt)]
           u == ViewOf(l)
<1>10. IsReducer(a) /\ a.links = r.links
  BY <1>3, <1>9 DEF Held, HeldRows, Only, ReducerFields
<1>11. Only(a, l, {"usage"}) /\ l.usage = PutAt(a.usage, e.id, receipt) /\ l.links = a.links /\ l.st = a.st /\ l.items = a.items
  BY <1>6, <1>10 DEF Only, IsReducer, ReducerFields
<1>12. Only(a, l, RestPart)
  BY <1>11 DEF Only, RestPart
<1>13. /\ Held(l, d) /\ u.turns = ViewOf(a).turns /\ u.ops = ViewOf(a).ops
       /\ u.st = l.st /\ u.items = d.items \cup l.items /\ u.usage = Onto(l.usage, d.usage)
       /\ ViewOf(a).st = a.st /\ ViewOf(a).items = d.items \cup a.items /\ ViewOf(a).usage = Onto(a.usage, d.usage)
  BY <1>9, <1>12, RestHeld
<1>14. u.usage = PutAt(z.usage, e.id, receipt)
  <2>1. Onto(PutAt(a.usage, e.id, receipt), d.usage) = PutAt(Onto(a.usage, d.usage), e.id, receipt)
    BY PutOnto
  <2> QED
    BY <1>9, <1>11, <1>13, <2>1
<1>15. u = [f \in ViewFields |-> u[f]] /\ z = [f \in ViewFields |-> z[f]]
  <2>1. ViewOf(a) = [f \in ViewFields |-> ViewOf(a)[f]] /\ u = [f \in ViewFields |-> u[f]]
    BY ViewIs
  <2> QED
    BY <1>9, <2>1
<1> HIDE DEF z, u
<1>16. /\ w = [f \in ViewFields |-> w[f]] /\ w.st = z.st /\ w.turns = z.turns /\ w.ops = z.ops /\ w.items = z.items
       /\ w.usage = PutAt(z.usage, e.id, receipt)
  BY <1>15 DEF ViewFields
<1>17. u.st = w.st /\ u.turns = w.turns /\ u.ops = w.ops /\ u.items = w.items /\ u.usage = w.usage
  <2>1. ViewOf(a) = z
    BY <1>9 DEF z
  <2> HIDE DEF w
  <2> QED
    BY <1>11, <1>13, <1>14, <1>16, <2>1
<1>18. u = w
  <2> HIDE DEF w
  <2> QED
    BY <1>15, <1>16, <1>17, SameView
<1> QED
  BY <1>7, <1>10, <1>11, <1>13, <1>18 DEF z, u, l, v

\* An event is counted on a turn of the view, which is loaded then.
LEMMA CountHeld ==
    ASSUME NEW r, NEW d, Held(r, d), NEW c, NEW n, Formed(ViewOf(r), c, n), NEW t \in DOMAIN ViewOf(r).turns
    PROVE  LET b == LoadTurn(r, t)
               l == [PutTurn(b, t, [b.turns[t] EXCEPT !.events = @ + 1]) EXCEPT !.st.events = @ + 1]
           IN  Held(l, d) /\ ViewOf(l) = SeeCounted(ViewOf(r), t) /\ l.links = r.links /\ t \in DOMAIN l.turns
<1> DEFINE v == ViewOf(r)
           b == LoadTurn(r, t)
           x == [v.turns[t] EXCEPT !.events = @ + 1]
           a == PutTurn(b, t, x)
           l == [PutTurn(b, t, [b.turns[t] EXCEPT !.events = @ + 1]) EXCEPT !.st.events = @ + 1]
<1>1. /\ Held(b, d) /\ ViewOf(b) = v /\ Only(r, b, {"turns"})
      /\ t \in DOMAIN b.turns /\ b.turns[t] = v.turns[t]
  BY LoadTurnHeld
<1>2. l = [a EXCEPT !.st.events = @ + 1]
  BY <1>1
<1>3. x.prompt = v.turns[t].prompt
  <2>1. TurnRow(v.turns[t])
    BY DEF Formed, TurnsFormed
  <2> QED
    BY <2>1 DEF TurnRow, TurnFields
<1>4. SeeCounted(v, t) = [SeeTurn(v, t, x) EXCEPT !.st.events = @ + 1]
  BY DEF SeeCounted
<1> HIDE DEF x, l, b
<1>5. Held(a, d) /\ ViewOf(a) = SeeTurn(v, t, x) /\ Only(b, a, {"turns", "dirty"}) /\ t \in DOMAIN a.turns
  <2>1. t \in DOMAIN ViewOf(b).turns /\ x.prompt = ViewOf(b).turns[t].prompt
    BY <1>1, <1>3
  <2>2. LET z == PutTurn(b, t, x)
        IN  /\ Held(z, d) /\ ViewOf(z) = SeeTurn(ViewOf(b), t, x) /\ Only(b, z, {"turns", "dirty"})
            /\ DOMAIN z.turns = DOMAIN b.turns \cup {t}
    BY <1>1, <2>1, PutTurnHeld
  <2> QED
    BY <1>1, <2>2
<1> HIDE DEF a
<1>6. IsReducer(a) /\ a.st = ViewOf(a).st /\ a.links = r.links
  BY <1>1, <1>5, ViewIs DEF Held, HeldRows, Only, ReducerFields
<1>7. Only(a, l, {"st"}) /\ l.st = [a.st EXCEPT !.events = @ + 1] /\ l.links = a.links
  BY <1>2, <1>6 DEF Only, IsReducer, ReducerFields
<1>8. Held(l, d) /\ ViewOf(l) = [ViewOf(a) EXCEPT !.st = l.st] /\ l.turns = a.turns
  BY <1>5, <1>7, StateHeld
<1>9. ViewOf(l) = [SeeTurn(v, t, x) EXCEPT !.st.events = @ + 1]
  <2> DEFINE z == SeeTurn(v, t, x)
  <2>1. ViewOf(a) = z /\ l.st = [z.st EXCEPT !.events = @ + 1]
    BY <1>5, <1>6, <1>7
  <2> HIDE DEF z
  <2>2. ViewOf(l) = [z EXCEPT !.st.events = @ + 1]
    BY <1>8, <2>1
  <2> QED
    BY <2>2 DEF z
<1> QED
  BY <1>4, <1>5, <1>6, <1>7, <1>8, <1>9 DEF l, v, b

\* Its item is kept.
LEMMA ItemHeld ==
    ASSUME NEW r, NEW d, Held(r, d), NEW t, NEW e
    PROVE  LET l == IF e.k = "result" THEN r ELSE [r EXCEPT !.items = @ \cup {<<t, e.at>>}]
           IN  Held(l, d) /\ ViewOf(l) = SeeItem(ViewOf(r), t, e) /\ l.links = r.links /\ l.turns = r.turns
<1> DEFINE v == ViewOf(r)
           i == {<<t, e.at>>}
           l == [r EXCEPT !.items = @ \cup i]
           w == [v EXCEPT !.items = @ \cup i]
           u == ViewOf(l)
<1>1. CASE e.k = "result"
  BY <1>1 DEF SeeItem
<1>2. CASE e.k # "result"
  <2>1. SeeItem(v, t, e) = w
    BY <1>2 DEF SeeItem
  <2> HIDE DEF i
  <2>2. IsReducer(r)
    BY DEF Held, HeldRows
  <2>3. Only(r, l, RestPart) /\ l.items = r.items \cup i /\ l.links = r.links /\ l.st = r.st /\ l.usage = r.usage
    BY <2>2 DEF Only, IsReducer, ReducerFields, RestPart
  <2> HIDE DEF l
  <2>4. /\ Held(l, d) /\ u.turns = v.turns /\ u.ops = v.ops
        /\ u.st = l.st /\ u.items = d.items \cup l.items /\ u.usage = Onto(l.usage, d.usage)
        /\ v.st = r.st /\ v.items = d.items \cup r.items /\ v.usage = Onto(r.usage, d.usage)
        /\ l.turns = r.turns
    BY <2>3, RestHeld
  <2>5. v = [f \in ViewFields |-> v[f]] /\ u = [f \in ViewFields |-> u[f]]
    BY ViewIs
  <2> HIDE DEF u, v
  <2>6. /\ w = [f \in ViewFields |-> w[f]] /\ w.st = v.st /\ w.turns = v.turns /\ w.ops = v.ops
        /\ w.items = v.items \cup i /\ w.usage = v.usage
    BY <2>5 DEF ViewFields
  <2> HIDE DEF w
  <2>7. u.st = w.st /\ u.turns = w.turns /\ u.ops = w.ops /\ u.items = w.items /\ u.usage = w.usage
    BY <2>3, <2>4, <2>6
  <2>8. u = w
    BY <2>5, <2>6, <2>7, SameView
  <2> QED
    BY <1>2, <2>1, <2>3, <2>4, <2>8 DEF u, v, w, l, i
<1> QED
  BY <1>1, <1>2

\* An event is appended to a turn of the view.
LEMMA AppendHeld ==
    ASSUME NEW r, NEW d, Held(r, d), NEW e, Event(e), Before(d, e.at), Formed(ViewOf(r), e.at - 1, e.at),
           UsageOwned(ViewOf(r)), NEW t \in DOMAIN ViewOf(r).turns
    PROVE  LET l == AppendEvent(r, t, e)
           IN  Held(l, d) /\ ViewOf(l) = SeeAppended(ViewOf(r), t, e) /\ l.links = r.links
<1> DEFINE v == ViewOf(r)
           b == LoadTurn(r, t)
           a == [PutTurn(b, t, [b.turns[t] EXCEPT !.events = @ + 1]) EXCEPT !.st.events = @ + 1]
           o == IF e.k = "call" THEN ApplyCall(a, t, e) ELSE IF e.k = "result" THEN ApplyResult(a, t, e) ELSE a
           i == IF e.k = "result" THEN o ELSE [o EXCEPT !.items = @ \cup {<<t, e.at>>}]
           va == SeeCounted(v, t)
           vo == SeePayload(va, t, e)
           vi == SeeItem(vo, t, e)
<1>1. AppendEvent(r, t, e) = ApplyUsage(i, t, e)
  <2> HIDE DEF a
  <2>1. (CASE e.k = "call" -> ApplyCall(a, t, e) [] e.k = "result" -> ApplyResult(a, t, e) [] OTHER -> a) = o
    BY Zenon
  <2> QED
    BY <2>1 DEF AppendEvent, Acted, WithItem, a
<1>2. SeeAppended(v, t, e) = SeeUsage(vi, t, e)
  BY DEF SeeAppended
<1>3. Held(a, d) /\ ViewOf(a) = va /\ a.links = r.links /\ t \in DOMAIN a.turns
  BY CountHeld
<1>4. /\ Formed(va, e.at - 1, e.at) /\ va.usage = v.usage /\ DOMAIN va.turns = DOMAIN v.turns
  BY CountedFormed
<1> HIDE DEF a, va, b, v
<1>5. Held(o, d) /\ ViewOf(o) = vo /\ o.links = r.links /\ (e.k # "result" => t \in DOMAIN o.turns)
  <2>1. CASE e.k = "call"
    <3>1. o = ApplyCall(a, t, e) /\ vo = SeeCall(va, t, e)
      BY <2>1 DEF SeePayload
    <3> HIDE DEF o, vo
    <3>2. LET l == ApplyCall(a, t, e)
          IN  /\ Held(l, d) /\ ViewOf(l) = SeeCall(ViewOf(a), t, e) /\ Only(a, l, OpsPart \cup {"turns", "dirty"})
              /\ t \in DOMAIN l.turns
      BY <1>3, <1>4, CallHeld
    <3>3. o.links = a.links
      BY <3>1, <3>2 DEF Only, ReducerFields, OpsPart
    <3> QED
      BY <1>3, <3>1, <3>2, <3>3
  <2>2. CASE e.k = "result"
    <3>1. o = ApplyResult(a, t, e) /\ vo = SeeResult(va, t, e)
      BY <2>2 DEF SeePayload
    <3> HIDE DEF o, vo
    <3>2. LET l == ApplyResult(a, t, e)
          IN  Held(l, d) /\ ViewOf(l) = SeeResult(ViewOf(a), t, e) /\ Only(a, l, WorkPart)
      BY <1>3, <1>4, ResultHeld
    <3>3. o.links = a.links
      BY <3>1, <3>2 DEF Only, ReducerFields, OpsPart, WorkPart
    <3> QED
      BY <1>3, <2>2, <3>1, <3>2, <3>3
  <2>3. CASE e.k \notin {"call", "result"}
    <3>1. o = a /\ vo = va
      BY <2>3 DEF SeePayload
    <3> HIDE DEF o, vo
    <3> QED
      BY <1>3, <3>1
  <2> QED
    BY <2>1, <2>2, <2>3
<1>6. Formed(vo, e.at, e.at)
  <2>1. t \in DOMAIN va.turns
    BY <1>4 DEF v
  <2> QED
    BY <1>4, <2>1, PayloadFormed
<1> HIDE DEF o, vo
<1>7. Held(i, d) /\ ViewOf(i) = vi /\ i.links = r.links /\ i.turns = o.turns
  <2>1. LET l == IF e.k = "result" THEN o ELSE [o EXCEPT !.items = @ \cup {<<t, e.at>>}]
        IN  Held(l, d) /\ ViewOf(l) = SeeItem(ViewOf(o), t, e) /\ l.links = o.links /\ l.turns = o.turns
    BY <1>5, ItemHeld
  <2> QED
    BY <1>5, <2>1
<1>8. Formed(vi, e.at, e.at)
  BY <1>6, ItemFormed
<1> HIDE DEF i, vi
<1>9. CASE e.k = "total"
  <2>1. t \in DOMAIN i.turns /\ Formed(ViewOf(i), e.at, e.at)
    BY <1>5, <1>7, <1>8, <1>9
  <2>2. LET l == ApplyUsage(i, t, e)
        IN  Held(l, d) /\ ViewOf(l) = SeeTotal(ViewOf(i), t, e) /\ l.links = i.links
    BY <1>7, <1>9, <2>1, TotalHeld
  <2>3. SeeUsage(vi, t, e) = SeeTotal(vi, t, e)
    BY <1>9 DEF SeeUsage
  <2> QED
    BY <1>1, <1>2, <1>7, <2>2, <2>3 DEF v
<1>10. CASE e.k = "reply"
  <2>1. t \in DOMAIN i.turns /\ Formed(ViewOf(i), e.at, e.at)
    BY <1>5, <1>7, <1>8, <1>10
  <2>2. LET l == ApplyUsage(i, t, e)
        IN  Held(l, d) /\ ViewOf(l) = SeeReply(ViewOf(i), t, e) /\ l.links = i.links
    BY <1>7, <1>10, <2>1, ReplyHeld
  <2>3. SeeUsage(vi, t, e) = SeeReply(vi, t, e)
    BY <1>10 DEF SeeUsage
  <2> QED
    BY <1>1, <1>2, <1>7, <2>2, <2>3 DEF v
<1>11. CASE e.k \notin {"total", "reply"}
  <2>1. ApplyUsage(i, t, e) = i /\ SeeUsage(vi, t, e) = vi
    BY <1>11 DEF ApplyUsage, SeeUsage
  <2> QED
    BY <1>1, <1>2, <1>7, <2>1 DEF v
<1> QED
  BY <1>9, <1>10, <1>11

\* The link of a turn an event opens.
LandLink(v, e) ==
    IF e.k = "prompt" \/ (TurnNow(v, e) = 0 /\ ~Bookkeeping(e)) THEN LinksWith({}, e) ELSE {}

\* An event lands.
LEMMA LandHeld ==
    ASSUME NEW r, NEW d, HeldRows(r, d), NEW e, Later(ViewOf(r), e), Before(d, e.at), UsageOwned(ViewOf(r)),
           PromptsWith(r, e, e.k = "prompt")
    PROVE  LET l == Land(r, e)
           IN  Held(l, d) /\ ViewOf(l) = SeeLanded(ViewOf(r), e) /\ l.links = r.links \cup LandLink(ViewOf(r), e)
<1> DEFINE v == ViewOf(r)
           current == IF e.side THEN r.st.side ELSE r.st.main
<1>0. e.at \in Nat /\ e.at - 1 \in Nat /\ Event(e) /\ Formed(v, e.at - 1, e.at - 1)
  BY DEF Later, Event
<1>1. Formed(v, e.at - 1, e.at)
  BY <1>0, FormedHigher
<1>2. current = TurnNow(v, e)
  BY ViewIs DEF TurnNow
<1>3. LinksWith(r.links, e) = r.links \cup LinksWith({}, e)
  BY DEF LinksWith
<1>4. ASSUME NEW prompt \in BOOLEAN, prompt <=> e.k = "prompt"
      PROVE  LET l == CreateTurn(r, e, prompt)
             IN  /\ Held(l, d) /\ ViewOf(l) = SeeCreated(v, e, prompt) /\ l.links = LinksWith(r.links, e)
                 /\ Formed(SeeCreated(v, e, prompt), e.at - 1, e.at)
                 /\ e.at \in DOMAIN SeeCreated(v, e, prompt).turns /\ UsageOwned(SeeCreated(v, e, prompt))
  <2>1. PromptsWith(r, e, prompt)
    BY <1>4 DEF PromptsWith
  <2>2. LET l == CreateTurn(r, e, prompt)
        IN  /\ Held(l, d) /\ ViewOf(l) = SeeCreated(v, e, prompt) /\ l.links = LinksWith(r.links, e)
    BY <2>1, CreateHeld
  <2> DEFINE w == SeeCreated(v, e, prompt)
  <2>3. Formed(w, e.at - 1, e.at) /\ w.usage = v.usage /\ w.turns = PutAt(v.turns, e.at, NewTurn(v.st, e, prompt))
    BY CreatedFormed
  <2> HIDE DEF w, v
  <2>4. DOMAIN w.turns = DOMAIN v.turns \cup {e.at}
    BY <2>3 DEF PutAt
  <2>5. UsageOwned(w)
    BY <2>3, <2>4 DEF UsageOwned, v
  <2> QED
    BY <2>2, <2>3, <2>4, <2>5 DEF w
<1>5. CASE e.k = "prompt"
  <2>1. Land(r, e) = CreateTurn(r, e, TRUE) /\ SeeLanded(v, e) = SeeCreated(v, e, TRUE) /\ LandLink(v, e) = LinksWith({}, e)
    BY <1>5 DEF Land, SeeLanded, LandLink
  <2>2. Held(CreateTurn(r, e, TRUE), d) /\ ViewOf(CreateTurn(r, e, TRUE)) = SeeCreated(v, e, TRUE)
        /\ CreateTurn(r, e, TRUE).links = LinksWith(r.links, e)
    BY <1>4, <1>5, Zenon
  <2> QED
    BY <1>3, <2>1, <2>2
<1>6. CASE e.k # "prompt" /\ TurnNow(v, e) # 0
  <2>1. TurnNow(v, e) \in DOMAIN v.turns
    BY <1>6 DEF TurnNow, Later, Formed, TurnsFormed
  <2>2. Land(r, e) = AppendEvent(r, TurnNow(v, e), e) /\ SeeLanded(v, e) = SeeAppended(v, TurnNow(v, e), e) /\ LandLink(v, e) = {}
    <3> HIDE DEF v
    <3>1. Land(r, e) = AppendEvent(r, current, e)
      BY <1>2, <1>6 DEF Land
    <3>2. SeeLanded(v, e) = SeeAppended(v, TurnNow(v, e), e) /\ LandLink(v, e) = {}
      BY <1>6 DEF SeeLanded, LandLink
    <3> QED
      BY <1>2, <3>1, <3>2
  <2>3. Held(r, d)
    <3>1. PromptsHeld(r)
      BY <1>6 DEF PromptsHeld, PromptsWith
    <3> QED
      BY <3>1 DEF Held
  <2> DEFINE t == TurnNow(v, e)
  <2> HIDE DEF t
  <2>4. t \in DOMAIN ViewOf(r).turns
    BY <2>1 DEF t
  <2>5. Held(AppendEvent(r, t, e), d) /\ ViewOf(AppendEvent(r, t, e)) = SeeAppended(v, t, e) /\ AppendEvent(r, t, e).links = r.links
    BY <1>0, <1>1, <2>3, <2>4, AppendHeld
  <2> QED
    BY <2>2, <2>5 DEF t
<1>7. CASE e.k # "prompt" /\ TurnNow(v, e) = 0 /\ Bookkeeping(e)
  <2>1. Land(r, e) = r /\ SeeLanded(v, e) = v /\ LandLink(v, e) = {}
    BY <1>2, <1>7 DEF Land, SeeLanded, LandLink
  <2>2. Held(r, d)
    <3>1. PromptsHeld(r)
      BY <1>7 DEF PromptsHeld, PromptsWith
    <3> QED
      BY <3>1 DEF Held
  <2> QED
    BY <2>1, <2>2
<1>8. CASE e.k # "prompt" /\ TurnNow(v, e) = 0 /\ ~Bookkeeping(e)
  <2> DEFINE a == CreateTurn(r, e, FALSE)
             w == SeeCreated(v, e, FALSE)
  <2>1. /\ Land(r, e) = AppendEvent(a, e.at, e) /\ SeeLanded(v, e) = SeeAppended(w, e.at, e)
        /\ LandLink(v, e) = LinksWith({}, e)
    BY <1>2, <1>8 DEF Land, SeeLanded, LandLink
  <2>2. /\ Held(a, d) /\ ViewOf(a) = w /\ a.links = LinksWith(r.links, e)
        /\ Formed(w, e.at - 1, e.at) /\ e.at \in DOMAIN w.turns /\ UsageOwned(w)
    BY <1>4, <1>8, Zenon
  <2> HIDE DEF a, w
  <2>3. LET l == AppendEvent(a, e.at, e)
        IN  Held(l, d) /\ ViewOf(l) = SeeAppended(ViewOf(a), e.at, e) /\ l.links = a.links
    BY <1>0, <2>2, AppendHeld
  <2> QED
    BY <1>3, <2>1, <2>2, <2>3 DEF a, w
<1> QED
  BY <1>5, <1>6, <1>7, <1>8

\* An event is applied: the reducer keeps to its rows, and its view takes the step.
LEMMA EventHeld ==
    ASSUME NEW r, NEW d, Held(r, d), NEW e, Later(ViewOf(r), e), Before(d, e.at), UsageOwned(ViewOf(r))
    PROVE  LET l == ApplyEvent(r, e)
           IN  Held(l, d) /\ ViewOf(l) = SeeApplied(ViewOf(r), e) /\ l.links = r.links \cup LinkOf(ViewOf(r), e)
<1> DEFINE v == ViewOf(r)
           a == [r EXCEPT !.st.through = e.at]
           b == IF e.k = "evidence" THEN CorrelateRuntime(a, e) ELSE a
           va == SeeThrough(v, e)
           vb == SeeFound(va, e)
           asked == [b EXCEPT !.prompts = @ \cup {e.id}]
<1>0. IsReducer(r) /\ Event(e) /\ r.st = v.st /\ v.st \in StateRow
  BY ViewIs DEF Held, HeldRows, Later, Formed
<1>1. /\ e.k = "inherited" => ApplyEvent(r, e) = a
      /\ e.k = "prompt" /\ e.id # None /\ PromptSeen(b, e.id) => ApplyEvent(r, e) = b
      /\ e.k = "prompt" /\ e.id # None /\ ~PromptSeen(b, e.id) => ApplyEvent(r, e) = Land(asked, e)
      /\ e.k # "inherited" /\ ~(e.k = "prompt" /\ e.id # None) => ApplyEvent(r, e) = Land(b, e)
  <2> HIDE DEF a, asked
  <2>1. ApplyEvent(r, e) = CASE e.k = "inherited" -> a
          [] e.k = "prompt" /\ e.id # None /\ PromptSeen(b, e.id) -> b
          [] e.k = "prompt" /\ e.id # None /\ ~PromptSeen(b, e.id) -> Land(asked, e)
          [] OTHER -> Land(b, e)
    BY DEF ApplyEvent, a, asked
  <2> HIDE DEF b
  <2> QED
    BY <2>1
<1>2. SeeApplied(v, e) = IF e.k = "inherited" \/ Repeated(va, e) THEN va ELSE SeeLanded(vb, e)
  BY DEF SeeApplied
<1>3. Only(r, a, {"st"}) /\ a.st = [v.st EXCEPT !.through = e.at] /\ a.links = r.links
  BY <1>0 DEF Only, IsReducer, ReducerFields
<1>4. Held(a, d) /\ ViewOf(a) = va
  <2> HIDE DEF a
  <2>1. Held(a, d) /\ ViewOf(a) = [v EXCEPT !.st = a.st]
    BY <1>3, StateHeld
  <2> HIDE DEF v
  <2> QED
    BY <1>3, <2>1 DEF SeeThrough
<1>5. Later(va, e) /\ va.turns = v.turns /\ va.usage = v.usage /\ va.st.main = v.st.main /\ va.st.side = v.st.side
  BY ThroughFormed
<1> HIDE DEF a, va
<1>6. Held(b, d) /\ ViewOf(b) = vb /\ b.links = r.links
  <2>1. CASE e.k = "evidence"
    <3>1. b = CorrelateRuntime(a, e) /\ vb = SeeRuntime(va, e)
      BY <2>1 DEF SeeFound
    <3>2. Formed(ViewOf(a), e.at - 1, e.at - 1)
      BY <1>4, <1>5 DEF Later
    <3>3. LET l == CorrelateRuntime(a, e)
          IN  Held(l, d) /\ ViewOf(l) = SeeRuntime(ViewOf(a), e) /\ Only(a, l, WorkPart)
      BY <1>4, <3>2, RuntimeHeld
    <3> HIDE DEF b, vb
    <3>4. b.links = a.links
      BY <3>1, <3>3 DEF Only, WorkPart, OpsPart, ReducerFields
    <3> QED
      BY <1>3, <1>4, <3>1, <3>3, <3>4
  <2>2. CASE e.k # "evidence"
    <3>1. b = a /\ vb = va
      BY <2>2 DEF SeeFound
    <3> HIDE DEF b, vb
    <3> QED
      BY <1>3, <1>4, <3>1
  <2> QED
    BY <2>1, <2>2
<1>7. Formed(vb, e.at - 1, e.at - 1) /\ TurnsKept(va, vb) /\ (e.k # "evidence" => vb = va)
  <2>1. Formed(va, e.at - 1, e.at - 1)
    BY <1>5 DEF Later
  <2> QED
    BY <2>1, FoundFormed
<1> HIDE DEF b, vb, v
<1>8. Later(vb, e) /\ UsageOwned(vb) /\ TurnNow(vb, e) = TurnNow(v, e)
  <2>1. UsageOwned(v)
    BY DEF v
  <2> QED
    BY <1>0, <1>5, <1>7, <2>1 DEF Later, UsageOwned, TurnsKept, TurnNow
<1>9. Repeated(va, e) <=> Repeated(v, e)
  BY <1>5 DEF Repeated, Asked
<1>10. e.k = "prompt" /\ e.id # None => (PromptSeen(b, e.id) <=> Repeated(va, e))
  <2> SUFFICES ASSUME e.k = "prompt", e.id # None PROVE PromptSeen(b, e.id) <=> Repeated(va, e)
    OBVIOUS
  <2>1. PromptSeen(b, e.id) <=> Asked(ViewOf(b), e.id)
    BY <1>6 DEF Held, PromptsHeld
  <2>2. ViewOf(b) = va
    BY <1>6, <1>7
  <2> QED
    BY <2>1, <2>2 DEF Repeated
<1>11. ASSUME NEW l, HeldRows(l, d), ViewOf(l) = vb, l.links = r.links, PromptsWith(l, e, e.k = "prompt"),
              e.k # "inherited", ~Repeated(va, e), ApplyEvent(r, e) = Land(l, e)
       PROVE  /\ Held(ApplyEvent(r, e), d) /\ ViewOf(ApplyEvent(r, e)) = SeeApplied(v, e)
              /\ ApplyEvent(r, e).links = r.links \cup LinkOf(v, e)
  <2>1. LET m == Land(l, e)
        IN  Held(m, d) /\ ViewOf(m) = SeeLanded(ViewOf(l), e) /\ m.links = l.links \cup LandLink(ViewOf(l), e)
    <3>1. Later(ViewOf(l), e) /\ UsageOwned(ViewOf(l))
      BY <1>8, <1>11
    <3> QED
      BY <1>11, <3>1, LandHeld
  <2>2. SeeApplied(v, e) = SeeLanded(vb, e)
    BY <1>2, <1>11
  <2>3. LandLink(vb, e) = LinkOf(v, e)
    BY <1>8, <1>9, <1>11 DEF LandLink, LinkOf, Opens, LinksWith
  <2> QED
    BY <1>11, <2>1, <2>2, <2>3
<1>12. CASE e.k = "inherited"
  <2>1. LinkOf(v, e) = {}
    BY <1>12 DEF LinkOf, Opens
  <2> QED
    BY <1>1, <1>2, <1>3, <1>4, <1>12, <2>1 DEF v
<1>13. CASE e.k = "prompt" /\ e.id # None /\ PromptSeen(b, e.id)
  <2>1. Repeated(va, e) /\ Repeated(v, e)
    BY <1>9, <1>10, <1>13
  <2>2. LinkOf(v, e) = {}
    BY <2>1 DEF LinkOf, Opens
  <2>3. vb = va
    BY <1>7, <1>13
  <2> QED
    BY <1>1, <1>2, <1>6, <1>13, <2>1, <2>2, <2>3 DEF v
<1>14. CASE e.k = "prompt" /\ e.id # None /\ ~PromptSeen(b, e.id)
  <2>1. IsReducer(b) /\ HeldRows(b, d) /\ PromptsHeld(b)
    BY <1>6 DEF Held, HeldRows
  <2>2. Only(b, asked, {"prompts"}) /\ asked.prompts = b.prompts \cup {e.id} /\ asked.links = b.links
    BY <2>1 DEF Only, IsReducer, ReducerFields
  <2> HIDE DEF asked
  <2>3. /\ asked.d = b.d /\ asked.st = b.st /\ asked.start = b.start /\ asked.turns = b.turns /\ asked.dirty = b.dirty
        /\ asked.items = b.items /\ asked.ops = b.ops /\ asked.newOps = b.newOps /\ asked.updated = b.updated
        /\ asked.inputs = b.inputs /\ asked.queried = b.queried /\ asked.usage = b.usage /\ IsReducer(asked)
    BY <2>2 DEF Only, ReducerFields
  <2>4. HeldRows(asked, d)
    BY <2>1, <2>3 DEF HeldRows
  <2>5. ViewOf(asked) = vb
    BY <1>6, <2>3 DEF ViewOf
  <2>6. PromptsWith(asked, e, e.k = "prompt")
    <3>1. ASSUME NEW u, u # None PROVE PromptSeen(asked, u) <=> (Asked(ViewOf(asked), u) \/ u = e.id)
      <4>1. PromptSeen(b, u) <=> Asked(vb, u)
        BY <1>6, <2>1, <3>1 DEF PromptsHeld
      <4>2. PromptSeen(asked, u) <=> (PromptSeen(b, u) \/ u = e.id)
        BY <2>2, <2>3 DEF PromptSeen
      <4> QED
        BY <2>5, <4>1, <4>2
    <3> QED
      BY <1>14, <3>1 DEF PromptsWith
  <2>7. e.k # "inherited" /\ ~Repeated(va, e) /\ ApplyEvent(r, e) = Land(asked, e)
    BY <1>1, <1>10, <1>14
  <2> QED
    BY <1>6, <1>11, <2>2, <2>4, <2>5, <2>6, <2>7 DEF v
<1>15. CASE e.k # "inherited" /\ ~(e.k = "prompt" /\ e.id # None)
  <2>1. HeldRows(b, d) /\ PromptsHeld(b)
    BY <1>6 DEF Held
  <2>2. PromptsWith(b, e, e.k = "prompt")
    BY <1>15, <2>1 DEF PromptsHeld, PromptsWith
  <2>3. ~Repeated(va, e) /\ ApplyEvent(r, e) = Land(b, e)
    BY <1>1, <1>15 DEF Repeated
  <2> QED
    BY <1>6, <1>11, <1>15, <2>1, <2>2, <2>3 DEF v
<1> QED
  BY <1>12, <1>13, <1>14, <1>15
-----------------------------------------------------------------------------
(* A batch begins with the stored rows and ends with the rows it stands for. *)

\* A new reducer has changed nothing.
LEMMA NewHeld ==
    ASSUME NEW d, RowsStand(d)
    PROVE  LET r == NewReducer(d)
           IN  Held(r, d) /\ ViewOf(r) = CoreOf(d) /\ r.links = {} /\ r.newOps = {} /\ r.updated = {}
<1> DEFINE r == NewReducer(d)
<1>1. /\ IsReducer(r) /\ r.d = d /\ r.start = d.st.through /\ r.st = d.st /\ r.turns = NoEntry /\ r.dirty = {}
      /\ r.ops = NoEntry /\ r.newOps = {} /\ r.updated = {} /\ r.inputs = {} /\ r.queried = {} /\ r.prompts = {}
      /\ r.usage = NoEntry /\ r.links = {} /\ r.items = {}
  BY DEF NewReducer, IsReducer, ReducerFields
<1> HIDE DEF r
<1>2. IsTable(d.turns) /\ IsTable(d.ops) /\ IsTable(d.usage)
  BY DEF RowsStand
<1>3. Onto(NoEntry, d.turns) = d.turns /\ Onto(NoEntry, d.ops) = d.ops /\ Onto(NoEntry, d.usage) = d.usage
  BY <1>2, NothingOnto DEF IsTable
<1>4. ViewOf(r) = CoreOf(d)
  BY <1>1, <1>3 DEF ViewOf, CoreOf
<1>5. DOMAIN NoEntry = {}
  BY DEF NoEntry
<1>6. HeldRows(r, d)
  BY <1>1, <1>5 DEF HeldRows, TurnsHeld, OpsHeld, LookedUp
<1>7. ViewOf(r).turns = d.turns
  BY <1>4 DEF CoreOf
<1>8. PromptsHeld(r)
  BY <1>1, <1>7 DEF PromptsHeld, PromptSeen, Asked
<1> QED
  BY <1>1, <1>4, <1>6, <1>8 DEF Held, r

\* What a batch stores of its operations.
StoredOp(r, k) ==
    IF k \in r.newOps \cup r.inputs THEN r.ops[k] ELSE [r.ops[k] EXCEPT !.input = r.d.ops[k].input]

\* Every operation is stored as it stands.
LEMMA StoredAsIs ==
    ASSUME NEW r, NEW d, HeldRows(r, d), NEW c, NEW n, Formed(ViewOf(r), c, n), NEW k \in DOMAIN r.ops
    PROVE  StoredOp(r, k) = r.ops[k] /\ ViewOf(r).ops[k] = r.ops[k]
<1>1. r.d = d /\ OpsHeld(r.ops, r.newOps, r.updated, r.inputs, d.ops)
  BY DEF HeldRows
<1>2. ViewOf(r).ops = Onto(r.ops, r.d.ops)
  BY ViewIs
<1>3. k \in DOMAIN ViewOf(r).ops /\ ViewOf(r).ops[k] = r.ops[k]
  BY <1>2 DEF Onto
<1>4. OpRow(r.ops[k])
  BY <1>3 DEF Formed, OpsFormed
<1>5. CASE k \in r.newOps \cup r.inputs
  BY <1>3, <1>5 DEF StoredOp
<1>6. CASE k \notin r.newOps \cup r.inputs
  <2>1. r.ops[k].input = d.ops[k].input
    BY <1>1, <1>6 DEF OpsHeld
  <2>2. [r.ops[k] EXCEPT !.input = d.ops[k].input] = r.ops[k]
    BY <1>4, <2>1 DEF OpRow
  <2> QED
    BY <1>1, <1>3, <1>6, <2>2 DEF StoredOp
<1> QED
  BY <1>5, <1>6

\* The rows a batch stores are those its reducer stands for.
LEMMA PersistIs ==
    ASSUME NEW r, NEW d, Held(r, d), RowsStand(d), Formed(ViewOf(r), r.st.through, r.st.through)
    PROVE  /\ CoreOf(Persist(r)) = ViewOf(r) /\ RowsStand(Persist(r))
           /\ Persist(r).links = d.links \cup r.links
           /\ DOMAIN Persist(r).ops = DOMAIN d.ops \cup r.newOps \cup r.updated
<1> DEFINE w == Persist(r)
           v == ViewOf(r)
           changed == r.newOps \cup r.updated
           again == r.newOps \cup r.inputs
<1>1. /\ HeldRows(r, d) /\ r.d = d /\ TurnsHeld(r.turns, r.dirty, d.turns)
      /\ OpsHeld(r.ops, r.newOps, r.updated, r.inputs, d.ops)
  BY DEF Held, HeldRows
<1>2. /\ w.st = r.st /\ w.turns = Onto([t \in r.dirty |-> r.turns[t]], d.turns)
      /\ w.ops = Onto([k \in changed |-> StoredOp(r, k)], d.ops)
      /\ w.items = d.items \cup r.items /\ w.usage = Onto(r.usage, d.usage) /\ w.links = d.links \cup r.links
      /\ w.touches = Onto([k \in again |-> r.ops[k].input], d.touches)
      /\ w = [f \in RowFields |-> w[f]]
  BY <1>1 DEF Persist, StoredOp, RowFields
<1> HIDE DEF w
<1>3. /\ v.st = r.st /\ v.turns = Onto(r.turns, d.turns)
      /\ v.ops = Onto(r.ops, d.ops) /\ v.items = d.items \cup r.items
      /\ v.usage = Onto(r.usage, d.usage) /\ v = [f \in ViewFields |-> v[f]]
  BY <1>1, ViewIs
<1>4. w.turns = v.turns
  <2>1. r.dirty \in SUBSET DOMAIN r.turns
    BY <1>1 DEF TurnsHeld
  <2>2. \A k \in DOMAIN r.turns : k \notin r.dirty => k \in DOMAIN d.turns /\ r.turns[k] = d.turns[k]
    BY <1>1 DEF TurnsHeld
  <2> QED
    BY <1>2, <1>3, <2>1, <2>2, ChangedOnto
<1>5. \A k \in DOMAIN r.ops : StoredOp(r, k) = r.ops[k] /\ v.ops[k] = r.ops[k]
  BY <1>1, StoredAsIs
<1>6. changed \in SUBSET DOMAIN r.ops /\ again \in SUBSET DOMAIN r.ops
  BY <1>1 DEF OpsHeld
<1>7. w.ops = v.ops
  <2>1. [k \in changed |-> StoredOp(r, k)] = [k \in changed |-> r.ops[k]]
    BY <1>5, <1>6
  <2>2. \A k \in DOMAIN r.ops : k \notin changed => k \in DOMAIN d.ops /\ r.ops[k] = d.ops[k]
    BY <1>1 DEF OpsHeld
  <2>3. Onto([k \in changed |-> r.ops[k]], d.ops) = Onto(r.ops, d.ops)
    <3> HIDE DEF changed
    <3> QED
      BY <1>6, <2>2, ChangedOnto
  <2> QED
    BY <1>2, <1>3, <2>1, <2>3
<1>8. CoreOf(w) = v
  <2>1. /\ CoreOf(w) = [f \in ViewFields |-> CoreOf(w)[f]] /\ CoreOf(w).st = w.st /\ CoreOf(w).turns = w.turns
        /\ CoreOf(w).ops = w.ops /\ CoreOf(w).items = w.items /\ CoreOf(w).usage = w.usage
    BY DEF CoreOf, ViewFields
  <2> HIDE DEF v
  <2>2. /\ CoreOf(w).st = v.st /\ CoreOf(w).turns = v.turns /\ CoreOf(w).ops = v.ops
        /\ CoreOf(w).items = v.items /\ CoreOf(w).usage = v.usage
    BY <1>2, <1>3, <1>4, <1>7, <2>1
  <2> QED
    BY <1>3, <2>1, <2>2, SameView
<1>9. w.touches = [k \in DOMAIN w.ops |-> w.ops[k].input]
  <2>1. d.touches = [k \in DOMAIN d.ops |-> d.ops[k].input]
    BY DEF RowsStand
  <2>2. DOMAIN w.ops = DOMAIN r.ops \cup DOMAIN d.ops
    BY <1>3, <1>7 DEF Onto
  <2>3. DOMAIN r.ops \subseteq again \cup DOMAIN d.ops
    BY <1>1 DEF OpsHeld
  <2>4. w.touches = [k \in again \cup DOMAIN d.ops |-> IF k \in again THEN r.ops[k].input ELSE d.ops[k].input]
    BY <1>2, <2>1 DEF Onto
  <2>5. ASSUME NEW k \in DOMAIN w.ops
        PROVE  w.ops[k].input = IF k \in again THEN r.ops[k].input ELSE d.ops[k].input
    <3>1. CASE k \in again
      BY <1>5, <1>6, <1>7, <3>1
    <3>2. CASE k \notin again /\ k \in DOMAIN r.ops
      BY <1>1, <1>5, <1>7, <3>2 DEF OpsHeld
    <3>3. CASE k \notin again /\ k \notin DOMAIN r.ops
      BY <1>3, <1>7, <2>2, <3>3 DEF Onto
    <3> QED
      BY <3>1, <3>2, <3>3
  <2>6. again \cup DOMAIN d.ops = DOMAIN w.ops
    BY <1>6, <2>2, <2>3
  <2> HIDE DEF again
  <2> QED
    BY <2>4, <2>5, <2>6
<1>10. IsTable(w.turns) /\ IsTable(w.ops) /\ IsTable(w.usage)
  BY <1>2 DEF IsTable, Onto
<1>11. RowsStand(w)
  BY <1>2, <1>8, <1>9, <1>10 DEF RowsStand
<1>12. DOMAIN w.ops = DOMAIN d.ops \cup changed
  BY <1>2 DEF Onto
<1> QED
  BY <1>2, <1>8, <1>11, <1>12 DEF w
-----------------------------------------------------------------------------
(***************************************************************************)
(* Folds over the offsets: that of the rows, that of a batch and that of   *)
(* batches of one event.                                                   *)
(***************************************************************************)
Fold(kind, lg, at, from) == [kind |-> kind, lg |-> lg, at |-> at, from |-> from]
FoldOne(fold, i, x) ==
    LET e == EventIn(fold.lg, i)
    IN  IF i \notin fold.at THEN x
        ELSE IF fold.kind = "rows" THEN SeeApplied(x, e)
        ELSE IF fold.kind = "batch" THEN ApplyEvent(x, e) ELSE Persist(ApplyEvent(NewReducer(x), e))
FoldStep(fold, it, i) == IF i = 0 THEN fold.from ELSE FoldOne(fold, i, it[i - 1])

\* The fold has a value up to an offset.
FoldSolved(fold, n) == \E it : \A i \in 0 .. n : it[i] = FoldStep(fold, it, i)

\* It has one up to every offset.
LEMMA FoldUpTo ==
    ASSUME NEW fold, NEW n \in Nat
    PROVE  FoldSolved(fold, n)
<1> DEFINE Bad == {m \in Nat : ~ FoldSolved(fold, m)}
<1> SUFFICES ASSUME ~ FoldSolved(fold, n) PROVE FALSE
  OBVIOUS
<1>1. PICK m \in Bad : \A y \in Bad : m <= y
  <2>1. Bad \in SUBSET Nat /\ Bad # {}
    OBVIOUS
  <2> HIDE DEF Bad
  <2> QED
    BY <2>1, FirstOf
<1>2. m # 0
  <2> DEFINE it == [i \in 0 .. 0 |-> fold.from]
  <2>1. \A i \in 0 .. 0 : it[i] = FoldStep(fold, it, i)
    BY DEF FoldStep
  <2> HIDE DEF it
  <2>2. FoldSolved(fold, 0)
    BY <2>1 DEF FoldSolved
  <2> QED
    BY <2>2
<1>3. m - 1 \in Nat /\ FoldSolved(fold, m - 1)
  BY <1>1, <1>2
<1>4. PICK old : \A i \in 0 .. (m - 1) : old[i] = FoldStep(fold, old, i)
  BY <1>3 DEF FoldSolved
<1> DEFINE it == [i \in 0 .. m |-> FoldStep(fold, old, i)]
<1>5. ASSUME NEW i \in 0 .. m PROVE it[i] = FoldStep(fold, it, i)
  <2>1. it[i] = FoldStep(fold, old, i)
    OBVIOUS
  <2>2. i # 0 => it[i - 1] = old[i - 1]
    <3>1. i # 0 => i - 1 \in 0 .. m /\ i - 1 \in 0 .. (m - 1)
      BY <1>3
    <3> QED
      BY <1>4, <3>1
  <2> HIDE DEF it
  <2> QED
    BY <2>1, <2>2 DEF FoldStep
<1> HIDE DEF it
<1>6. FoldSolved(fold, m)
  BY <1>5 DEF FoldSolved
<1> QED
  BY <1>1, <1>6

\* It has one over all offsets.
LEMMA FoldIs ==
    ASSUME NEW fold
    PROVE  \E it : it = [i \in 0 .. MaxLine |-> FoldStep(fold, it, i)]
<1>1. FoldSolved(fold, MaxLine)
  BY FoldUpTo, ReducerAssumption
<1>2. PICK old : \A i \in 0 .. MaxLine : old[i] = FoldStep(fold, old, i)
  BY <1>1 DEF FoldSolved
<1> DEFINE it == [i \in 0 .. MaxLine |-> old[i]]
<1>3. ASSUME NEW i \in 0 .. MaxLine PROVE it[i] = FoldStep(fold, it, i)
  <2>1. it[i] = FoldStep(fold, old, i)
    BY <1>2
  <2>2. i # 0 => it[i - 1] = old[i - 1]
    <3>1. i # 0 => i - 1 \in 0 .. MaxLine
      BY ReducerAssumption
    <3> QED
      BY <3>1
  <2> HIDE DEF it
  <2> QED
    BY <2>1, <2>2 DEF FoldStep
<1>4. it = [i \in 0 .. MaxLine |-> it[i]]
  OBVIOUS
<1> HIDE DEF it
<1>5. it = [i \in 0 .. MaxLine |-> FoldStep(fold, it, i)]
  BY <1>3, <1>4
<1> QED
  BY <1>5

\* The rows after each offset.
LEMMA ViewAtIs ==
    ASSUME NEW lg
    PROVE  /\ ViewAt(lg)[0] = CoreOf(NoRows)
           /\ \A i \in 1 .. MaxLine :
                ViewAt(lg)[i] = IF i \in DOMAIN lg THEN SeeApplied(ViewAt(lg)[i - 1], EventIn(lg, i))
                                ELSE ViewAt(lg)[i - 1]
<1> DEFINE Body(it, i) ==
             IF i = 0 THEN CoreOf(NoRows)
             ELSE IF i \in DOMAIN lg THEN SeeApplied(it[i - 1], EventIn(lg, i)) ELSE it[i - 1]
           fold == Fold("rows", lg, DOMAIN lg, CoreOf(NoRows))
<1>1. \A it, i : Body(it, i) = FoldStep(fold, it, i)
  BY DEF FoldStep, FoldOne, Fold
<1>2. PICK old : old = [i \in 0 .. MaxLine |-> FoldStep(fold, old, i)]
  BY FoldIs
<1>3. old = [i \in 0 .. MaxLine |-> Body(old, i)]
  BY <1>1, <1>2
<1>4. ViewAt(lg) = CHOOSE it : it = [i \in 0 .. MaxLine |-> Body(it, i)]
  BY DEF ViewAt
<1> HIDE DEF Body
<1>5. ViewAt(lg) = [i \in 0 .. MaxLine |-> Body(ViewAt(lg), i)]
  BY <1>3, <1>4
<1>6. \A i \in 0 .. MaxLine : ViewAt(lg)[i] = Body(ViewAt(lg), i)
  BY <1>5
<1> QED
  BY <1>6, ReducerAssumption DEF Body

\* A batch.
IsBatch(after, d, batch) ==
    /\ after[0] = NewReducer(d)
    /\ \A i \in 1 .. MaxLine :
         after[i] = IF i \in batch THEN ApplyEvent(after[i - 1], EventAt(i)) ELSE after[i - 1]
LEMMA ReduceIs ==
    ASSUME NEW d, NEW batch
    PROVE  \E after : IsBatch(after, d, batch) /\ Reduce(d, batch) = after[MaxLine]
<1> DEFINE Body(it, i) ==
             IF i = 0 THEN NewReducer(d)
             ELSE IF i \in batch THEN ApplyEvent(it[i - 1], EventAt(i)) ELSE it[i - 1]
           fold == Fold("batch", log, batch, NewReducer(d))
<1>1. \A it, i : Body(it, i) = FoldStep(fold, it, i)
  BY DEF FoldStep, FoldOne, Fold, EventIn, EventAt
<1>2. PICK old : old = [i \in 0 .. MaxLine |-> FoldStep(fold, old, i)]
  BY FoldIs
<1>3. old = [i \in 0 .. MaxLine |-> Body(old, i)]
  BY <1>1, <1>2
<1> DEFINE after == CHOOSE it : it = [i \in 0 .. MaxLine |-> Body(it, i)]
<1>4. Reduce(d, batch) = after[MaxLine]
  BY DEF Reduce, Folded
<1> HIDE DEF Body
<1>5. after = [i \in 0 .. MaxLine |-> Body(after, i)]
  BY <1>3
<1> HIDE DEF after
<1>6. \A i \in 0 .. MaxLine : after[i] = Body(after, i)
  BY <1>5
<1>7. IsBatch(after, d, batch)
  BY <1>6, ReducerAssumption DEF Body, IsBatch
<1> QED
  BY <1>4, <1>7

\* Batches of one event.
IsOneByOne(after) ==
    /\ after[0] = NoRows
    /\ \A i \in 1 .. MaxLine :
         after[i] = IF i \in DOMAIN log THEN Persist(ApplyEvent(NewReducer(after[i - 1]), EventAt(i)))
                    ELSE after[i - 1]
LEMMA OneByOneIs == \E after : IsOneByOne(after) /\ OneByOne = after[stored.st.through]
<1> DEFINE Body(it, i) ==
             IF i = 0 THEN NoRows
             ELSE IF i \in DOMAIN log THEN Persist(ApplyEvent(NewReducer(it[i - 1]), EventAt(i))) ELSE it[i - 1]
           fold == Fold("ones", log, DOMAIN log, NoRows)
<1>1. \A it, i : Body(it, i) = FoldStep(fold, it, i)
  BY DEF FoldStep, FoldOne, Fold, EventIn, EventAt
<1>2. PICK old : old = [i \in 0 .. MaxLine |-> FoldStep(fold, old, i)]
  BY FoldIs
<1>3. old = [i \in 0 .. MaxLine |-> Body(old, i)]
  BY <1>1, <1>2
<1> DEFINE after == CHOOSE it : it = [i \in 0 .. MaxLine |-> Body(it, i)]
<1>4. OneByOne = after[stored.st.through]
  BY DEF OneByOne, Folded
<1> HIDE DEF Body
<1>5. after = [i \in 0 .. MaxLine |-> Body(after, i)]
  BY <1>3
<1> HIDE DEF after
<1>6. \A i \in 0 .. MaxLine : after[i] = Body(after, i)
  BY <1>5
<1>7. IsOneByOne(after)
  BY <1>6, ReducerAssumption DEF Body, IsOneByOne
<1> QED
  BY <1>4, <1>7
-----------------------------------------------------------------------------
(* The rows after each line of a transcript. *)

Lines(lg) == DOMAIN lg \subseteq 1 .. MaxLine /\ \A i \in DOMAIN lg : lg[i] \in Line

\* The event a line is read as.
LEMMA EventInIs ==
    ASSUME NEW lg, Lines(lg), NEW i \in DOMAIN lg
    PROVE  LET e == EventIn(lg, i)
           IN  Event(e) /\ e.at = i /\ e.k = lg[i].k /\ e.id = lg[i].id /\ e.tok = lg[i].tok
<1>1. /\ i \in Nat \ {0} /\ DOMAIN lg[i] = {"k", "id", "side", "tool", "cell", "err", "start", "tok", "link"}
      /\ {lg[i].side, lg[i].err} \subseteq BOOLEAN /\ lg[i].tok \in Int
  BY ReducerAssumption DEF Lines
<1> DEFINE e == EventIn(lg, i)
<1>2. /\ e.at = i /\ e.k = lg[i].k /\ e.id = lg[i].id /\ e.tok = lg[i].tok
      /\ e.side = lg[i].side /\ e.err = lg[i].err
  BY <1>1 DEF EventIn, PutAt
<1> HIDE DEF e
<1>3. Event(e)
  BY <1>1, <1>2 DEF Event
<1> QED
  BY <1>2, <1>3 DEF e

\* An event after the rows.
LEMMA LaterThan ==
    ASSUME NEW v, NEW p \in Nat, Formed(v, p, p), NEW e, Event(e), p < e.at
    PROVE  Later(v, e)
<1>1. e.at - 1 \in Nat /\ p <= e.at - 1
  BY DEF Event
<1>2. Formed(v, e.at - 1, e.at - 1)
  BY <1>1, FormedHigher
<1> QED
  BY <1>2 DEF Later

\* The rows up to an offset: their cursor is the last line there is.
Stands(lg, i) ==
    LET v == ViewAt(lg)[i]
        p == v.st.through
    IN  /\ Formed(v, p, p) /\ UsageOwned(v) /\ Balanced(v)
        /\ p <= i /\ (p = 0 \/ p \in DOMAIN lg) /\ \A j \in DOMAIN lg : j <= i => j <= p

\* Nothing has been read at the start.
LEMMA NothingStands ==
    /\ Formed(CoreOf(NoRows), 0, 0) /\ UsageOwned(CoreOf(NoRows)) /\ Balanced(CoreOf(NoRows))
    /\ CoreOf(NoRows).st.through = 0 /\ DOMAIN CoreOf(NoRows).ops = {} /\ DOMAIN CoreOf(NoRows).usage = {}
    /\ Tokens(CoreOf(NoRows)) = 0
<1> DEFINE v == CoreOf(NoRows)
<1>1. /\ v = [f \in ViewFields |-> v[f]] /\ v.st = NewState /\ v.turns = NoEntry /\ v.ops = NoEntry
      /\ v.usage = NoEntry
  BY DEF CoreOf, NoRows, ViewFields
<1> HIDE DEF v
<1>2. DOMAIN NoEntry = {}
  BY DEF NoEntry
<1>3. /\ NewState \in StateRow /\ NewState.main = 0 /\ NewState.side = 0 /\ NewState.through = 0
      /\ NewState.events = 0 /\ NewState.turns = 0
  BY DEF NewState, StateRow
<1>4. Formed(v, 0, 0)
  BY <1>1, <1>2, <1>3 DEF Formed, TurnsFormed, OpsFormed
<1>5. UsageOwned(v)
  BY <1>1, <1>2 DEF UsageOwned
<1>6. \A f : DOMAIN f = {} => SumOf(f) = 0
  <2> SUFFICES ASSUME NEW f, DOMAIN f = {} PROVE SumOf(f) = 0
    OBVIOUS
  <2>1. SumOver(f, {}) = 0
    BY SumZero, FS_EmptySet
  <2>2. SumOf(f) = SumOver(f, DOMAIN f)
    BY DEF SumOf, SumOver
  <2> QED
    BY <2>1, <2>2
<1>7. DOMAIN EventsOf(v.turns) = {} /\ DOMAIN TokensOf(v.turns) = {}
  BY <1>1, <1>2 DEF EventsOf, TokensOf
<1>8. Cardinality(DOMAIN v.turns) = 0
  BY <1>1, <1>2, FS_EmptySet
<1>9. Balanced(v) /\ Tokens(v) = 0
  BY <1>1, <1>3, <1>6, <1>7, <1>8 DEF Balanced, Tokens
<1> QED
  BY <1>1, <1>2, <1>3, <1>4, <1>5, <1>9 DEF v

\* The rows of a transcript stand after every offset, and a line takes one step.
LEMMA ViewStep ==
    ASSUME NEW lg, Lines(lg), NEW i \in 1 .. MaxLine, i \in DOMAIN lg, Stands(lg, i - 1)
    PROVE  LET v == ViewAt(lg)[i - 1]
               w == ViewAt(lg)[i]
               e == EventIn(lg, i)
           IN  /\ Later(v, e) /\ UsageOwned(v) /\ v.st.through < i /\ w = SeeApplied(v, e)
               /\ Formed(w, i, i) /\ EventStep(v, w, e) /\ w.st.through = i /\ Stands(lg, i)
<1> DEFINE v == ViewAt(lg)[i - 1]
           w == ViewAt(lg)[i]
           e == EventIn(lg, i)
           p == v.st.through
<1>1. w = SeeApplied(v, e)
  BY ViewAtIs
<1>2. Event(e) /\ e.at = i
  BY EventInIs
<1>3. Formed(v, p, p) /\ UsageOwned(v) /\ Balanced(v) /\ p <= i - 1
  BY DEF Stands
<1> HIDE DEF v, w, e
<1>4. p \in Nat
  BY <1>3 DEF Formed
<1>5. Later(v, e)
  <2>1. p < e.at
    BY <1>2, <1>3, <1>4
  <2> HIDE DEF p
  <2> QED
    BY <1>2, <1>3, <1>4, <2>1, LaterThan
<1>6. Formed(w, i, i) /\ EventStep(v, w, e) /\ w.st.through = i
  BY <1>1, <1>2, <1>3, <1>5, AppliedFormed
<1>7. UsageOwned(w) /\ Balanced(w)
  BY <1>3, <1>6 DEF EventStep, UsageStep
<1>8. Stands(lg, i)
  BY <1>6, <1>7 DEF Stands, w
<1> QED
  BY <1>1, <1>3, <1>4, <1>5, <1>6, <1>8 DEF v, w, e

\* They stand after every offset.
LEMMA AllStand ==
    ASSUME NEW lg, Lines(lg), NEW n \in 0 .. MaxLine
    PROVE  Stands(lg, n)
<1> DEFINE Bad == {m \in 0 .. MaxLine : ~ Stands(lg, m)}
<1> SUFFICES ASSUME ~ Stands(lg, n) PROVE FALSE
  OBVIOUS
<1>0. MaxLine \in Nat
  BY ReducerAssumption
<1>1. PICK m \in Bad : \A y \in Bad : m <= y
  <2>1. Bad \in SUBSET Nat /\ Bad # {}
    BY <1>0
  <2> HIDE DEF Bad
  <2> QED
    BY <2>1, FirstOf
<1>2. Stands(lg, 0)
  <2>1. ViewAt(lg)[0] = CoreOf(NoRows)
    BY ViewAtIs
  <2>2. \A j \in DOMAIN lg : ~(j <= 0)
    BY DEF Lines
  <2> QED
    BY <2>1, <2>2, NothingStands DEF Stands
<1>3. m \in 1 .. MaxLine /\ m - 1 \in 0 .. MaxLine
  BY <1>0, <1>1, <1>2
<1>4. Stands(lg, m - 1)
  BY <1>0, <1>1, <1>3
<1>5. CASE m \in DOMAIN lg
  BY <1>1, <1>3, <1>4, <1>5, ViewStep
<1>6. CASE m \notin DOMAIN lg
  <2>1. ViewAt(lg)[m] = ViewAt(lg)[m - 1]
    BY <1>3, <1>6, ViewAtIs
  <2>2. \A j \in DOMAIN lg : j <= m => j <= m - 1
    BY <1>3, <1>6 DEF Lines
  <2>3. ViewAt(lg)[m].st.through \in Nat
    BY <1>4, <2>1 DEF Stands, Formed
  <2>4. Stands(lg, m)
    BY <1>3, <1>4, <2>1, <2>2, <2>3 DEF Stands
  <2> QED
    BY <1>1, <2>4
<1> QED
  BY <1>5, <1>6

\* Where there is no line the rows are the same.
LEMMA ViewBetween ==
    ASSUME NEW lg, NEW p \in 0 .. MaxLine, NEW n \in 0 .. MaxLine, p <= n,
           \A j \in DOMAIN lg : ~(p < j /\ j <= n)
    PROVE  ViewAt(lg)[n] = ViewAt(lg)[p]
<1> DEFINE Bad == {m \in p .. n : ViewAt(lg)[m] # ViewAt(lg)[p]}
<1> SUFFICES ASSUME ViewAt(lg)[n] # ViewAt(lg)[p] PROVE FALSE
  OBVIOUS
<1>0. MaxLine \in Nat
  BY ReducerAssumption
<1>1. PICK m \in Bad : \A y \in Bad : m <= y
  <2>1. Bad \in SUBSET Nat /\ Bad # {}
    BY <1>0
  <2> HIDE DEF Bad
  <2> QED
    BY <2>1, FirstOf
<1>2. m # p /\ m \in 1 .. MaxLine /\ m - 1 \in p .. n /\ m \notin DOMAIN lg
  BY <1>0, <1>1
<1>3. ViewAt(lg)[m - 1] = ViewAt(lg)[p]
  BY <1>0, <1>1, <1>2
<1>4. ViewAt(lg)[m] = ViewAt(lg)[m - 1]
  BY <1>2, ViewAtIs
<1> QED
  BY <1>1, <1>3, <1>4

\* Rows depend on the lines up to them only.
LEMMA ViewSame ==
    ASSUME NEW lg, NEW nw, NEW n \in 0 .. MaxLine,
           \A i \in 1 .. n : (i \in DOMAIN lg <=> i \in DOMAIN nw) /\ (i \in DOMAIN lg => lg[i] = nw[i])
    PROVE  ViewAt(nw)[n] = ViewAt(lg)[n]
<1> DEFINE Bad == {m \in 0 .. n : ViewAt(nw)[m] # ViewAt(lg)[m]}
<1> SUFFICES ASSUME ViewAt(nw)[n] # ViewAt(lg)[n] PROVE FALSE
  OBVIOUS
<1>0. MaxLine \in Nat
  BY ReducerAssumption
<1>1. PICK m \in Bad : \A y \in Bad : m <= y
  <2>1. Bad \in SUBSET Nat /\ Bad # {}
    BY <1>0
  <2> HIDE DEF Bad
  <2> QED
    BY <2>1, FirstOf
<1>2. m # 0
  BY <1>1, ViewAtIs
<1>3. m \in 1 .. n /\ m \in 1 .. MaxLine /\ m - 1 \in 0 .. n
  BY <1>0, <1>1, <1>2
<1>4. ViewAt(nw)[m - 1] = ViewAt(lg)[m - 1]
  BY <1>0, <1>1, <1>3
<1>5. (m \in DOMAIN lg => EventIn(nw, m) = EventIn(lg, m)) /\ (m \in DOMAIN lg <=> m \in DOMAIN nw)
  BY <1>3 DEF EventIn
<1>6. ViewAt(nw)[m] = ViewAt(lg)[m]
  BY <1>3, <1>4, <1>5, ViewAtIs
<1> QED
  BY <1>1, <1>6
-----------------------------------------------------------------------------
(* A batch over stored rows. *)

\* The links of the side chains opened up to an offset.
LinksTo(lg, p) == UNION {LinkOf(ViewAt(lg)[i - 1], EventIn(lg, i)) : i \in {j \in DOMAIN lg : j <= p}}

\* The rows are those of the transcript up to the cursor.
Exact(d, lg) == CoreOf(d) = ViewAt(lg)[d.st.through] /\ LinksTo(lg, d.st.through) \subseteq d.links

\* The batch leaves out no line.
InOrder(d, batch) == \A j \in batch : \A i \in DOMAIN log : d.st.through < i /\ i <= j => i \in batch

BatchOver(d, batch) ==
    /\ RowsStand(d) /\ UsageOwned(CoreOf(d)) /\ d.st.through \in 0 .. MaxLine
    /\ batch \subseteq DOMAIN log /\ \A j \in batch : d.st.through < j

BatchAt(r, d, batch, i) ==
    LET p == r.st.through
    IN  /\ Held(r, d) /\ Formed(ViewOf(r), p, p) /\ UsageOwned(ViewOf(r))
        /\ p = d.st.through \/ (p \in batch /\ p <= i)
        /\ \A j \in batch : j <= i => j <= p
ExactAt(r, d) ==
    LET p == r.st.through
    IN  ViewOf(r) = ViewAt(log)[p] /\ LinksTo(log, p) \subseteq d.links \cup r.links

\* One more line adds its link.
LEMMA LinksNext ==
    ASSUME NEW lg, NEW p \in Nat, NEW i \in DOMAIN lg, DOMAIN lg \subseteq Nat, p < i,
           \A j \in DOMAIN lg : ~(p < j /\ j < i)
    PROVE  LinksTo(lg, i) = LinksTo(lg, p) \cup LinkOf(ViewAt(lg)[i - 1], EventIn(lg, i))
<1> DEFINE L(j) == LinkOf(ViewAt(lg)[j - 1], EventIn(lg, j))
<1>1. {j \in DOMAIN lg : j <= i} = {j \in DOMAIN lg : j <= p} \cup {i}
  OBVIOUS
<1>2. LinksTo(lg, i) = UNION {L(j) : j \in {j \in DOMAIN lg : j <= i}}
  BY DEF LinksTo
<1>3. LinksTo(lg, p) = UNION {L(j) : j \in {j \in DOMAIN lg : j <= p}}
  BY DEF LinksTo
<1> HIDE DEF L
<1>4. LinksTo(lg, i) = LinksTo(lg, p) \cup L(i)
  BY <1>1, <1>2, <1>3
<1> QED
  BY <1>4 DEF L

\* A batch takes its next event.
LEMMA BatchTakes ==
    ASSUME NEW d, NEW batch, BatchOver(d, batch), Lines(log), NEW i \in 1 .. MaxLine, i \in batch,
           NEW r, BatchAt(r, d, batch, i - 1)
    PROVE  LET l == ApplyEvent(r, EventAt(i))
           IN  /\ BatchAt(l, d, batch, i)
               /\ InOrder(d, batch) /\ ExactAt(r, d) => ExactAt(l, d)
<1> DEFINE e == EventIn(log, i)
           l == ApplyEvent(r, e)
           v == ViewOf(r)
           p == r.st.through
<1>0. EventAt(i) = e /\ i \in DOMAIN log
  BY DEF EventAt, EventIn, BatchOver
<1>1. Event(e) /\ e.at = i
  BY <1>0, EventInIs
<1>2. /\ Held(r, d) /\ Formed(v, p, p) /\ UsageOwned(v) /\ (p = d.st.through \/ (p \in batch /\ p <= i - 1))
      /\ \A j \in batch : j <= i - 1 => j <= p
  BY DEF BatchAt
<1>3. RowsStand(d) /\ d.st.through \in Nat /\ d.st.through < i /\ i \in Nat
  BY DEF BatchOver
<1>4. p \in Nat /\ p < i
  BY <1>2, <1>3 DEF Formed
<1>5. Before(d, e.at)
  BY <1>1, <1>3 DEF Before
<1> HIDE DEF e
<1>6. Later(v, e)
  <2>1. p < e.at
    BY <1>1, <1>4
  <2> HIDE DEF p, v
  <2> QED
    BY <1>1, <1>2, <1>4, <2>1, LaterThan
<1>7. Held(l, d) /\ ViewOf(l) = SeeApplied(v, e) /\ l.links = r.links \cup LinkOf(v, e)
  BY <1>2, <1>5, <1>6, EventHeld
<1>8. Formed(ViewOf(l), i, i) /\ ViewOf(l).st.through = i /\ UsageOwned(ViewOf(l))
  <2> HIDE DEF v, l
  <2>1. LET w == SeeApplied(v, e) IN Formed(w, e.at, e.at) /\ EventStep(v, w, e) /\ w.st.through = e.at
    BY <1>2, <1>6, AppliedFormed
  <2> QED
    BY <1>1, <1>7, <2>1 DEF EventStep, UsageStep
<1>9. l.st.through = i
  <2> HIDE DEF l
  <2>1. ViewOf(l).st = l.st
    BY ViewIs
  <2> QED
    BY <1>8, <2>1
<1> HIDE DEF l
<1>10. BatchAt(l, d, batch, i)
  BY <1>7, <1>8, <1>9 DEF BatchAt
<1>11. ASSUME InOrder(d, batch), ExactAt(r, d) PROVE ExactAt(l, d)
  <2>1. \A j \in DOMAIN log : ~(p < j /\ j <= i - 1)
    <3> SUFFICES ASSUME NEW j \in DOMAIN log, p < j, j <= i - 1 PROVE FALSE
      OBVIOUS
    <3>0. j \in Nat
      BY DEF Lines
    <3>1. d.st.through < j /\ j <= i
      BY <1>2, <1>3, <1>4, <3>0 DEF BatchOver
    <3>2. j \in batch
      BY <1>11, <3>1 DEF InOrder
    <3> QED
      BY <1>2, <1>4, <3>0, <3>2
  <2>2. p \in 0 .. MaxLine /\ i - 1 \in 0 .. MaxLine /\ p <= i - 1
    BY <1>4, ReducerAssumption
  <2>3. ViewAt(log)[i - 1] = ViewAt(log)[p]
    <3> HIDE DEF p
    <3> DEFINE n == i - 1
    <3>1. n \in 0 .. MaxLine /\ p <= n /\ \A j \in DOMAIN log : ~(p < j /\ j <= n)
      BY <2>1, <2>2
    <3> HIDE DEF n
    <3>2. ViewAt(log)[n] = ViewAt(log)[p]
      BY <2>2, <3>1, ViewBetween
    <3> QED
      BY <3>2 DEF n
  <2>4. v = ViewAt(log)[i - 1] /\ LinksTo(log, p) \subseteq d.links \cup r.links
    BY <1>11, <2>3 DEF ExactAt
  <2>5. ViewAt(log)[i] = SeeApplied(ViewAt(log)[i - 1], EventIn(log, i))
    BY <1>0, ViewAtIs
  <2>6. LinksTo(log, i) = LinksTo(log, p) \cup LinkOf(ViewAt(log)[i - 1], EventIn(log, i))
    <3>1. DOMAIN log \subseteq Nat /\ \A j \in DOMAIN log : ~(p < j /\ j < i)
      BY <2>1, <1>4 DEF Lines
    <3> HIDE DEF p
    <3> QED
      BY <1>0, <1>4, <3>1, LinksNext
  <2>7. e = EventIn(log, i)
    BY DEF e
  <2> HIDE DEF v, p
  <2> QED
    BY <1>7, <1>9, <2>4, <2>5, <2>6, <2>7 DEF ExactAt
<1> QED
  BY <1>0, <1>10, <1>11 DEF l

\* A batch ends where its last event is, and with the rows of the transcript.
LEMMA BatchEnds ==
    ASSUME NEW d, NEW batch, BatchOver(d, batch), Lines(log)
    PROVE  LET r == Reduce(d, batch)
           IN  BatchAt(r, d, batch, MaxLine) /\ (InOrder(d, batch) /\ Exact(d, log) => ExactAt(r, d))
<1> DEFINE Right(r) == InOrder(d, batch) /\ Exact(d, log) => ExactAt(r, d)
<1>0. MaxLine \in Nat
  BY ReducerAssumption
<1>1. PICK after : IsBatch(after, d, batch) /\ Reduce(d, batch) = after[MaxLine]
  BY ReduceIs
<1> DEFINE Good(m) == BatchAt(after[m], d, batch, m) /\ Right(after[m])
           Bad == {m \in 0 .. MaxLine : ~ Good(m)}
<1>2. Good(0)
  <2> DEFINE r == NewReducer(d)
  <2>1. RowsStand(d) /\ UsageOwned(CoreOf(d)) /\ batch \subseteq DOMAIN log
    BY DEF BatchOver
  <2>2. Held(r, d) /\ ViewOf(r) = CoreOf(d) /\ r.links = {}
    BY <2>1, NewHeld
  <2>3. after[0] = r /\ r.st = d.st
    BY <1>1 DEF IsBatch, NewReducer
  <2> HIDE DEF r
  <2>4. \A j \in batch : ~(j <= 0)
    BY <2>1 DEF Lines
  <2>5. BatchAt(r, d, batch, 0)
    BY <2>1, <2>2, <2>3, <2>4 DEF BatchAt, RowsStand
  <2>6. Exact(d, log) => ExactAt(r, d)
    BY <2>2, <2>3 DEF Exact, ExactAt
  <2> QED
    BY <2>3, <2>5, <2>6
<1>3. ASSUME NEW m \in 1 .. MaxLine, Good(m - 1) PROVE Good(m)
  <2>1. CASE m \in batch
    <3> DEFINE r == after[m - 1]
    <3>1. after[m] = ApplyEvent(r, EventAt(m))
      BY <1>1, <2>1 DEF IsBatch
    <3>2. BatchAt(r, d, batch, m - 1) /\ Right(r)
      BY <1>3
    <3> HIDE DEF r, Right
    <3>3. LET l == ApplyEvent(r, EventAt(m))
          IN  /\ BatchAt(l, d, batch, m)
              /\ InOrder(d, batch) /\ ExactAt(r, d) => ExactAt(l, d)
      BY <2>1, <3>2, BatchTakes
    <3> QED
      BY <3>1, <3>2, <3>3 DEF Right
  <2>2. CASE m \notin batch
    <3> DEFINE r == after[m - 1]
    <3>1. after[m] = r
      BY <1>1, <2>2 DEF IsBatch
    <3>2. BatchAt(r, d, batch, m - 1) /\ Right(r)
      BY <1>3
    <3> HIDE DEF r, Right
    <3>3. \A j \in batch : j \in Nat /\ (j <= m => j <= m - 1) /\ (j <= m - 1 => j <= m)
      BY <2>2 DEF BatchOver, Lines
    <3>4. BatchAt(r, d, batch, m)
      BY <3>2, <3>3 DEF BatchAt
    <3> QED
      BY <3>1, <3>2, <3>4
  <2> QED
    BY <2>1, <2>2
<1> HIDE DEF Good
<1>4. Good(MaxLine)
  <2> SUFFICES ASSUME ~ Good(MaxLine) PROVE FALSE
    OBVIOUS
  <2>1. PICK m \in Bad : \A y \in Bad : m <= y
    <3>1. Bad \in SUBSET Nat /\ Bad # {}
      BY <1>0
    <3> HIDE DEF Bad
    <3> QED
      BY <3>1, FirstOf
  <2>2. m \in 1 .. MaxLine /\ m - 1 \in 0 .. MaxLine
    BY <1>0, <1>2, <2>1
  <2>3. Good(m - 1)
    BY <1>0, <2>1, <2>2
  <2> QED
    BY <1>3, <2>1, <2>2, <2>3
<1> QED
  BY <1>1, <1>4 DEF Good
-----------------------------------------------------------------------------
(* Batches of one event, and of any number. *)

\* One more event stored in a batch of its own.
LEMMA OneStored ==
    ASSUME NEW d, RowsStand(d), Lines(log), NEW i \in 1 .. MaxLine, i \in DOMAIN log,
           CoreOf(d) = ViewAt(log)[i - 1], d.links = LinksTo(log, i - 1)
    PROVE  LET w == Persist(ApplyEvent(NewReducer(d), EventAt(i)))
           IN  RowsStand(w) /\ CoreOf(w) = ViewAt(log)[i] /\ w.links = LinksTo(log, i)
<1> DEFINE e == EventIn(log, i)
           r == NewReducer(d)
           l == ApplyEvent(r, e)
           v == CoreOf(d)
<1>0. EventAt(i) = e
  BY DEF EventAt, EventIn
<1>1. Event(e) /\ e.at = i
  BY EventInIs
<1>2. Stands(log, i - 1)
  <2>1. i - 1 \in 0 .. MaxLine
    BY ReducerAssumption
  <2> QED
    BY <2>1, AllStand
<1>3. Later(v, e) /\ UsageOwned(v) /\ v.st.through < i /\ ViewAt(log)[i] = SeeApplied(v, e)
  BY <1>2, ViewStep
<1>4. Held(r, d) /\ ViewOf(r) = v /\ r.links = {}
  BY NewHeld
<1>5. Before(d, e.at)
  BY <1>1, <1>3 DEF Before, CoreOf
<1>6. LinksTo(log, i) = LinksTo(log, i - 1) \cup LinkOf(v, e)
  <2> DEFINE p == i - 1
  <2>1. p \in Nat /\ DOMAIN log \subseteq Nat /\ p < i /\ \A j \in DOMAIN log : ~(p < j /\ j < i)
    BY DEF Lines
  <2> HIDE DEF p
  <2>2. LinksTo(log, i) = LinksTo(log, p) \cup LinkOf(ViewAt(log)[i - 1], EventIn(log, i))
    BY <2>1, LinksNext
  <2> QED
    BY <2>2 DEF p
<1> HIDE DEF e, r, v
<1>7. Held(l, d) /\ ViewOf(l) = SeeApplied(v, e) /\ l.links = LinkOf(v, e)
  <2>1. Later(ViewOf(r), e) /\ UsageOwned(ViewOf(r))
    BY <1>3, <1>4
  <2>2. Held(l, d) /\ ViewOf(l) = SeeApplied(ViewOf(r), e) /\ l.links = r.links \cup LinkOf(ViewOf(r), e)
    BY <1>4, <1>5, <2>1, EventHeld
  <2> QED
    BY <1>4, <2>2
<1>8. Formed(ViewOf(l), i, i) /\ l.st.through = i
  <2>1. LET w == SeeApplied(v, e) IN Formed(w, e.at, e.at) /\ EventStep(v, w, e) /\ w.st.through = e.at
    BY <1>3, AppliedFormed
  <2> HIDE DEF l
  <2>2. ViewOf(l).st = l.st
    BY ViewIs
  <2> QED
    BY <1>1, <1>7, <2>1, <2>2
<1> HIDE DEF l
<1>9. CoreOf(Persist(l)) = ViewOf(l) /\ RowsStand(Persist(l)) /\ Persist(l).links = d.links \cup l.links
  BY <1>7, <1>8, PersistIs
<1> QED
  BY <1>0, <1>3, <1>6, <1>7, <1>9 DEF l, r

\* The rows of the transcript, stored event by event.
LEMMA OnesAre ==
    ASSUME Lines(log), NEW after, IsOneByOne(after), NEW n \in 0 .. MaxLine
    PROVE  RowsStand(after[n]) /\ CoreOf(after[n]) = ViewAt(log)[n] /\ after[n].links = LinksTo(log, n)
<1> DEFINE Good(m) == RowsStand(after[m]) /\ CoreOf(after[m]) = ViewAt(log)[m] /\ after[m].links = LinksTo(log, m)
           Bad == {m \in 0 .. MaxLine : ~ Good(m)}
<1>0. MaxLine \in Nat
  BY ReducerAssumption
<1>2. Good(0)
  <2>1. after[0] = NoRows /\ ViewAt(log)[0] = CoreOf(NoRows)
    BY ViewAtIs DEF IsOneByOne
  <2>2. RowsStand(NoRows)
    <3>1. /\ NoRows = [f \in RowFields |-> NoRows[f]] /\ NoRows.turns = NoEntry /\ NoRows.ops = NoEntry
          /\ NoRows.usage = NoEntry /\ NoRows.touches = NoEntry /\ CoreOf(NoRows).st = NoRows.st
      BY DEF NoRows, RowFields, CoreOf
    <3>2. IsTable(NoEntry) /\ NoEntry = [k \in DOMAIN NoEntry |-> NoEntry[k].input]
      BY DEF IsTable, NoEntry
    <3> QED
      BY <3>1, <3>2, NothingStands DEF RowsStand
  <2>3. NoRows.links = {}
    BY DEF NoRows
  <2>4. {j \in DOMAIN log : j <= 0} = {}
    BY DEF Lines
  <2>5. LinksTo(log, 0) = {}
    BY <2>4 DEF LinksTo
  <2> QED
    BY <2>1, <2>2, <2>3, <2>5
<1>3. ASSUME NEW m \in 1 .. MaxLine, Good(m - 1) PROVE Good(m)
  <2> DEFINE d == after[m - 1]
  <2>0. RowsStand(d) /\ CoreOf(d) = ViewAt(log)[m - 1] /\ d.links = LinksTo(log, m - 1)
    BY <1>3
  <2>1. CASE m \in DOMAIN log
    <3>1. after[m] = Persist(ApplyEvent(NewReducer(d), EventAt(m)))
      BY <2>1 DEF IsOneByOne
    <3> HIDE DEF d
    <3>2. LET w == Persist(ApplyEvent(NewReducer(d), EventAt(m)))
          IN  RowsStand(w) /\ CoreOf(w) = ViewAt(log)[m] /\ w.links = LinksTo(log, m)
      BY <2>0, <2>1, OneStored
    <3> QED
      BY <3>1, <3>2
  <2>2. CASE m \notin DOMAIN log
    <3>1. after[m] = d /\ ViewAt(log)[m] = ViewAt(log)[m - 1]
      BY <2>2, ViewAtIs DEF IsOneByOne
    <3>2. {j \in DOMAIN log : j <= m} = {j \in DOMAIN log : j <= m - 1}
      BY <2>2 DEF Lines
    <3>3. LinksTo(log, m) = LinksTo(log, m - 1)
      BY <3>2 DEF LinksTo
    <3> QED
      BY <2>0, <3>1, <3>3
  <2> QED
    BY <2>1, <2>2
<1> HIDE DEF Good
<1>4. Good(n)
  <2> SUFFICES ASSUME ~ Good(n) PROVE FALSE
    OBVIOUS
  <2>1. PICK m \in Bad : \A y \in Bad : m <= y
    <3>1. Bad \in SUBSET Nat /\ Bad # {}
      BY <1>0
    <3> HIDE DEF Bad
    <3> QED
      BY <3>1, FirstOf
  <2>2. m \in 1 .. MaxLine /\ m - 1 \in 0 .. MaxLine
    BY <1>0, <1>2, <2>1
  <2>3. Good(m - 1)
    BY <1>0, <2>1, <2>2
  <2> QED
    BY <1>3, <2>1, <2>2, <2>3
<1> QED
  BY <1>4 DEF Good

\* Rows that differ in their links only.
LEMMA RowsSame ==
    ASSUME NEW a, NEW b, RowsStand(a), RowsStand(b), CoreOf(a) = CoreOf(b)
    PROVE  [a EXCEPT !.links = {}] = [b EXCEPT !.links = {}]
<1>1. a.st = b.st /\ a.turns = b.turns /\ a.ops = b.ops /\ a.items = b.items /\ a.usage = b.usage
  BY DEF CoreOf
<1>2. a.touches = b.touches
  BY <1>1 DEF RowsStand
<1>3. a = [f \in RowFields |-> a[f]] /\ b = [f \in RowFields |-> b[f]]
  BY DEF RowsStand
<1> QED
  BY <1>1, <1>2, <1>3 DEF RowFields

\* Exact rows agree with those of batches of one event.
LEMMA ExactAgrees ==
    ASSUME Lines(log), RowsStand(stored), Exact(stored, log), stored.st.through \in 0 .. MaxLine
    PROVE  /\ [stored EXCEPT !.links = {}] = [OneByOne EXCEPT !.links = {}]
           /\ OneByOne.links \subseteq stored.links
<1>1. PICK after : IsOneByOne(after) /\ OneByOne = after[stored.st.through]
  BY OneByOneIs
<1>2. PICK n \in 0 .. MaxLine : n = stored.st.through
  OBVIOUS
<1>3. RowsStand(after[n]) /\ CoreOf(after[n]) = ViewAt(log)[n] /\ after[n].links = LinksTo(log, n)
  BY <1>1, OnesAre
<1>4. RowsStand(OneByOne) /\ CoreOf(OneByOne) = CoreOf(stored) /\ OneByOne.links \subseteq stored.links
  BY <1>1, <1>2, <1>3 DEF Exact
<1> QED
  BY <1>4, RowsSame
-----------------------------------------------------------------------------
(* Calls and their answers. *)

AnswersTo(lg, n, c, p) ==
    {j \in DOMAIN lg : /\ j <= n /\ lg[j].k = "result" /\ lg[j].id = p /\ c < j
                       /\ ~\E i \in DOMAIN lg : lg[i].k = "call" /\ lg[i].id = p /\ c < i /\ i < j}

CallLines(lg, v, n) == \A k \in DOMAIN v.ops :
    LET c == v.ops[k].call IN c \in DOMAIN lg /\ c <= n /\ lg[c].k = "call" /\ lg[c].id = v.ops[k].pair
CallsRead(lg, v, n) ==
    \A c \in DOMAIN lg : c <= n /\ lg[c].k = "call" => \E k \in DOMAIN v.ops : v.ops[k].call = c
CallsAnswered(lg, v, n) ==
    \A k \in DOMAIN v.ops : v.ops[k].pending <=> (AnswersTo(lg, n, v.ops[k].call, v.ops[k].pair) = {})
CallsOf(lg, n) ==
    LET v == ViewAt(lg)[n] IN CallLines(lg, v, n) /\ CallsRead(lg, v, n) /\ CallsAnswered(lg, v, n)

\* A line that is no result answers nothing.
LEMMA NoAnswer ==
    ASSUME NEW lg, Lines(lg), NEW n \in 1 .. MaxLine, n \in DOMAIN lg => lg[n].k # "result", NEW c, NEW p
    PROVE  AnswersTo(lg, n, c, p) = AnswersTo(lg, n - 1, c, p)
<1>1. \A j \in DOMAIN lg : j \in Nat
  BY DEF Lines
<1>2. \A j \in DOMAIN lg : (j <= n /\ lg[j].k = "result") <=> (j <= n - 1 /\ lg[j].k = "result")
  BY <1>1
<1> QED
  BY <1>2 DEF AnswersTo

\* A call or a line that leaves the operations as they are.
LEMMA CallsTaken ==
    ASSUME NEW lg, Lines(lg), NEW n \in 1 .. MaxLine, n \in DOMAIN lg, NEW v, NEW w,
           CallLines(lg, v, n - 1), CallsRead(lg, v, n - 1), CallsAnswered(lg, v, n - 1),
           OpsStep(v, w, EventIn(lg, n))
    PROVE  CallLines(lg, w, n) /\ CallsRead(lg, w, n) /\ CallsAnswered(lg, w, n)
<1> DEFINE e == EventIn(lg, n)
<1>0. /\ e.at = n /\ e.k = lg[n].k /\ e.id = lg[n].id /\ n \in Nat /\ (\A j \in DOMAIN lg : j \in Nat)
      /\ \A j \in DOMAIN lg : (j <= n <=> (j <= n - 1 \/ j = n)) /\ ~(n < j /\ j <= n)
  BY EventInIs DEF Lines
<1> HIDE DEF e
<1>1. CASE e.k = "call"
  <2>1. PICK k : k \notin DOMAIN v.ops /\ w.ops = PutAt(v.ops, k, NewOp(e))
    BY <1>1 DEF OpsStep, CalledNew, e
  <2>2. /\ DOMAIN w.ops = DOMAIN v.ops \cup {k} /\ w.ops[k] = NewOp(e)
        /\ \A j \in DOMAIN v.ops : w.ops[j] = v.ops[j]
    BY <2>1 DEF PutAt
  <2>3. NewOp(e).call = n /\ NewOp(e).pair = lg[n].id /\ NewOp(e).pending = TRUE
    BY <1>0 DEF NewOp
  <2>4. CallLines(lg, w, n)
    BY <1>0, <1>1, <2>2, <2>3 DEF CallLines
  <2>5. CallsRead(lg, w, n)
    BY <1>0, <1>1, <2>2, <2>3 DEF CallsRead
  <2>6. \A c, p : AnswersTo(lg, n, c, p) = AnswersTo(lg, n - 1, c, p)
    <3>1. lg[n].k # "result"
      BY <1>0, <1>1
    <3> QED
      BY <3>1, NoAnswer
  <2>7. AnswersTo(lg, n, n, lg[n].id) = {}
    BY <1>0 DEF AnswersTo
  <2>8. CallsAnswered(lg, w, n)
    BY <2>2, <2>3, <2>6, <2>7 DEF CallsAnswered
  <2> QED
    BY <2>4, <2>5, <2>8
<1>2. ASSUME NEW S, OpsKept(v, w, S), e.k # "call",
             \A k \in DOMAIN v.ops :
               (v.ops[k].pending /\ k \notin S) <=> (AnswersTo(lg, n, v.ops[k].call, v.ops[k].pair) = {})
      PROVE  CallLines(lg, w, n) /\ CallsRead(lg, w, n) /\ CallsAnswered(lg, w, n)
  <2>1. CallLines(lg, w, n)
    BY <1>0, <1>2 DEF CallLines, OpsKept
  <2>2. CallsRead(lg, w, n)
    BY <1>0, <1>2 DEF CallsRead, OpsKept
  <2>3. CallsAnswered(lg, w, n)
    BY <1>2 DEF CallsAnswered, OpsKept
  <2> QED
    BY <2>1, <2>2, <2>3
<1>3. CASE e.k \notin {"call", "result"}
  <2>1. OpsKept(v, w, {})
    BY <1>3 DEF OpsStep, e
  <2>2. \A c, p : AnswersTo(lg, n, c, p) = AnswersTo(lg, n - 1, c, p)
    <3>1. lg[n].k # "result"
      BY <1>0, <1>3
    <3> QED
      BY <3>1, NoAnswer
  <2>3. \A k \in DOMAIN v.ops :
          (v.ops[k].pending /\ k \notin {}) <=> (AnswersTo(lg, n, v.ops[k].call, v.ops[k].pair) = {})
    BY <2>2 DEF CallsAnswered
  <2> QED
    BY <1>2, <1>3, <2>1, <2>3
<1>4. CASE e.k = "result"
  <2> DEFINE S == AnsweredBy(v, e)
  <2>1. OpsKept(v, w, S)
    BY <1>4 DEF OpsStep, e
  <2>2. ASSUME NEW k \in DOMAIN v.ops
        PROVE  (v.ops[k].pending /\ k \notin S) <=> (AnswersTo(lg, n, v.ops[k].call, v.ops[k].pair) = {})
    <3> DEFINE c == v.ops[k].call
               p == v.ops[k].pair
               old == AnswersTo(lg, n - 1, c, p)
    <3>1. c \in DOMAIN lg /\ c \in Nat /\ c <= n - 1 /\ c < n /\ lg[c].k = "call" /\ lg[c].id = p
      BY <1>0 DEF CallLines
    <3>2. v.ops[k].pending <=> (old = {})
      BY DEF CallsAnswered
    <3>3. AnswersTo(lg, n, c, p) = old \cup (IF n \in AnswersTo(lg, n, c, p) THEN {n} ELSE {})
      BY <1>0 DEF AnswersTo
    <3>4. n \in AnswersTo(lg, n, c, p) <=> k \in S
      <4>1. ASSUME n \in AnswersTo(lg, n, c, p) PROVE k \in S
        <5>1. p = e.id /\ ~\E i \in DOMAIN lg : lg[i].k = "call" /\ lg[i].id = p /\ c < i /\ i < n
          BY <1>0, <4>1 DEF AnswersTo
        <5>2. k \in CalledBefore(v.ops, e.id, e.at)
          BY <1>0, <3>1, <5>1 DEF CalledBefore
        <5>3. ASSUME NEW j \in CalledBefore(v.ops, e.id, e.at) PROVE v.ops[j].call <= c
          <6>1. j \in DOMAIN v.ops /\ v.ops[j].pair = e.id /\ v.ops[j].call < n
            BY <1>0 DEF CalledBefore
          <6>2. v.ops[j].call \in DOMAIN lg /\ lg[v.ops[j].call].k = "call" /\ lg[v.ops[j].call].id = e.id
            BY <6>1 DEF CallLines
          <6> QED
            BY <1>0, <3>1, <5>1, <6>1, <6>2
        <5> QED
          BY <5>2, <5>3 DEF AnsweredBy
      <4>2. ASSUME k \in S PROVE n \in AnswersTo(lg, n, c, p)
        <5>1. p = e.id /\ \A j \in CalledBefore(v.ops, e.id, e.at) : v.ops[j].call <= c
          BY <4>2 DEF AnsweredBy, CalledBefore
        <5>2. ASSUME NEW i \in DOMAIN lg, lg[i].k = "call", lg[i].id = p, c < i, i < n PROVE FALSE
          <6>1. i \in Nat /\ i <= n - 1
            BY <1>0, <5>2
          <6>2. PICK j \in DOMAIN v.ops : v.ops[j].call = i
            BY <5>2, <6>1 DEF CallsRead
          <6>3. v.ops[j].pair = p
            BY <5>2, <6>2 DEF CallLines
          <6>4. j \in CalledBefore(v.ops, e.id, e.at)
            BY <1>0, <5>1, <5>2, <6>2, <6>3 DEF CalledBefore
          <6> QED
            BY <3>1, <5>1, <5>2, <6>1, <6>2, <6>4
        <5> QED
          BY <1>0, <1>4, <3>1, <5>1, <5>2 DEF AnswersTo
      <4> QED
        BY <4>1, <4>2
    <3> HIDE DEF c, p, old, S
    <3>5. (v.ops[k].pending /\ k \notin S) <=> (AnswersTo(lg, n, c, p) = {})
      BY <3>2, <3>3, <3>4
    <3> QED
      BY <3>5 DEF c, p
  <2> HIDE DEF S
  <2>3. e.k # "call"
    BY <1>4
  <2> QED
    BY <1>2, <2>1, <2>2, <2>3
<1> QED
  BY <1>1, <1>3, <1>4

\* After every offset the calls are the operations, and they are pending until they are answered.
LEMMA CallsAll ==
    ASSUME NEW lg, Lines(lg), NEW n \in 0 .. MaxLine
    PROVE  CallsOf(lg, n)
<1> DEFINE Bad == {m \in 0 .. MaxLine : ~ CallsOf(lg, m)}
<1>0. MaxLine \in Nat
  BY ReducerAssumption
<1>2. CallsOf(lg, 0)
  <2>1. DOMAIN ViewAt(lg)[0].ops = {}
    BY ViewAtIs, NothingStands
  <2>2. \A j \in DOMAIN lg : ~(j <= 0)
    BY DEF Lines
  <2> QED
    BY <2>1, <2>2 DEF CallsOf, CallLines, CallsRead, CallsAnswered
<1>3. ASSUME NEW m \in 1 .. MaxLine, CallsOf(lg, m - 1) PROVE CallsOf(lg, m)
  <2> DEFINE v == ViewAt(lg)[m - 1]
             w == ViewAt(lg)[m]
  <2>0. CallLines(lg, v, m - 1) /\ CallsRead(lg, v, m - 1) /\ CallsAnswered(lg, v, m - 1)
    BY <1>3 DEF CallsOf
  <2>1. CASE m \in DOMAIN lg
    <3>1. Stands(lg, m - 1)
      <4>1. m - 1 \in 0 .. MaxLine
        BY <1>0
      <4> QED
        BY <4>1, AllStand
    <3>2. OpsStep(v, w, EventIn(lg, m))
      BY <2>1, <3>1, ViewStep DEF EventStep
    <3> HIDE DEF v, w
    <3>3. CallLines(lg, w, m) /\ CallsRead(lg, w, m) /\ CallsAnswered(lg, w, m)
      BY <2>0, <2>1, <3>2, CallsTaken
    <3> QED
      BY <3>3 DEF CallsOf, w
  <2>2. CASE m \notin DOMAIN lg
    <3>1. w = v
      BY <2>2, ViewAtIs
    <3>2. \A j \in DOMAIN lg : j \in Nat /\ (j <= m <=> j <= m - 1)
      BY <2>2 DEF Lines
    <3>3. \A c, p : AnswersTo(lg, m, c, p) = AnswersTo(lg, m - 1, c, p)
      BY <2>2, NoAnswer
    <3>4. CallLines(lg, v, m) /\ CallsRead(lg, v, m) /\ CallsAnswered(lg, v, m)
      BY <2>0, <3>2, <3>3 DEF CallLines, CallsRead, CallsAnswered
    <3> QED
      BY <3>1, <3>4 DEF CallsOf
  <2> QED
    BY <2>1, <2>2
<1> SUFFICES ASSUME ~ CallsOf(lg, n) PROVE FALSE
  OBVIOUS
<1>4. PICK m \in Bad : \A y \in Bad : m <= y
  <2>1. Bad \in SUBSET Nat /\ Bad # {}
    BY <1>0
  <2> HIDE DEF Bad
  <2> QED
    BY <2>1, FirstOf
<1>5. m \in 1 .. MaxLine /\ m - 1 \in 0 .. MaxLine
  BY <1>0, <1>2, <1>4
<1>6. CallsOf(lg, m - 1)
  BY <1>0, <1>4, <1>5
<1> QED
  BY <1>3, <1>4, <1>5, <1>6
-----------------------------------------------------------------------------
(* Receipts. *)

\* The last receipt of each response up to an offset.
LastReceipts(lg, n) ==
    LET read == {i \in DOMAIN lg : i <= n}
    IN  {i \in read : /\ lg[i].k = "reply"
                      /\ ~\E j \in read : lg[j].k = "reply" /\ lg[j].id = lg[i].id /\ i < j}
TokensAt(lg, S) == [i \in S |-> lg[i].tok]

Billed(lg, v, n) ==
    /\ DOMAIN v.usage = {lg[i].id : i \in LastReceipts(lg, n)}
    /\ \A i \in LastReceipts(lg, n) : v.usage[lg[i].id].tokens = lg[i].tok
    /\ Tokens(v) = SumOf(TokensAt(lg, LastReceipts(lg, n)))

\* A line that is no receipt leaves the last ones.
LEMMA NoReceipt ==
    ASSUME NEW lg, Lines(lg), NEW n \in 1 .. MaxLine, n \in DOMAIN lg => lg[n].k # "reply"
    PROVE  LastReceipts(lg, n) = LastReceipts(lg, n - 1)
<1>1. \A j \in DOMAIN lg : j \in Nat
  BY DEF Lines
<1>2. \A j \in DOMAIN lg : (j <= n /\ lg[j].k = "reply") <=> (j <= n - 1 /\ lg[j].k = "reply")
  BY <1>1
<1> QED
  BY <1>2 DEF LastReceipts

\* A receipt takes the place of the one before.
LEMMA ReceiptReplaces ==
    ASSUME NEW lg, Lines(lg), NEW n \in 1 .. MaxLine, n \in DOMAIN lg, lg[n].k = "reply"
    PROVE  /\ LastReceipts(lg, n) = {i \in LastReceipts(lg, n - 1) : lg[i].id # lg[n].id} \cup {n}
           /\ n \notin LastReceipts(lg, n - 1)
<1>1. /\ \A j \in DOMAIN lg : j \in Nat
      /\ \A j \in DOMAIN lg : (j <= n <=> (j <= n - 1 \/ j = n)) /\ ~(n < j /\ j <= n)
      /\ ~(n <= n - 1) /\ n <= n /\ \A j \in DOMAIN lg : j <= n - 1 => j < n
  BY DEF Lines
<1>2. n \notin LastReceipts(lg, n - 1)
  BY <1>1 DEF LastReceipts
<1>3. n \in LastReceipts(lg, n)
  BY <1>1 DEF LastReceipts
<1>4. ASSUME NEW i, i # n
      PROVE  i \in LastReceipts(lg, n) <=> (i \in LastReceipts(lg, n - 1) /\ lg[i].id # lg[n].id)
  <2>1. ASSUME i \in LastReceipts(lg, n) PROVE i \in LastReceipts(lg, n - 1) /\ lg[i].id # lg[n].id
    BY <1>1, <1>4, <2>1 DEF LastReceipts
  <2>2. ASSUME i \in LastReceipts(lg, n - 1), lg[i].id # lg[n].id PROVE i \in LastReceipts(lg, n)
    BY <1>1, <1>4, <2>2 DEF LastReceipts
  <2> QED
    BY <2>1, <2>2
<1> QED
  BY <1>2, <1>3, <1>4

\* The last receipts are numbers, one for a response.
LEMMA ReceiptNumbers ==
    ASSUME NEW lg, Lines(lg), NEW n, NEW S \in SUBSET LastReceipts(lg, n)
    PROVE  /\ Numbers(TokensAt(lg, S)) /\ DOMAIN TokensAt(lg, S) = S
           /\ \A i \in S : TokensAt(lg, S)[i] = lg[i].tok /\ lg[i].tok \in Int
           /\ \A i, j \in LastReceipts(lg, n) : lg[i].id = lg[j].id => i = j
<1>1. \A i \in S : i \in DOMAIN lg
  BY DEF LastReceipts
<1>2. \A i \in DOMAIN lg : lg[i].tok \in Int
  BY ReducerAssumption DEF Lines
<1>3. IsFiniteSet(S)
  <2>1. IsFiniteSet(1 .. MaxLine)
    BY FS_Interval, ReducerAssumption
  <2>2. S \in SUBSET (1 .. MaxLine)
    BY <1>1 DEF Lines
  <2> QED
    BY <2>1, <2>2, FS_Subset
<1>4. ASSUME NEW i \in LastReceipts(lg, n), NEW j \in LastReceipts(lg, n), lg[i].id = lg[j].id PROVE i = j
  <2>1. i \in Nat /\ j \in Nat
    BY DEF LastReceipts, Lines
  <2>2. ~(i < j) /\ ~(j < i)
    BY <1>4 DEF LastReceipts
  <2> QED
    BY <2>1, <2>2
<1>5. Numbers(TokensAt(lg, S)) /\ DOMAIN TokensAt(lg, S) = S /\ \A i \in S : TokensAt(lg, S)[i] = lg[i].tok
  BY <1>1, <1>2, <1>3 DEF Numbers, TokensAt
<1> QED
  BY <1>1, <1>2, <1>4, <1>5

\* A line that is no total bills what it should.
LEMMA BillTaken ==
    ASSUME NEW lg, Lines(lg), NEW n \in 1 .. MaxLine, n \in DOMAIN lg, lg[n].k # "total", NEW v, NEW w,
           Billed(lg, v, n - 1), UsageStep(v, w, EventIn(lg, n))
    PROVE  Billed(lg, w, n)
<1> DEFINE e == EventIn(lg, n)
           old == LastReceipts(lg, n - 1)
           new == LastReceipts(lg, n)
<1>0. e.k = lg[n].k /\ e.id = lg[n].id /\ e.tok = lg[n].tok /\ e.tok \in Int
  BY EventInIs DEF Event
<1> HIDE DEF e
<1>1. CASE e.k # "reply"
  <2>1. w.usage = v.usage /\ Tokens(w) = Tokens(v)
    BY <1>0, <1>1 DEF UsageStep, e
  <2>2. new = old
    BY <1>0, <1>1, NoReceipt
  <2> QED
    BY <2>1, <2>2 DEF Billed
<1>2. CASE e.k = "reply"
  <2> DEFINE rest == {i \in old : lg[i].id # lg[n].id}
             g == TokensAt(lg, rest)
             m == e.id
  <2>1. /\ DOMAIN w.usage = DOMAIN v.usage \cup {m} /\ w.usage[m].tokens = e.tok
        /\ \A x \in DOMAIN v.usage : x # m => w.usage[x] = v.usage[x]
        /\ Tokens(w) = Tokens(v) - UsageOfMessage(v, m).tokens + e.tok
        /\ Tokens(v) \in Int /\ UsageOfMessage(v, m).tokens \in Int
    BY <1>2 DEF UsageStep, ReplyStep, e
  <2>2. new = rest \cup {n} /\ n \notin old
    BY <1>0, <1>2, ReceiptReplaces
  <2>3. /\ DOMAIN v.usage = {lg[i].id : i \in old} /\ Tokens(v) = SumOf(TokensAt(lg, old))
        /\ \A i \in old : v.usage[lg[i].id].tokens = lg[i].tok
    BY DEF Billed
  <2>4. Numbers(g) /\ DOMAIN g = rest
    BY ReceiptNumbers
  <2>5. TokensAt(lg, new) = PutAt(g, n, lg[n].tok)
    BY <2>2 DEF TokensAt, PutAt
  <2>6. \A i, j \in old : lg[i].id = lg[j].id => i = j
    BY ReceiptNumbers
  <2> HIDE DEF old, new, g
  <2>7. SumOf(TokensAt(lg, new)) = SumOf(g) + e.tok /\ SumOf(g) \in Int
    <3>1. n \notin DOMAIN g
      BY <2>2, <2>4
    <3> QED
      BY <1>0, <2>4, <2>5, <3>1, SumPutNew
  <2>8. Tokens(v) = SumOf(g) + UsageOfMessage(v, m).tokens
    <3>1. CASE \E i \in old : lg[i].id = m
      <4>1. PICK i \in old : lg[i].id = m
        BY <3>1
      <4>2. old = rest \cup {i} /\ i \notin rest
        BY <1>0, <2>6, <4>1
      <4>3. TokensAt(lg, old) = PutAt(g, i, lg[i].tok) /\ lg[i].tok \in Int
        <5>1. lg[i].tok \in Int
          BY ReceiptNumbers DEF old
        <5> QED
          BY <4>2, <5>1 DEF TokensAt, PutAt, g
      <4>4. UsageOfMessage(v, m).tokens = lg[i].tok
        BY <2>3, <4>1 DEF UsageOfMessage
      <4>5. SumOf(PutAt(g, i, lg[i].tok)) = SumOf(g) + lg[i].tok
        BY <2>4, <4>2, <4>3, SumPutNew
      <4> QED
        BY <2>3, <4>3, <4>4, <4>5
    <3>2. CASE ~\E i \in old : lg[i].id = m
      <4>1. rest = old
        BY <1>0, <3>2
      <4>2. UsageOfMessage(v, m).tokens = 0
        BY <2>3, <3>2 DEF UsageOfMessage
      <4>3. g = TokensAt(lg, old)
        <5> HIDE DEF rest
        <5> QED
          BY <4>1 DEF g
      <4> QED
        BY <2>3, <2>7, <4>2, <4>3
    <3> QED
      BY <3>1, <3>2
  <2>9. Tokens(w) = SumOf(TokensAt(lg, new))
    BY <1>0, <2>1, <2>7, <2>8
  <2>10. DOMAIN w.usage = {lg[i].id : i \in new}
    BY <1>0, <2>1, <2>2, <2>3
  <2>11. \A i \in new : w.usage[lg[i].id].tokens = lg[i].tok
    BY <1>0, <2>1, <2>2, <2>3
  <2> QED
    BY <2>9, <2>10, <2>11 DEF Billed, new
<1> QED
  BY <1>1, <1>2

\* After every offset each response is billed once, with its last receipt.
LEMMA BilledAll ==
    ASSUME NEW lg, Lines(lg), \A i \in DOMAIN lg : lg[i].k # "total", NEW n \in 0 .. MaxLine
    PROVE  Billed(lg, ViewAt(lg)[n], n)
<1> DEFINE Good(m) == Billed(lg, ViewAt(lg)[m], m)
           Bad == {m \in 0 .. MaxLine : ~ Good(m)}
<1>0. MaxLine \in Nat
  BY ReducerAssumption
<1>2. Good(0)
  <2>1. DOMAIN ViewAt(lg)[0].usage = {} /\ Tokens(ViewAt(lg)[0]) = 0
    BY ViewAtIs, NothingStands
  <2>2. LastReceipts(lg, 0) = {}
    BY DEF Lines, LastReceipts
  <2>3. SumOf(TokensAt(lg, {})) = 0
    <3>1. DOMAIN TokensAt(lg, {}) = {}
      BY DEF TokensAt
    <3>2. SumOver(TokensAt(lg, {}), {}) = 0
      BY SumZero, FS_EmptySet
    <3> QED
      BY <3>1, <3>2 DEF SumOf, SumOver
  <2> QED
    BY <2>1, <2>2, <2>3 DEF Billed
<1>3. ASSUME NEW m \in 1 .. MaxLine, Good(m - 1) PROVE Good(m)
  <2> DEFINE v == ViewAt(lg)[m - 1]
             w == ViewAt(lg)[m]
  <2>0. Billed(lg, v, m - 1)
    BY <1>3
  <2>1. CASE m \in DOMAIN lg
    <3>1. Stands(lg, m - 1)
      <4>1. m - 1 \in 0 .. MaxLine
        BY <1>0
      <4> QED
        BY <4>1, AllStand
    <3>2. UsageStep(v, w, EventIn(lg, m))
      BY <2>1, <3>1, ViewStep DEF EventStep
    <3>3. lg[m].k # "total"
      BY <2>1
    <3> HIDE DEF v, w
    <3>4. Billed(lg, w, m)
      BY <2>0, <2>1, <3>2, <3>3, BillTaken
    <3> QED
      BY <3>4 DEF w
  <2>2. CASE m \notin DOMAIN lg
    <3>1. w = v
      BY <2>2, ViewAtIs
    <3>2. LastReceipts(lg, m) = LastReceipts(lg, m - 1)
      BY <2>2, NoReceipt
    <3> QED
      BY <2>0, <3>1, <3>2 DEF Billed
  <2> QED
    BY <2>1, <2>2
<1> HIDE DEF Good
<1> SUFFICES ASSUME ~ Good(n) PROVE FALSE
  BY DEF Good
<1>4. PICK m \in Bad : \A y \in Bad : m <= y
  <2>1. Bad \in SUBSET Nat /\ Bad # {}
    BY <1>0
  <2> HIDE DEF Bad
  <2> QED
    BY <2>1, FirstOf
<1>5. m \in 1 .. MaxLine /\ m - 1 \in 0 .. MaxLine
  BY <1>0, <1>2, <1>4
<1>6. Good(m - 1)
  BY <1>0, <1>4, <1>5
<1> QED
  BY <1>3, <1>4, <1>5, <1>6
-----------------------------------------------------------------------------
(* The stored rows. *)

\* What is stored of a transcript: well-formed rows up to one of its lines.
Stored(d, lg) ==
    /\ RowsStand(d) /\ UsageOwned(CoreOf(d)) /\ d.st.through \in 0 .. MaxLine
    /\ d.st.through = 0 \/ d.st.through \in DOMAIN lg

OpKeys == (1 .. MaxLine) \X (0 .. MaxLine)

\* Retrieval has a source for every operation, and no other once it is reconciled.
SourcesFit(src, d, ver, redo) ==
    /\ src \subseteq OpKeys
    /\ ver = "current" => DOMAIN d.ops \subseteq src /\ (~redo => src = DOMAIN d.ops)

\* The inductive form of the reducer's part of TurnsExact.
ReducerInv ==
    /\ Lines(log) /\ Stored(stored, log)
    /\ version \in {"current", "old"} /\ reconcile \in BOOLEAN /\ owed \in BOOLEAN /\ behind \in 0 .. MaxBehind
    /\ Settled => Exact(stored, log)
    /\ SourcesFit(sources, stored, version, reconcile)

\* Operations are numbered within the bounds.
LEMMA KeysBounded ==
    ASSUME NEW d, RowsStand(d), d.st.through \in 0 .. MaxLine
    PROVE  DOMAIN d.ops \subseteq OpKeys
<1> DEFINE p == d.st.through
           v == CoreOf(d)
<1>1. Formed(v, p, p) /\ v.ops = d.ops /\ v.turns = d.turns
  BY DEF RowsStand, CoreOf
<1>2. p \in Nat /\ p <= MaxLine /\ MaxLine \in Nat
  BY ReducerAssumption
<1> HIDE DEF p, v
<1>3. ASSUME NEW k \in DOMAIN d.ops PROVE k \in OpKeys
  <2>1. k = <<k[1], k[2]>> /\ k[1] \in DOMAIN d.turns /\ k[2] \in 0 .. (d.turns[k[1]].ops - 1)
    BY <1>1 DEF Formed, OpsFormed
  <2>2. k[1] \in 1 .. p /\ d.turns[k[1]].ops \in 0 .. p
    BY <1>1, <2>1 DEF Formed, TurnsFormed
  <2>3. k[1] \in 1 .. MaxLine /\ k[2] \in 0 .. MaxLine
    BY <1>2, <2>1, <2>2
  <2> QED
    BY <2>1, <2>3 DEF OpKeys
<1> QED
  BY <1>3

\* Empty rows are exact at the start, whatever links they keep.
LEMMA EmptyRows ==
    ASSUME NEW d, Lines(log), NEW links, d = [NoRows EXCEPT !.links = links]
    PROVE  Stored(d, log) /\ Exact(d, log) /\ DOMAIN d.ops = {}
<1>1. /\ d = [f \in RowFields |-> d[f]] /\ d.turns = NoEntry /\ d.ops = NoEntry /\ d.items = {}
      /\ d.usage = NoEntry /\ d.touches = NoEntry /\ d.st = NewState /\ CoreOf(d) = CoreOf(NoRows)
  BY DEF NoRows, RowFields, CoreOf
<1>2. IsTable(NoEntry) /\ NoEntry = [k \in DOMAIN NoEntry |-> NoEntry[k].input] /\ DOMAIN NoEntry = {}
  BY DEF IsTable, NoEntry
<1>3. d.st.through = 0
  BY <1>1 DEF NewState
<1>4. RowsStand(d) /\ UsageOwned(CoreOf(d))
  BY <1>1, <1>2, <1>3, NothingStands DEF RowsStand
<1>5. CoreOf(d) = ViewAt(log)[0]
  BY <1>1, ViewAtIs
<1>6. LinksTo(log, 0) = {}
  <2>1. {j \in DOMAIN log : j <= 0} = {}
    BY DEF Lines
  <2> QED
    BY <2>1 DEF LinksTo
<1> QED
  BY <1>1, <1>2, <1>3, <1>4, <1>5, <1>6, ReducerAssumption DEF Stored, Exact

\* The reducer begins with nothing.
LEMMA ReducerStarts == ReducerInit => ReducerInv
<1> SUFFICES ASSUME ReducerInit PROVE ReducerInv
  OBVIOUS
<1>1. Lines(log) /\ DOMAIN NoEntry = {}
  BY DEF ReducerInit, Lines, NoEntry
<1>2. stored = [NoRows EXCEPT !.links = {}]
  BY DEF ReducerInit, NoRows
<1>3. Stored(stored, log) /\ Exact(stored, log) /\ DOMAIN stored.ops = {}
  BY <1>1, <1>2, EmptyRows
<1>4. sources = {}
  BY DEF ReducerInit
<1>5. SourcesFit(sources, stored, version, reconcile)
  BY <1>3, <1>4 DEF SourcesFit
<1>6. version = "current" /\ reconcile = FALSE /\ owed = FALSE /\ behind \in 0 .. MaxBehind
  BY ReducerAssumption DEF ReducerInit
<1> QED
  BY <1>1, <1>3, <1>5, <1>6 DEF ReducerInv

\* A line after the cursor leaves exact rows exact.
LEMMA ExactBefore ==
    ASSUME NEW d, NEW lg, Lines(lg), NEW i \in 1 .. MaxLine, i \notin DOMAIN lg, NEW e,
           d.st.through \in 0 .. MaxLine, d.st.through < i, Exact(d, lg)
    PROVE  Exact(d, PutAt(lg, i, e))
<1> DEFINE nw == PutAt(lg, i, e)
           p == d.st.through
<1>0. i \in Nat /\ MaxLine \in Nat /\ p \in Nat /\ p < i /\ p <= MaxLine
  BY ReducerAssumption
<1>1. DOMAIN nw = DOMAIN lg \cup {i} /\ \A j \in DOMAIN lg : nw[j] = lg[j]
  BY DEF PutAt
<1> HIDE DEF nw, p
<1>2. ASSUME NEW n \in 0 .. MaxLine, n < i PROVE ViewAt(nw)[n] = ViewAt(lg)[n]
  <2>1. \A j \in 1 .. n : (j \in DOMAIN lg <=> j \in DOMAIN nw) /\ (j \in DOMAIN lg => lg[j] = nw[j])
    BY <1>0, <1>1, <1>2
  <2> QED
    BY <2>1, ViewSame
<1>3. {j \in DOMAIN nw : j <= p} = {j \in DOMAIN lg : j <= p}
  BY <1>0, <1>1
<1>4. ASSUME NEW j \in DOMAIN lg, j <= p
      PROVE  LinkOf(ViewAt(nw)[j - 1], EventIn(nw, j)) = LinkOf(ViewAt(lg)[j - 1], EventIn(lg, j))
  <2>1. j - 1 \in 0 .. MaxLine /\ j - 1 < i
    BY <1>0, <1>4 DEF Lines
  <2>2. ViewAt(nw)[j - 1] = ViewAt(lg)[j - 1]
    BY <1>2, <2>1
  <2>3. EventIn(nw, j) = EventIn(lg, j)
    BY <1>1 DEF EventIn
  <2> QED
    BY <2>2, <2>3
<1>5. LinksTo(nw, p) = LinksTo(lg, p)
  <2> DEFINE L(j) == LinkOf(ViewAt(lg)[j - 1], EventIn(lg, j))
             M(j) == LinkOf(ViewAt(nw)[j - 1], EventIn(nw, j))
             S == {j \in DOMAIN lg : j <= p}
  <2>1. LinksTo(nw, p) = UNION {M(j) : j \in S} /\ LinksTo(lg, p) = UNION {L(j) : j \in S}
    BY <1>3 DEF LinksTo
  <2>2. \A j \in S : M(j) = L(j)
    BY <1>4
  <2> HIDE DEF L, M, S
  <2> QED
    BY <2>1, <2>2
<1>6. ViewAt(nw)[p] = ViewAt(lg)[p]
  BY <1>0, <1>2
<1> QED
  BY <1>5, <1>6 DEF Exact, nw, p

\* Lines are stored after the cursor, and behind it with a rebuild owed.
LEMMA LinesKeep ==
    ASSUME ReducerInv, NEW e \in Line, StoreLine(e) \/ StoreBehind(e)
    PROVE  ReducerInv'
<1>0. /\ Lines(log) /\ Stored(stored, log) /\ (Settled => Exact(stored, log))
      /\ SourcesFit(sources, stored, version, reconcile)
      /\ version \in {"current", "old"} /\ reconcile \in BOOLEAN /\ owed \in BOOLEAN /\ behind \in 0 .. MaxBehind
  BY DEF ReducerInv
<1>1. stored' = stored /\ version' = version /\ reconcile' = reconcile /\ sources' = sources
  BY DEF StoreLine, StoreBehind
<1>2. ASSUME NEW i \in 1 .. MaxLine, log' = PutAt(log, i, e)
      PROVE  Lines(log') /\ Stored(stored', log')
  <2>1. DOMAIN log' = DOMAIN log \cup {i} /\ log'[i] = e /\ \A j \in DOMAIN log : j # i => log'[j] = log[j]
    BY <1>2 DEF PutAt
  <2>2. Lines(log')
    BY <1>0, <2>1 DEF Lines
  <2>3. Stored(stored', log')
    BY <1>0, <1>1, <2>1 DEF Stored
  <2> QED
    BY <2>2, <2>3
<1>3. CASE StoreLine(e)
  <2>1. PICK i \in 1 .. MaxLine : (\A j \in DOMAIN log : j < i) /\ log' = PutAt(log, i, e)
    BY <1>3 DEF StoreLine
  <2>2. owed' = owed /\ behind' = behind
    BY <1>3 DEF StoreLine
  <2>3. i \notin DOMAIN log /\ stored.st.through < i /\ stored.st.through \in 0 .. MaxLine
    BY <1>0, <2>1 DEF Stored
  <2>4. Exact(stored, log) => Exact(stored, PutAt(log, i, e))
    BY <1>0, <2>3, ExactBefore
  <2>5. Settled' => Exact(stored', log')
    BY <1>0, <1>1, <2>1, <2>2, <2>4 DEF Settled
  <2> QED
    BY <1>0, <1>1, <1>2, <2>1, <2>2, <2>5 DEF ReducerInv
<1>4. CASE StoreBehind(e)
  <2>1. PICK i \in 1 .. stored.st.through : log' = PutAt(log, i, e)
    BY <1>4 DEF StoreBehind
  <2>2. i \in 1 .. MaxLine
    BY <1>0, ReducerAssumption DEF Stored
  <2>3. owed' = TRUE /\ behind' \in 0 .. MaxBehind
    BY <1>0, <1>4, ReducerAssumption DEF StoreBehind
  <2> QED
    BY <1>0, <1>1, <1>2, <2>1, <2>2, <2>3 DEF ReducerInv, Settled
<1> QED
  BY <1>3, <1>4

\* The next events after the cursor, none left out.
LEMMA NextInOrder ==
    ASSUME Lines(log), NEW d, d.st.through \in Nat, NEW budget \in Nat
    PROVE  LET batch == NextEvents(d.st.through, budget)
           IN  batch \subseteq DOMAIN log /\ (\A j \in batch : d.st.through < j) /\ InOrder(d, batch)
<1> DEFINE p == d.st.through
           W == Waiting(p)
           Upto(i) == {j \in W : j <= i}
           batch == NextEvents(p, budget)
<1>1. /\ W \subseteq DOMAIN log /\ (\A j \in W : j \in Nat /\ p < j)
      /\ \A j \in DOMAIN log : j \in Nat /\ (p < j => j \in W)
  BY DEF Waiting, Lines
<1>2. batch = {i \in W : Cardinality(Upto(i)) <= budget}
  BY DEF NextEvents
<1>3. IsFiniteSet(W)
  <2>1. IsFiniteSet(1 .. MaxLine) /\ W \in SUBSET (1 .. MaxLine)
    BY <1>1, FS_Interval, ReducerAssumption DEF Lines
  <2> HIDE DEF W
  <2> QED
    BY <2>1, FS_Subset
<1> HIDE DEF p, W, batch
<1>4. ASSUME NEW j \in batch, NEW i \in DOMAIN log, p < i, i <= j PROVE i \in batch
  <2>1. i \in W /\ j \in W /\ i \in Nat /\ j \in Nat
    BY <1>1, <1>2, <1>4
  <2>2. Upto(i) \in SUBSET Upto(j) /\ Upto(j) \in SUBSET W
    BY <1>1, <1>4, <2>1
  <2> HIDE DEF Upto
  <2>3. IsFiniteSet(Upto(j)) /\ IsFiniteSet(Upto(i))
    BY <1>3, <2>2, FS_Subset
  <2>4. Cardinality(Upto(i)) <= Cardinality(Upto(j))
    BY <2>2, <2>3, FS_Subset
  <2>5. Cardinality(Upto(i)) \in Nat /\ Cardinality(Upto(j)) \in Nat
    BY <2>3, FS_CardinalityType
  <2>6. Cardinality(Upto(j)) <= budget
    BY <1>2, <1>4 DEF Upto
  <2>7. Cardinality(Upto(i)) <= budget
    BY <2>4, <2>5, <2>6
  <2> QED
    BY <1>2, <2>1, <2>7 DEF Upto
<1>5. batch \subseteq DOMAIN log /\ \A j \in batch : p < j
  BY <1>1, <1>2
<1> QED
  BY <1>4, <1>5 DEF InOrder, p, batch

\* What a batch leaves of stored rows.
LEMMA BatchStored ==
    ASSUME Lines(log), NEW d, Stored(d, log), NEW budget \in Nat
    PROVE  LET batch == NextEvents(d.st.through, budget)
               r == Reduce(d, batch)
               new == IF batch = {} THEN d ELSE Persist(r)
               touched == IF batch = {} THEN {} ELSE r.newOps \cup r.updated
           IN  /\ Stored(new, log) /\ (Exact(d, log) => Exact(new, log))
               /\ DOMAIN new.ops = DOMAIN d.ops \cup touched
<1> DEFINE batch == NextEvents(d.st.through, budget)
           r == Reduce(d, batch)
           w == Persist(r)
<1>0. RowsStand(d) /\ UsageOwned(CoreOf(d)) /\ d.st.through \in 0 .. MaxLine /\ d.st.through \in Nat
  BY DEF Stored
<1>1. batch \subseteq DOMAIN log /\ (\A j \in batch : d.st.through < j) /\ InOrder(d, batch)
  BY <1>0, NextInOrder
<1> HIDE DEF batch
<1>2. BatchOver(d, batch)
  BY <1>0, <1>1 DEF BatchOver
<1>3. BatchAt(r, d, batch, MaxLine) /\ (Exact(d, log) => ExactAt(r, d))
  BY <1>1, <1>2, BatchEnds
<1> HIDE DEF r
<1> DEFINE p == r.st.through
<1>4. /\ Held(r, d) /\ Formed(ViewOf(r), p, p) /\ UsageOwned(ViewOf(r))
      /\ p = d.st.through \/ p \in batch
  BY <1>3 DEF BatchAt
<1>5. /\ CoreOf(w) = ViewOf(r) /\ RowsStand(w) /\ w.links = d.links \cup r.links
      /\ DOMAIN w.ops = DOMAIN d.ops \cup r.newOps \cup r.updated
  BY <1>0, <1>4, PersistIs
<1>6. w.st = r.st
  BY DEF Persist
<1> HIDE DEF w
<1>7. p \in 0 .. MaxLine /\ (p = 0 \/ p \in DOMAIN log)
  BY <1>1, <1>4, <1>0 DEF Stored, Lines
<1>8. Stored(w, log)
  BY <1>4, <1>5, <1>6, <1>7 DEF Stored
<1>9. Exact(d, log) => Exact(w, log)
  BY <1>3, <1>5, <1>6 DEF Exact, ExactAt
<1>10. CASE batch = {}
  BY <1>10 DEF batch
<1>11. CASE batch # {}
  <2>1. DOMAIN w.ops = DOMAIN d.ops \cup (r.newOps \cup r.updated)
    BY <1>5
  <2> QED
    BY <1>8, <1>9, <1>11, <2>1 DEF batch, r, w
<1> QED
  BY <1>10, <1>11

\* A batch is stored with the sources of its operations.
LEMMA BatchKeeps ==
    ASSUME ReducerInv, NEW n \in 1 .. MaxLine, ProjectBatch(n)
    PROVE  ReducerInv'
<1> DEFINE d == IF version = "old" THEN Cleared ELSE stored
           batch == NextEvents(d.st.through, n)
           r == Reduce(d, batch)
           new == IF batch = {} THEN d ELSE Persist(r)
           touched == IF batch = {} THEN {} ELSE r.newOps \cup r.updated
           caughtUp == Cardinality(batch) < n
           redo == reconcile \/ version = "old"
<1>0. /\ Lines(log) /\ Stored(stored, log) /\ (Settled => Exact(stored, log))
      /\ SourcesFit(sources, stored, version, reconcile)
      /\ version \in {"current", "old"} /\ reconcile \in BOOLEAN /\ owed \in BOOLEAN /\ behind \in 0 .. MaxBehind
  BY DEF ReducerInv
<1>1. /\ stored' = new /\ version' = "current"
      /\ sources' = IF caughtUp /\ redo THEN Reconciled(sources \cup touched, new) ELSE sources \cup touched
      /\ reconcile' = (redo /\ ~caughtUp) /\ log' = log /\ owed' = owed /\ behind' = behind
  BY DEF ProjectBatch
<1>2. Stored(d, log) /\ (owed = FALSE => Exact(d, log)) /\ (version = "old" => DOMAIN d.ops = {})
  <2>1. CASE version = "old"
    <3>1. d = [NoRows EXCEPT !.links = stored.links]
      BY <2>1 DEF Cleared
    <3> HIDE DEF d
    <3> QED
      BY <1>0, <3>1, EmptyRows
  <2>2. CASE version # "old"
    BY <1>0, <2>2 DEF Settled
  <2> QED
    BY <2>1, <2>2
<1>3. version # "old" => d = stored
  OBVIOUS
<1> HIDE DEF d
<1>4. Stored(new, log) /\ (Exact(d, log) => Exact(new, log)) /\ DOMAIN new.ops = DOMAIN d.ops \cup touched
  <2>1. n \in Nat
    OBVIOUS
  <2> QED
    BY <1>0, <1>2, <2>1, BatchStored
<1> HIDE DEF batch, r, new, touched, caughtUp
<1>5. Settled' => Exact(stored', log')
  BY <1>0, <1>1, <1>2, <1>4 DEF Settled
<1>6. DOMAIN new.ops \subseteq OpKeys
  BY <1>4, KeysBounded DEF Stored
<1>7. DOMAIN d.ops \subseteq sources
  BY <1>0, <1>2, <1>3 DEF SourcesFit
<1>8. sources \subseteq OpKeys /\ (~redo => sources = DOMAIN d.ops)
  BY <1>0, <1>3 DEF SourcesFit
<1>9. SourcesFit(sources', stored', version', reconcile')
  <2>1. CASE caughtUp /\ redo
    <3>1. sources' = {k \in sources \cup touched : k \in DOMAIN new.ops} /\ reconcile' = FALSE
      BY <1>1, <2>1 DEF Reconciled
    <3>2. sources' = DOMAIN new.ops
      BY <1>4, <1>7, <3>1
    <3> QED
      BY <1>1, <1>6, <3>2 DEF SourcesFit
  <2>2. CASE ~(caughtUp /\ redo)
    <3>1. sources' = sources \cup touched
      BY <1>1, <2>2
    <3>2. sources' \subseteq OpKeys /\ DOMAIN new.ops \subseteq sources'
      BY <1>4, <1>6, <1>7, <1>8, <3>1
    <3>3. ~reconcile' => ~redo
      BY <1>1, <2>2
    <3>4. ~redo => sources' = DOMAIN new.ops
      BY <1>4, <1>8, <3>1
    <3> HIDE DEF redo
    <3> QED
      BY <1>1, <3>2, <3>3, <3>4 DEF SourcesFit
  <2> QED
    BY <2>1, <2>2
<1>10. reconcile' \in BOOLEAN
  BY <1>1
<1> QED
  BY <1>0, <1>1, <1>4, <1>5, <1>9, <1>10 DEF ReducerInv

\* Every step of the reducer keeps its rows right.
LEMMA ReducerKeeps ==
    ASSUME ReducerInv, ReducerNext
    PROVE  ReducerInv'
<1>1. CASE \E e \in Line : StoreLine(e) \/ StoreBehind(e)
  BY <1>1, LinesKeep
<1>2. CASE RequestTimelineRebuild
  <2>1. /\ owed' = FALSE /\ version' = "old" /\ log' = log /\ stored' = stored /\ reconcile' = reconcile
        /\ sources' = sources /\ behind' = behind
    BY <1>2 DEF RequestTimelineRebuild
  <2> QED
    BY <2>1 DEF ReducerInv, Settled, SourcesFit
<1>3. CASE \E n \in 1 .. MaxLine : ProjectBatch(n)
  BY <1>3, BatchKeeps
<1> QED
  BY <1>1, <1>2, <1>3 DEF ReducerNext

\* Nor does a step of another part change them.
LEMMA ReducerRests ==
    ASSUME ReducerInv, UNCHANGED reducerVars
    PROVE  ReducerInv'
BY DEF reducerVars, ReducerInv, Settled

-----------------------------------------------------------------------------
(* What right rows promise. *)

\* The rows agree, calls are answered, and evidence is on both.
LEMMA RowsPromise ==
    ASSUME ReducerInv
    PROVE  BatchesAgree /\ AnsweredCalls /\ EvidenceOnBoth /\ SourcesFollowOperations
<1>0. /\ Lines(log) /\ Stored(stored, log) /\ (Settled => Exact(stored, log))
      /\ SourcesFit(sources, stored, version, reconcile)
  BY DEF ReducerInv
<1>1. RowsStand(stored) /\ stored.st.through \in 0 .. MaxLine
  BY <1>0 DEF Stored
<1>2. BatchesAgree
  BY <1>0, <1>1, ExactAgrees DEF BatchesAgree
<1>3. SourcesFollowOperations
  BY <1>0 DEF SourcesFollowOperations, SourcesFit, Settled
<1>4. EvidenceOnBoth
  <2>1. \A k \in DOMAIN stored.ops : OpRow(stored.ops[k])
    BY <1>1 DEF RowsStand, Formed, OpsFormed, CoreOf
  <2>2. stored.touches = [k \in DOMAIN stored.ops |-> stored.ops[k].input]
    BY <1>1 DEF RowsStand
  <2> QED
    BY <2>1, <2>2 DEF EvidenceOnBoth, OpRow
<1>5. AnsweredCalls
  <2> SUFFICES ASSUME Settled PROVE AnsweredCalls
    BY DEF AnsweredCalls
  <2> DEFINE v == ViewAt(log)[stored.st.through]
  <2>1. CoreOf(stored) = v /\ CoreOf(stored).ops = stored.ops
    BY <1>0 DEF Exact, CoreOf
  <2>2. CallsAnswered(log, v, stored.st.through)
    BY <1>0, <1>1, CallsAll DEF CallsOf
  <2> HIDE DEF v
  <2>3. \A k \in DOMAIN stored.ops :
          stored.ops[k].pending <=> (AnswersTo(log, stored.st.through, stored.ops[k].call, stored.ops[k].pair) = {})
    BY <2>1, <2>2 DEF CallsAnswered
  <2> DEFINE calls(p) == {i \in DOMAIN log : log[i].k = "call" /\ log[i].id = p}
             answers(k) == {j \in DOMAIN log :
               /\ j <= stored.st.through /\ log[j].k = "result" /\ log[j].id = stored.ops[k].pair
               /\ stored.ops[k].call < j
               /\ ~\E i \in calls(log[j].id) : stored.ops[k].call < i /\ i < j}
  <2>4. ASSUME NEW k PROVE answers(k) = AnswersTo(log, stored.st.through, stored.ops[k].call, stored.ops[k].pair)
    BY DEF AnswersTo
  <2>5. \A k \in DOMAIN stored.ops : stored.ops[k].pending <=> answers(k) = {}
    <3> HIDE DEF answers
    <3> QED
      BY <2>3, <2>4
  <2> QED
    BY <2>5 DEF AnsweredCalls
<1> QED
  BY <1>2, <1>3, <1>4, <1>5

\* The totals add up.
LEMMA TotalsPromise ==
    ASSUME ReducerInv
    PROVE  TotalsAdd
<1> SUFFICES ASSUME Settled PROVE TotalsAdd
  BY DEF TotalsAdd
<1> DEFINE p == stored.st.through
           v == ViewAt(log)[p]
           turns == stored.turns
           latest == LastReceipts(log, p)
<1>0. Lines(log) /\ p \in 0 .. MaxLine /\ CoreOf(stored) = v
  BY DEF ReducerInv, Stored, Exact
<1>1. v.st = stored.st /\ v.turns = stored.turns
  BY <1>0 DEF CoreOf
<1>2. Balanced(v)
  BY <1>0, AllStand DEF Stands
<1>3. /\ SumOf([t \in DOMAIN turns |-> turns[t].events]) = stored.st.events
      /\ Cardinality(DOMAIN turns) = stored.st.turns
  BY <1>1, <1>2 DEF Balanced, EventsOf
<1>4. ASSUME ~(\E i \in DOMAIN log : log[i].k = "total")
      PROVE  SumOf([t \in DOMAIN turns |-> turns[t].tokens]) = SumOf([i \in latest |-> log[i].tok])
  <2>1. Billed(log, v, p)
    BY <1>0, <1>4, BilledAll
  <2>2. Tokens(v) = SumOf(TokensAt(log, latest))
    BY <2>1 DEF Billed
  <2> QED
    BY <1>1, <2>2 DEF Tokens, TokensOf, TokensAt
<1>5. latest = {i \in {i \in DOMAIN log : i <= stored.st.through} :
                  /\ log[i].k = "reply"
                  /\ ~\E j \in {i_1 \in DOMAIN log : i_1 <= stored.st.through} :
                        log[j].k = "reply" /\ log[j].id = log[i].id /\ i < j}
  BY DEF LastReceipts
<1> HIDE DEF latest
<1> QED
  BY <1>3, <1>4, <1>5 DEF TotalsAdd

-----------------------------------------------------------------------------
(* The theorem. *)

\* The stored timeline is that of the transcript, however the batches were cut
\* and whenever it was rebuilt: results are on the latest call of their pair,
\* evidence is on call and result, totals are the sums over the turns with each
\* response billed once, and retrieval has the operations as its sources; for
\* transcripts of any length, any lines and any number of lines that arrive
\* behind the cursor (ingest/timeline/reduce.rs, ingest/projection/write.rs).
THEOREM TurnsAreExact == Spec => []TurnsExact
<1>1. Init => ReducerInv
  BY ReducerStarts DEF Init
<1>2. ReducerInv /\ [Next]_pipelineVars => ReducerInv'
  <2> SUFFICES ASSUME ReducerInv, [Next]_pipelineVars PROVE ReducerInv'
    OBVIOUS
  <2>1. ReducerNext \/ UNCHANGED reducerVars
    BY DEF Next, OthersRest, pipelineVars
  <2> QED
    BY <2>1, ReducerKeeps, ReducerRests
<1>3. ReducerInv => TurnsExact
  BY RowsPromise, TotalsPromise DEF TurnsExact
<1> QED
  BY <1>1, <1>2, <1>3, PTL DEF Spec
-----------------------------------------------------------------------------
(* The types of the parts of Pipeline.  Where a bound is reached in        *)
(* several steps the type is not inductive by itself.                      *)

\* The rows of the timeline and its sources stay in their sets.
LEMMA ReducerIsTyped == ReducerInv => ReducerTypeOK
BY DEF ReducerInv, ReducerTypeOK, Lines, Stored, SourcesFit, OpKeys

\* The usage rows name days of the calendar and lines that are stored.
LEMMA LedgerIsTyped == LedgerInv => LedgerTypeOK
<1> SUFFICES ASSUME LedgerInv PROVE LedgerTypeOK
  OBVIOUS
<1>0. StoredRows /\ OpenTick /\ UsageOf(ledger, rowsOf)
  BY DEF LedgerInv
<1>1. /\ Shaped(rowsOf) /\ ReplayKnows(rowsOf) /\ Len(rowsOf) <= MaxStored
      /\ rowsOf \in Seq(LedgerRows) /\ Len(rowsOf) \in Nat
  BY <1>0 DEF StoredRows, Shaped
<1>2. today \in 1 .. LastDay /\ lock \in {"free", "held"}
  BY <1>0 DEF OpenTick
<1>3. Len(inserted) <= 1
  <2>1. CASE inserted = <<>>
    BY <2>1
  <2>2. CASE inserted # <<>>
    <3>1. PICK line, day : inserted = <<Enriched(ctx, line, Len(rowsOf), day)>>
      BY <1>0, <2>2 DEF OpenTick, OpenRow
    <3> QED
      BY <3>1
  <2> QED
    BY <2>1, <2>2
<1>4. ledger.through \in 0 .. Len(rowsOf)
  BY <1>0 DEF UsageOf, FollowsReplay, FollowsClaude
<1>5. DOMAIN ledger.days \subseteq 1 .. LastDay
  <2>1. CASE Codex(rowsOf)
    BY <1>0, <1>1, <2>1 DEF UsageOf, FollowsReplay, ReplayKnows
  <2>2. CASE ~Codex(rowsOf)
    <3>1. ledger.days = Cumulative(ClaudeModels(rowsOf))
      BY <1>0, <2>2 DEF UsageOf, FollowsClaude
    <3>2. DOMAIN ledger.days = {k[1] : k \in KeysOf(rowsOf)}
      BY <3>1 DEF Cumulative, ClaudeModels
    <3>3. ASSUME NEW k \in KeysOf(rowsOf) PROVE k[1] \in 1 .. LastDay
      <4>0. LatestReceipts(rowsOf) \subseteq DOMAIN rowsOf
        BY DEF LatestReceipts
      <4>1. PICK i \in LatestReceipts(rowsOf) : k = <<rowsOf[i].day, rowsOf[i].line.model>>
        <5>1. PICK i \in LatestReceipts(rowsOf) : k = Keyed(rowsOf)[i]
          BY DEF KeysOf
        <5> QED
          BY <4>0, <5>1 DEF Keyed
      <4>2. rowsOf[i] \in LedgerRows
        BY <1>1, <4>1 DEF LatestReceipts
      <4> QED
        BY <4>1, <4>2 DEF LedgerRows
    <3> QED
      BY <3>2, <3>3
  <2> QED
    BY <2>1, <2>2
<1>6. ledger.through \in 0 .. MaxStored
  BY <1>1, <1>4, LedgerAssumption
<1> QED
  BY <1>1, <1>2, <1>3, <1>5, <1>6 DEF LedgerTypeOK

\* Where the tasks of a rebuild may stand, and what a job's row may say.
RebuildPlaces ==
    /\ jobs \in [Jobs -> {"none", "running", "completed", "failed"}]
    /\ worker \in {"idle", "checked"} /\ archiver \in {"idle", "gated"}
    /\ maint \in {"canonical", "usage", "mark", "project", "done", "failed"}
    /\ reindex \in {"idle", "canonical", "check", "request", "project", "gates"}

\* Every task stays at one of its places.
LEMMA RebuildPlacesKept == RebuildPlaces /\ [RebuildNext]_rebuildVars => RebuildPlaces'
<1> SUFFICES ASSUME RebuildPlaces, [RebuildNext]_rebuildVars PROVE RebuildPlaces'
  OBVIOUS
<1>0. \A name \in Jobs, status \in {"none", "running", "completed", "failed"} :
        /\ FinishJob(name, status) \in [Jobs -> {"none", "running", "completed", "failed"}]
        /\ StartJob(name) \in [Jobs -> {"none", "running", "completed", "failed"}]
  BY DEF RebuildPlaces, FinishJob, StartJob
<1>j. {"canonical_backfill", "usage_backfill", "timeline_backfill", "reindex"} \subseteq Jobs
  BY DEF Jobs
<1>1. CASE UNCHANGED rebuildVars
  BY <1>1 DEF rebuildVars, RebuildPlaces
<1>2. CASE WorkerChecks \/ WorkerProjects \/ PurgeChecksGates \/ PurgeFreezes
  BY <1>2 DEF WorkerChecks, WorkerProjects, PurgeChecksGates, PurgeFreezes, RebuildPlaces
<1>3. CASE RepairCanonical
  BY <1>0, <1>j, <1>3 DEF RepairCanonical, RebuildPlaces
<1>4. CASE RepairUsage \/ MarkForRebuild \/ RepairTimeline
  BY <1>0, <1>j, <1>4 DEF RepairUsage, MarkForRebuild, RepairTimeline, RebuildPlaces
<1>5. CASE RepairFails
  BY <1>0, <1>j, <1>5 DEF RepairFails, RebuildPlaces
<1>6. CASE RestartProcess
  BY <1>6 DEF RestartProcess, FirstBehind, RebuildPlaces
<1>7. CASE ReindexClears \/ ReindexMarks \/ ReindexFails
  BY <1>0, <1>j, <1>7 DEF ReindexClears, ReindexMarks, ReindexFails, RebuildPlaces
<1>8. CASE ReindexCanonical \/ ReindexChecks \/ ReindexRequests \/ ReindexProjects
  BY <1>8 DEF ReindexCanonical, ReindexChecks, ReindexRequests, ReindexProjects, RebuildPlaces
<1> QED
  BY <1>1, <1>2, <1>3, <1>4, <1>5, <1>6, <1>7, <1>8 DEF RebuildNext, Maintain, ReindexStep

\* The rebuild's variables stay in their sets.
LEMMA RebuildIsTyped == RebuildInv /\ RebuildPlaces => RebuildTypeOK
<1> SUFFICES ASSUME RebuildInv, RebuildPlaces PROVE RebuildTypeOK
  OBVIOUS
<1>0. RebuildTypes
  BY DEF RebuildInv
<1>1. PICK n \in 0 .. NEvents : timeline.rows \in [1 .. n -> Qualities]
  BY <1>0 DEF RebuildTypes, TurnRows
<1>2. 1 .. n \subseteq 1 .. NEvents
  BY <1>1, RebuildAssumption
<1>3. DOMAIN timeline.rows \subseteq 1 .. NEvents /\ \A i \in DOMAIN timeline.rows : timeline.rows[i] \in Qualities
  BY <1>1, <1>2
<1> QED
  BY <1>0, <1>3 DEF RebuildTypes, RebuildPlaces, RebuildTypeOK, Qualities

\* The stream's counters.  A rebuild that has begun leaves room for the
\* generation and the batch it will end with.
StreamBounds ==
    /\ through <= MaxOffset /\ generation \in 1 .. MaxGeneration
    /\ stale => generation < MaxGeneration /\ through > 0
    /\ req.items \subseteq 1 .. MaxOffset /\ client.items \subseteq 1 .. MaxOffset

\* The writer and the reader stay within them.
LEMMA StreamBoundsKept == StreamInv /\ StreamBounds /\ [StreamNext]_streamVars => StreamBounds'
<1> SUFFICES ASSUME StreamInv, StreamBounds, [StreamNext]_streamVars PROVE StreamBounds'
  OBVIOUS
<1>0. /\ through \in Nat /\ generation \in Nat /\ stale \in BOOLEAN
      /\ written.item \subseteq 1 .. through /\ MaxOffset \in Nat /\ MaxGeneration \in Nat
      /\ req = [pc |-> req.pc, cur |-> req.cur, items |-> req.items, ops |-> req.ops, whole |-> req.whole]
      /\ client = [has |-> client.has, cur |-> client.cur, items |-> client.items, ops |-> client.ops]
  BY StreamAssumption DEF StreamInv, WrittenTypes, ReaderTypes, WellWritten
<1>b. /\ through <= MaxOffset /\ generation \in 1 .. MaxGeneration
      /\ stale => generation < MaxGeneration /\ through > 0
      /\ req.items \subseteq 1 .. MaxOffset /\ client.items \subseteq 1 .. MaxOffset
  BY DEF StreamBounds
<1>e. Idle.items = {} /\ Empty.items = {}
  BY DEF Idle, Empty
<1>1. CASE UNCHANGED streamVars
  BY <1>1 DEF streamVars, StreamBounds
<1>2. ASSUME NEW kind \in EventKind, WriteBatch(kind) PROVE StreamBounds'
  <2>0. UNCHANGED <<req, client>>
    BY <1>2 DEF WriteBatch
  <2>1. CASE stale
    <3>1. generation' = generation + 1 /\ through' = 1 /\ stale' = FALSE
      BY <1>2, <2>1 DEF WriteBatch
    <3> QED
      BY <1>0, <1>b, <2>0, <2>1, <3>1 DEF StreamBounds
  <2>2. CASE ~stale
    <3>1. generation' = generation /\ through' = through + 1 /\ stale' = stale /\ through < MaxOffset
      BY <1>2, <2>2 DEF WriteBatch
    <3> QED
      BY <1>0, <1>b, <2>0, <2>2, <3>1 DEF StreamBounds
  <2> QED
    BY <2>1, <2>2
<1>3. CASE Reindex \/ PurgeTurns
  BY <1>0, <1>b, <1>3 DEF Reindex, PurgeTurns, StreamBounds
<1>4. ASSUME UNCHANGED <<through, generation, stale>>, req'.items \subseteq 1 .. MaxOffset,
             client'.items \subseteq 1 .. MaxOffset
      PROVE  StreamBounds'
  BY <1>b, <1>4 DEF StreamBounds
<1>5. CASE BeginStream
  <2>1. req'.items = {} /\ client' = client /\ UNCHANGED <<through, generation, stale>>
    BY <1>5 DEF BeginStream, Idle
  <2> QED
    BY <1>b, <1>4, <2>1
<1>6. CASE SendReset \/ DropStream
  <2>1. req'.items = {} /\ client'.items \in {{}, client.items} /\ UNCHANGED <<through, generation, stale>>
    BY <1>6 DEF SendReset, DropStream, Idle, Empty
  <2> QED
    BY <1>b, <1>4, <2>1
<1>7. CASE SendHeader
  <2>1. UNCHANGED <<through, generation, stale>> /\ req'.items \in {{}, req.items} /\ client'.items \in {{}, client.items}
    <3>1. (req' = Idle /\ client' = client) \/
          (req' = [req EXCEPT !.pc = "page"]
             /\ client' \in {[Empty EXCEPT !.has = TRUE, !.cur = req.cur], [client EXCEPT !.cur = req.cur]})
      BY <1>7 DEF SendHeader
    <3>2. [req EXCEPT !.pc = "page"].items = req.items /\ [client EXCEPT !.cur = req.cur].items = client.items
      BY <1>0
    <3>3. [Empty EXCEPT !.has = TRUE, !.cur = req.cur].items = {}
      BY DEF Empty
    <3> QED
      BY <1>7, <1>e, <3>1, <3>2, <3>3 DEF SendHeader
  <2> QED
    BY <1>b, <1>4, <2>1
<1>8. CASE ReadPage
  <2>1. client' = client /\ UNCHANGED <<through, generation, stale>>
    BY <1>8 DEF ReadPage
  <2>2. PageItems(req.cur) \subseteq 1 .. MaxOffset
    <3>1. PageItems(req.cur) \subseteq written.item
      BY DEF PageItems, FirstRows
    <3> QED
      BY <1>0, <1>b, <3>1
  <2>3. req'.items \in {req.items, PageItems(req.cur)}
    BY <1>0, <1>8 DEF ReadPage
  <2> QED
    BY <1>b, <1>4, <2>1, <2>2, <2>3
<1>9. CASE ReadReferences
  <2>1. client' = client /\ UNCHANGED <<through, generation, stale>> /\ req'.items = req.items
    BY <1>0, <1>9 DEF ReadReferences
  <2> QED
    BY <1>b, <1>4, <2>1
<1>10. CASE SendPage \/ SendComplete
  <2>1. UNCHANGED <<through, generation, stale>> /\ req'.items \in {{}, req.items}
    BY <1>0, <1>10, <1>e DEF SendPage, SendComplete
  <2>2. client'.items \in {client.items, client.items \cup req.items}
    BY <1>0, <1>10 DEF SendPage, SendComplete
  <2> QED
    BY <1>b, <1>4, <2>1, <2>2
<1> QED
  BY <1>1, <1>2, <1>3, <1>5, <1>6, <1>7, <1>8, <1>9, <1>10 DEF StreamNext, Serve

\* The turn and what a tab has of it stay within the transcript.
LEMMA StreamIsTyped == StreamInv /\ StreamBounds => StreamTypeOK
<1> SUFFICES ASSUME StreamInv, StreamBounds PROVE StreamTypeOK
  OBVIOUS
<1>1. /\ through \in Nat /\ written.item \subseteq 1 .. through /\ MaxOffset \in Nat /\ stale \in BOOLEAN /\ gone \in BOOLEAN
      /\ req.pc \in {"idle", "reset"} \cup Serving
  BY StreamAssumption DEF StreamInv, WrittenTypes, WellWritten, ReaderTypes
<1>2. through \in 0 .. MaxOffset /\ 1 .. through \subseteq 1 .. MaxOffset
  BY <1>1 DEF StreamBounds
<1> QED
  BY <1>1, <1>2 DEF StreamBounds, StreamTypeOK, Serving

\* The index's versions are those of edits there were.
IndexBounds == edits <= MaxEdit /\ \A f \in File : facts[f] \in -1 .. edits

\* A pass stores the facts of a version it read.
LEMMA IndexBoundsKept == IndexInv /\ IndexBounds /\ [IndexNext]_indexVars => IndexBounds'
<1> SUFFICES ASSUME IndexInv, IndexBounds, [IndexNext]_indexVars PROVE IndexBounds'
  OBVIOUS
<1>0. /\ edits \in Nat /\ edits <= MaxEdit /\ MaxEdit \in Nat /\ facts \in [File -> Int] /\ job.read \in 0 .. edits
      /\ \A f \in File : facts[f] \in -1 .. edits
  BY IndexAssumption DEF IndexInv, IndexTypes, JobRecords, IndexBounds
<1>1. ASSUME UNCHANGED <<facts, edits>> PROVE IndexBounds'
  BY <1>1 DEF IndexBounds
<1>2. CASE UNCHANGED indexVars
  BY <1>1, <1>2 DEF indexVars
<1>3. ASSUME NEW f \in File, NEW there, NEW big, Edit(f, there, big) PROVE IndexBounds'
  <2>1. edits < MaxEdit /\ edits' = edits + 1 /\ facts' = facts
    BY <1>3 DEF Edit
  <2> QED
    BY <1>0, <2>1 DEF IndexBounds
<1>4. ASSUME edits' = edits, facts' \in {[facts EXCEPT ![job.file] = 0], [facts EXCEPT ![job.file] = -1],
                                         [facts EXCEPT ![job.file] = job.read]}
      PROVE  IndexBounds'
  BY <1>0, <1>4 DEF IndexBounds
<1>5. CASE ClearFacts \/ InsertFacts
  BY <1>4, <1>5 DEF ClearFacts, InsertFacts
<1>6. ASSUME NEW f \in File, Mark(f) \/ DeleteNext(f) \/ ReadFile(f) PROVE IndexBounds'
  BY <1>1, <1>6 DEF Mark, DeleteNext, ReadFile
<1>7. CASE Deletes \/ Marked \/ LoadPending \/ StatFile \/ FileFails \/ StoreRow \/ MarkRow \/ FinishIndexJob
           \/ Background \/ Restart
  BY <1>1, <1>7 DEF Deletes, Marked, LoadPending, StatFile, FileFails, StoreRow, MarkRow, FinishIndexJob,
     Background, Restart
<1>8. ASSUME NEW kind, NEW scope, Discover(kind, scope) PROVE IndexBounds'
  BY <1>1, <1>8 DEF Discover
<1> QED
  BY <1>2, <1>3, <1>5, <1>6, <1>7, <1>8 DEF IndexNext, IndexStep

\* Rows, versions and facts of the index stay in their sets.
LEMMA IndexIsTyped == IndexInv /\ IndexBounds => IndexTypeOK
<1> SUFFICES ASSUME IndexInv, IndexBounds PROVE IndexTypeOK
  OBVIOUS
<1>1. edits \in Nat /\ edits <= MaxEdit /\ MaxEdit \in Nat
  BY IndexAssumption DEF IndexInv, IndexTypes, IndexBounds
<1>2. 0 .. edits \subseteq 0 .. MaxEdit /\ -1 .. edits \subseteq -1 .. MaxEdit
  BY <1>1
<1>3. \A f \in File : row[f] \in [st : Status, mtime : 0 .. edits] /\ disk[f] \in 0 .. edits /\ facts[f] \in -1 .. edits
  BY DEF IndexInv, IndexTypes, IndexBounds
<1>4. job.todo \subseteq File /\ job.file \in File \cup {NoFile}
  BY DEF IndexInv, IndexTypes, JobRecords
<1> QED
  BY <1>2, <1>3, <1>4 DEF IndexTypeOK

\* A text is known to a request only once it was written.
LspBounds ==
    /\ changes \in 0 .. MaxChange
    /\ \A r \in Root : source[r] \in 1 .. (changes + 1)
    /\ \A i \in Request : request[i].text \in 0 .. (changes + 1)

\* A request keeps the text it read, until it is over.
LEMMA TextsKept ==
    ASSUME LspInv, NEW i \in Request, LspStep(i) \/ SpawnFails(i) \/ DropRequest(i)
    PROVE  /\ UNCHANGED <<source, changes>>
           /\ \A j \in Request : request'[j].text \in {0, request[j].text}
<1>0. request \in [Request -> Navigations]
  BY DEF LspInv, LspTypes
<1>g. Gone.text = 0
  BY DEF Gone
<1>d. ASSUME request' = [request EXCEPT ![i] = Gone]
      PROVE  \A j \in Request : request'[j].text \in {0, request[j].text}
  <2>1. \A j \in Request : request'[j] = IF j = i THEN Gone ELSE request[j]
    BY <1>0, <1>d
  <2> QED
    BY <1>g, <2>1
<1>2. UNCHANGED <<source, changes>>
  BY DEF LspStep, FindSlot, PeekSlot, EvictExpired, EvictRoot, EnsureCapacity, ClearEvicted, TakeSlot, EnterSlot,
     SpawnServer, ResetClient, WipeSlot, LockServer, SyncDocument, SendQuery, Told, TimeOut, SpawnFails,
     DropRequest, Goes, Finishes
<1>3. CASE FindSlot(i) \/ PeekSlot(i) \/ EnterSlot(i) \/ SpawnServer(i)
  BY <1>0, <1>3 DEF FindSlot, PeekSlot, EnterSlot, SpawnServer, UseServer, Goes, Navigations
<1>4. CASE EvictExpired(i) \/ EnsureCapacity(i)
  BY <1>0, <1>g, <1>4 DEF EvictExpired, EnsureCapacity, EvictRoot, Goes, Finishes, Navigations
<1>5. CASE ClearEvicted(i) \/ TakeSlot(i) \/ SpawnFails(i)
  BY <1>0, <1>5 DEF ClearEvicted, TakeSlot, SpawnFails, Navigations
<1>6. CASE ResetClient(i)
  <2>1. request' = [request EXCEPT ![i] = Gone]
          \/ request' = [request EXCEPT ![i].at = "wipe", ![i].slot = slots[request[i].root]]
    BY <1>6 DEF ResetClient, Finishes
  <2> QED
    BY <1>0, <1>2, <1>d, <2>1 DEF Navigations
<1>8. CASE WipeSlot(i) \/ Told(i) \/ DropRequest(i)
  <2>1. request' = [request EXCEPT ![i] = Gone]
    BY <1>8 DEF WipeSlot, Told, DropRequest, Finishes
  <2> QED
    BY <1>2, <1>d, <2>1
<1>7. CASE LockServer(i) \/ SyncDocument(i) \/ SendQuery(i) \/ TimeOut(i)
  BY <1>0, <1>7 DEF LockServer, SyncDocument, SendQuery, TimeOut, Goes, Abandon, Navigations
<1> QED
  BY <1>2, <1>3, <1>4, <1>5, <1>6, <1>7, <1>8 DEF LspStep

\* Edits number the texts.
LEMMA LspBoundsKept == LspInv /\ LspBounds /\ [LspNext]_lspVars => LspBounds'
<1> SUFFICES ASSUME LspInv, LspBounds, [LspNext]_lspVars PROVE LspBounds'
  OBVIOUS
<1>0. source \in [Root -> Nat] /\ request \in [Request -> Navigations] /\ MaxChange \in Nat
  BY LspAssumption DEF LspInv, LspTypes
<1>b. /\ changes \in 0 .. MaxChange /\ \A r \in Root : source[r] \in 1 .. (changes + 1)
      /\ \A i \in Request : request[i].text \in 0 .. (changes + 1)
  BY DEF LspBounds
<1>1. ASSUME UNCHANGED <<source, changes>>, \A j \in Request : request'[j].text \in {0, request[j].text}
      PROVE  LspBounds'
  BY <1>0, <1>b, <1>1 DEF LspBounds
<1>2. CASE UNCHANGED lspVars
  BY <1>2 DEF lspVars, LspBounds
<1>3. ASSUME NEW r \in Root, EditSource(r) PROVE LspBounds'
  <2>1. changes < MaxChange /\ changes' = changes + 1 /\ source' = [source EXCEPT ![r] = @ + 1] /\ request' = request
    BY <1>3 DEF EditSource
  <2> QED
    BY <1>0, <1>b, <2>1 DEF LspBounds
<1>4. ASSUME NEW i \in Request, LspStep(i) \/ SpawnFails(i) \/ DropRequest(i) PROVE LspBounds'
  BY <1>1, <1>4, TextsKept
<1>5. ASSUME NEW i \in Request, NEW r \in Root, Ask(i, r) PROVE LspBounds'
  <2>1. /\ UNCHANGED <<source, changes>>
        /\ request' = [request EXCEPT ![i] = [Gone EXCEPT !.at = "find", !.root = r, !.text = source[r]]]
    BY <1>5 DEF Ask
  <2>2. [Gone EXCEPT !.at = "find", !.root = r, !.text = source[r]].text = source[r]
    BY DEF Gone
  <2>3. \A j \in Request : request'[j].text \in {source[r], request[j].text}
    BY <1>0, <2>1, <2>2
  <2> QED
    BY <1>0, <1>b, <2>1, <2>3 DEF LspBounds
<1>6. ASSUME NEW s \in Request, ServerDies(s) PROVE LspBounds'
  <2>1. UNCHANGED <<source, changes>> /\ \A j \in Request : request'[j].text = request[j].text
    BY <1>0, <1>6 DEF ServerDies, Navigations
  <2> QED
    BY <1>1, <2>1
<1>7. ASSUME NEW s \in Request, NEW m \in server[s].asked, Reply(s, m) PROVE LspBounds'
  <2>1. UNCHANGED <<source, changes>> /\ \A j \in Request : request'[j].text = request[j].text
    BY <1>0, <1>7 DEF Reply, Navigations
  <2> QED
    BY <1>1, <2>1
<1> QED
  BY <1>2, <1>3, <1>4, <1>5, <1>6, <1>7 DEF LspNext

\* The pool's tables stay in their sets, and every text is a version there was.
LEMMA LspIsTyped == LspInv /\ LspBounds => LspTypeOK
<1> SUFFICES ASSUME LspInv, LspBounds PROVE LspTypeOK
  OBVIOUS
<1>1. changes \in 0 .. MaxChange /\ MaxChange \in Nat
  BY LspAssumption DEF LspBounds
<1>2. 1 .. (changes + 1) \subseteq Versions /\ 0 .. (changes + 1) \subseteq {0} \cup Versions
  BY <1>1 DEF Versions
<1>3. /\ slots \in [Root -> 0 .. MaxRequest] /\ server \in [Request -> Servers]
      /\ slot \in [Request -> [client : 0 .. MaxRequest, lock : 0 .. MaxRequest]]
  BY DEF LspInv, LspTypes
<1>4. \A i \in Request : server[i].pending \subseteq Request
  BY <1>3 DEF Servers
<1> QED
  BY <1>2, <1>3, <1>4 DEF LspBounds, LspTypeOK

-----------------------------------------------------------------------------
(* The types of the semantic index. *)

\* A run is started only where there is room for one, also by the first start
\* after a reset that was cut off.
RunsFit(rs, p) ==
    /\ Len(rs) <= MaxRun
    /\ (\A r \in DOMAIN rs : rs[r].st = "dropped") => Len(rs) < MaxRun
    /\ p.at = "schedule" => Len(rs) < MaxRun

\* Texts in a pass's hands, and what it has to do.
PassFits(p) ==
    /\ p.seen <= texts /\ \A k \in Sources : p.got[k] <= texts
    /\ p.at = "load" => p.todo \subseteq Sources
    /\ p.at \in {"free", "schedule", "embed"} => p.todo = {}
    /\ ~up => p.at = "free"

\* Rows name texts that were written and runs that were started.
RowFits(r, rs) == r.hash <= texts /\ r.gen <= Len(rs)

EmbedBounds ==
    /\ texts <= MaxText /\ (\A k \in Sources : text[k] <= texts /\ RowFits(rowOf[k], runs))
    /\ RunsFit(runs, pass) /\ PassFits(pass) /\ overtaken \subseteq Sources

\* Runs rewritten in place are as many as before.
LEMMA SameLength ==
    ASSUME NEW a \in Seq(RunRows), NEW b \in Seq(RunRows), DOMAIN a = DOMAIN b
    PROVE  Len(a) = Len(b)
<1>1. Len(a) \in Nat /\ Len(b) \in Nat /\ 1 .. Len(a) = 1 .. Len(b)
  OBVIOUS
<1> QED
  BY <1>1

\* Which of them are dropped does not change.
LEMMA RunsRewritten ==
    ASSUME NEW a \in Seq(RunRows), NEW b \in Seq(RunRows), DOMAIN a = DOMAIN b, NEW p, NEW q, RunsFit(a, p),
           \A r \in DOMAIN a : b[r].st = "dropped" => a[r].st = "dropped",
           q.at # "schedule" \/ p.at = "schedule"
    PROVE  RunsFit(b, q) /\ Len(b) = Len(a)
<1>1. Len(a) = Len(b)
  BY SameLength
<1> QED
  BY <1>1 DEF RunsFit

\* A run is added.
LEMMA RunAdded ==
    ASSUME NEW a \in Seq(RunRows), Len(a) < MaxRun, NEW scope \in SUBSET Sources, NEW q, q.at # "schedule"
    PROVE  RunsFit(Append(a, RunRow(scope)), q) /\ Len(Append(a, RunRow(scope))) = Len(a) + 1
<1> DEFINE b == Append(a, RunRow(scope))
<1>1. RunRow(scope) \in RunRows /\ RunRow(scope).st = "running"
  BY DEF RunRow, RunRows
<1>2. Len(b) = Len(a) + 1 /\ b[Len(a) + 1] = RunRow(scope) /\ Len(a) \in Nat /\ Len(a) + 1 \in DOMAIN b
  BY <1>1
<1> HIDE DEF b
<1>3. b[Len(a) + 1].st # "dropped" /\ Len(b) <= MaxRun
  BY <1>1, <1>2, EmbedAssumption
<1>4. RunsFit(b, q)
  BY <1>2, <1>3 DEF RunsFit
<1> QED
  BY <1>2, <1>4 DEF b

\* A pass at rest.
LEMMA RestFits == texts \in Nat => PassFits(NoPass) /\ NoPass.at = "free"
BY DEF PassFits, NoPass

\* Rows stay within bounds that only grow.
LEMMA RowsFit ==
    ASSUME EmbedInv, EmbedBounds, EmbedTypes', texts' >= texts, Len(runs') >= Len(runs), texts' <= MaxText,
           NEW S \in SUBSET Sources,
           \A k \in Sources \ S : text'[k] = text[k] /\ rowOf'[k].hash = rowOf[k].hash /\ rowOf'[k].gen = rowOf[k].gen,
           \A k \in S : text'[k] <= texts' /\ rowOf'[k].hash <= texts' /\ rowOf'[k].gen <= Len(runs'),
           RunsFit(runs', pass'), PassFits(pass)', overtaken' \subseteq Sources
    PROVE  EmbedBounds'
<1>1. /\ texts \in Nat /\ texts' \in Nat /\ Len(runs) \in Nat /\ Len(runs') \in Nat
      /\ \A k \in Sources : text[k] \in Nat /\ rowOf[k].hash \in Nat /\ rowOf[k].gen \in Nat
  BY DEF EmbedInv, EmbedTypes, SourceRows
<1>2. \A k \in Sources : text[k] <= texts /\ rowOf[k].hash <= texts /\ rowOf[k].gen <= Len(runs)
  BY DEF EmbedBounds, RowFits
<1>3. ASSUME NEW k \in Sources PROVE text'[k] <= texts' /\ rowOf'[k].hash <= texts' /\ rowOf'[k].gen <= Len(runs')
  BY <1>1, <1>2
<1> QED
  BY <1>3 DEF EmbedBounds, RowFits

\* The facts of a step that every action needs.
LEMMA EmbedFacts ==
    ASSUME EmbedInv, EmbedBounds, EmbedTypes'
    PROVE  /\ texts \in Nat /\ texts <= MaxText /\ MaxText \in Nat /\ texts' \in Nat /\ runs \in Seq(RunRows) /\ runs' \in Seq(RunRows)
           /\ Len(runs) \in Nat /\ Len(runs') \in Nat /\ MaxRun \in Nat /\ DOMAIN runs = 1 .. Len(runs)
           /\ text \in [Sources -> Nat] /\ rowOf \in [Sources -> SourceRows] /\ pass \in Passes
           /\ overtaken \subseteq Sources /\ InHand \subseteq Sources
           /\ RunsFit(runs, pass) /\ PassFits(pass)
           /\ \A k \in Sources : text[k] <= texts /\ rowOf[k].hash <= texts /\ rowOf[k].gen <= Len(runs)
           /\ \A k \in Sources : pass.got[k] \in Nat /\ pass.got[k] <= texts
<1>1. EmbedTypes /\ PassPlace
  BY DEF EmbedInv
<1>2. /\ texts \in Nat /\ texts' \in Nat /\ runs \in Seq(RunRows) /\ runs' \in Seq(RunRows)
      /\ text \in [Sources -> Nat] /\ rowOf \in [Sources -> SourceRows] /\ pass \in Passes
  BY <1>1 DEF EmbedTypes
<1>3. Len(runs) \in Nat /\ Len(runs') \in Nat /\ DOMAIN runs = 1 .. Len(runs)
  BY <1>2
<1>4. /\ pass.got \in [Sources -> Nat] /\ pass.gone \in SUBSET Sources /\ (pass.at = "seen" => pass.key \in Sources)
  BY <1>1, <1>2 DEF Passes, PassPlace
<1>5. InHand \subseteq Sources
  BY <1>4 DEF InHand
<1> QED
  BY <1>2, <1>3, <1>4, <1>5, EmbedAssumption DEF EmbedBounds, RowFits, PassFits

\* A writer changes a text: what was there may stay in a pass's hands.
LEMMA WriterFits ==
    ASSUME EmbedInv, EmbedBounds, EmbedTypes', texts' = texts + 1, texts < MaxText, NEW ks \in SUBSET Sources,
           runs' = Touch(runs, ks), pass' = pass, up' = up, overtaken' \subseteq Sources, NEW S \in SUBSET Sources,
           \A k \in Sources \ S : text'[k] = text[k] /\ rowOf'[k].hash = rowOf[k].hash /\ rowOf'[k].gen = rowOf[k].gen,
           \A k \in S : /\ text'[k] \in {0, texts + 1} /\ rowOf'[k].hash \in {0, texts + 1, rowOf[k].hash}
                        /\ rowOf'[k].gen \in {0, rowOf[k].gen}
    PROVE  EmbedBounds'
<1>1. /\ texts \in Nat /\ runs \in Seq(RunRows) /\ runs' \in Seq(RunRows) /\ Len(runs) \in Nat /\ MaxText \in Nat /\ MaxRun \in Nat
      /\ RunsFit(runs, pass) /\ PassFits(pass) /\ pass \in Passes /\ rowOf \in [Sources -> SourceRows]
      /\ \A k \in Sources : text[k] <= texts /\ rowOf[k].hash <= texts /\ rowOf[k].gen <= Len(runs)
      /\ \A k \in Sources : pass.got[k] \in Nat /\ pass.got[k] <= texts
  BY EmbedFacts
<1>2. DOMAIN runs' = DOMAIN runs /\ \A r \in DOMAIN runs : runs'[r].st = runs[r].st
  BY <1>1, TouchIs
<1>3. RunsFit(runs', pass') /\ Len(runs') = Len(runs)
  <2>1. \A r \in DOMAIN runs : runs'[r].st = "dropped" => runs[r].st = "dropped"
    BY <1>2
  <2>2. RunsFit(runs', pass) /\ Len(runs') = Len(runs)
    BY <1>1, <1>2, <2>1, RunsRewritten
  <2> QED
    BY <2>2
<1>4. PassFits(pass)'
  <2>1. pass.seen \in Nat /\ pass.seen <= texts /\ pass.seen <= texts + 1
    BY <1>1 DEF PassFits, Passes
  <2>2. \A k \in Sources : pass.got[k] <= texts + 1
    BY <1>1
  <2> QED
    BY <1>1, <2>1, <2>2 DEF PassFits
<1>5. texts' >= texts /\ texts' <= MaxText /\ Len(runs') >= Len(runs)
  BY <1>1, <1>3
<1>6. ASSUME NEW k \in S PROVE text'[k] <= texts' /\ rowOf'[k].hash <= texts' /\ rowOf'[k].gen <= Len(runs')
  <2>1. rowOf[k].hash \in Nat /\ rowOf[k].gen \in Nat /\ rowOf[k].hash <= texts /\ rowOf[k].gen <= Len(runs)
    BY <1>1 DEF SourceRows
  <2> QED
    BY <1>1, <1>3, <2>1
<1> QED
  BY <1>3, <1>4, <1>5, <1>6, RowsFit

\* Only what a pass does changes: its place, and statuses of rows.
LEMMA PassFitsOn ==
    ASSUME EmbedInv, EmbedBounds, EmbedTypes', texts' = texts, text' = text, overtaken' \subseteq Sources,
           DOMAIN runs' = DOMAIN runs, \A r \in DOMAIN runs : runs'[r].st = "dropped" => runs[r].st = "dropped",
           pass'.at # "schedule", PassFits(pass)', NEW S \in SUBSET Sources,
           \A k \in Sources \ S : rowOf'[k].hash = rowOf[k].hash /\ rowOf'[k].gen = rowOf[k].gen,
           \A k \in S : rowOf'[k].hash <= texts /\ rowOf'[k].gen <= Len(runs)
    PROVE  EmbedBounds'
<1>1. /\ texts \in Nat /\ runs \in Seq(RunRows) /\ runs' \in Seq(RunRows) /\ Len(runs) \in Nat /\ texts <= MaxText
      /\ RunsFit(runs, pass) /\ \A k \in Sources : text[k] <= texts
  BY EmbedFacts
<1>2. RunsFit(runs', pass') /\ Len(runs') = Len(runs)
  BY <1>1, RunsRewritten
<1>3. texts' >= texts /\ Len(runs') >= Len(runs) /\ texts' <= MaxText
  BY <1>1, <1>2
<1>4. \A k \in S : text'[k] <= texts' /\ rowOf'[k].hash <= texts' /\ rowOf'[k].gen <= Len(runs')
  BY <1>1, <1>2
<1> QED
  BY <1>2, <1>3, <1>4, RowsFit

\* Writers of texts.
LEMMA WritersFit ==
    ASSUME EmbedInv, EmbedBounds, EmbedTypes', (\E k \in Sources : WriteSource(k) \/ RemoveSource(k)) \/ PurgeSources
    PROVE  EmbedBounds'
<1>0. /\ texts \in Nat /\ text \in [Sources -> Nat] /\ rowOf \in [Sources -> SourceRows]
      /\ overtaken \subseteq Sources /\ InHand \subseteq Sources
  BY EmbedFacts
<1>1. ASSUME NEW k \in Sources, WriteSource(k) PROVE EmbedBounds'
  <2>1. /\ texts' = texts + 1 /\ texts < MaxText /\ runs' = Touch(runs, {k}) /\ pass' = pass /\ up' = up
        /\ overtaken' \subseteq Sources /\ {k} \in SUBSET Sources
    BY <1>0, <1>1 DEF WriteSource
  <2>2. \A j \in Sources \ {k} : text'[j] = text[j] /\ rowOf'[j].hash = rowOf[j].hash /\ rowOf'[j].gen = rowOf[j].gen
    BY <1>0, <1>1 DEF WriteSource
  <2>3. \A j \in {k} : text'[j] = texts + 1 /\ rowOf'[j].hash = texts + 1 /\ rowOf'[j].gen = rowOf[j].gen
    BY <1>0, <1>1 DEF WriteSource, MarkedPending
  <2>4. \A j \in {k} : /\ text'[j] \in {0, texts + 1} /\ rowOf'[j].hash \in {0, texts + 1, rowOf[j].hash}
                       /\ rowOf'[j].gen \in {0, rowOf[j].gen}
    BY <2>3
  <2> QED
    BY <2>1, <2>2, <2>4, WriterFits
<1>2. ASSUME NEW k \in Sources, RemoveSource(k) PROVE EmbedBounds'
  <2>1. /\ texts' = texts + 1 /\ texts < MaxText /\ runs' = Touch(runs, {k}) /\ pass' = pass /\ up' = up
        /\ overtaken' \subseteq Sources /\ {k} \in SUBSET Sources
    BY <1>0, <1>2 DEF RemoveSource
  <2>2. \A j \in Sources \ {k} : text'[j] = text[j] /\ rowOf'[j].hash = rowOf[j].hash /\ rowOf'[j].gen = rowOf[j].gen
    BY <1>0, <1>2 DEF RemoveSource
  <2>3. \A j \in {k} : text'[j] = 0 /\ rowOf'[j].hash = rowOf[j].hash /\ rowOf'[j].gen = rowOf[j].gen
    BY <1>0, <1>2 DEF RemoveSource, SourceRows
  <2>4. \A j \in {k} : /\ text'[j] \in {0, texts + 1} /\ rowOf'[j].hash \in {0, texts + 1, rowOf[j].hash}
                       /\ rowOf'[j].gen \in {0, rowOf[j].gen}
    BY <2>3
  <2> QED
    BY <2>1, <2>2, <2>4, WriterFits
<1>3. ASSUME PurgeSources PROVE EmbedBounds'
  <2>1. /\ texts' = texts + 1 /\ texts < MaxText /\ runs' = Touch(runs, Sources) /\ pass' = pass /\ up' = up
        /\ overtaken' \subseteq Sources /\ Sources \in SUBSET Sources
    BY <1>0, <1>3 DEF PurgeSources
  <2>2. \A j \in Sources \ Sources : text'[j] = text[j] /\ rowOf'[j].hash = rowOf[j].hash /\ rowOf'[j].gen = rowOf[j].gen
    OBVIOUS
  <2>3. \A j \in Sources : text'[j] \in {0, texts + 1} /\ rowOf'[j].hash \in {0, texts + 1} /\ rowOf'[j].gen = 0
    BY <1>0, <1>3 DEF PurgeSources, NoRow
  <2>4. \A j \in Sources : /\ text'[j] \in {0, texts + 1} /\ rowOf'[j].hash \in {0, texts + 1, rowOf[j].hash}
                           /\ rowOf'[j].gen \in {0, rowOf[j].gen}
    BY <2>3
  <2> QED
    BY <2>1, <2>2, <2>4, WriterFits
<1> QED
  BY <1>1, <1>2, <1>3

\* A run joins the others.
LEMMA RunJoins ==
    ASSUME EmbedInv, EmbedBounds, EmbedTypes', Len(runs) < MaxRun, NEW scope \in SUBSET Sources,
           runs' = Append(runs, RunRow(scope)), pass'.at # "schedule", PassFits(pass)',
           UNCHANGED <<text, rowOf, overtaken, texts>>
    PROVE  EmbedBounds'
<1>1. /\ texts \in Nat /\ texts <= MaxText /\ runs \in Seq(RunRows) /\ Len(runs) \in Nat /\ overtaken \subseteq Sources
  BY EmbedFacts
<1>2. RunsFit(runs', pass') /\ Len(runs') = Len(runs) + 1
  BY <1>1, RunAdded
<1>3. texts' >= texts /\ texts' <= MaxText /\ Len(runs') >= Len(runs) /\ overtaken' \subseteq Sources
  BY <1>1, <1>2
<1>4. {} \in SUBSET Sources /\ \A k \in Sources \ {} : text'[k] = text[k] /\ rowOf'[k].hash = rowOf[k].hash /\ rowOf'[k].gen = rowOf[k].gen
  OBVIOUS
<1> QED
  BY <1>2, <1>3, <1>4, RowsFit

\* The service: requests, crash and start.
LEMMA ServiceFits ==
    ASSUME EmbedInv, EmbedBounds, EmbedTypes',
           \/ \E scope \in {Sources} \cup {{k} : k \in Sources} : ReindexSources(scope)
           \/ ResetIndex \/ Schedule \/ CrashIndexer \/ Bootstrap
    PROVE  EmbedBounds'
<1>0. /\ texts \in Nat /\ texts <= MaxText /\ runs \in Seq(RunRows) /\ runs' \in Seq(RunRows) /\ Len(runs) \in Nat
      /\ overtaken \subseteq Sources /\ RunsFit(runs, pass) /\ PassFits(pass) /\ MaxRun \in Nat /\ DOMAIN runs = 1 .. Len(runs)
  BY EmbedFacts
<1>r. PassFits(NoPass) /\ NoPass.at = "free"
  BY <1>0, RestFits
<1>1. ASSUME NEW scope \in {Sources} \cup {{k} : k \in Sources}, ReindexSources(scope) PROVE EmbedBounds'
  <2>1. /\ scope \in SUBSET Sources /\ runs' = Append(runs, RunRow(scope)) /\ Len(runs) < MaxRun /\ pass = NoPass
        /\ pass' = pass /\ up' = up /\ UNCHANGED <<text, rowOf, overtaken, texts>>
    BY <1>1 DEF ReindexSources
  <2>2. PassFits(pass)' /\ pass'.at # "schedule"
    BY <1>0, <1>r, <2>1 DEF PassFits
  <2> QED
    BY <2>1, <2>2, RunJoins
<1>2. ASSUME ResetIndex PROVE EmbedBounds'
  <2>1. /\ pass = NoPass /\ Len(runs) < MaxRun /\ texts' = texts /\ text' = text /\ up' = up /\ up = TRUE /\ overtaken' = {}
        /\ pass' = [NoPass EXCEPT !.at = "schedule"] /\ \A k \in Sources : rowOf'[k] = NoRow
        /\ DOMAIN runs' = DOMAIN runs
    BY <1>2 DEF ResetIndex
  <2>2. Len(runs') = Len(runs)
    BY <1>0, <2>1, SameLength
  <2>3. RunsFit(runs', pass')
    BY <1>0, <2>1, <2>2 DEF RunsFit
  <2>4. PassFits(pass)'
    BY <1>0, <2>1 DEF PassFits, NoPass
  <2>5. /\ Sources \in SUBSET Sources /\ texts' >= texts /\ texts' <= MaxText /\ Len(runs') >= Len(runs) /\ overtaken' \subseteq Sources
        /\ \A k \in Sources \ Sources : text'[k] = text[k] /\ rowOf'[k].hash = rowOf[k].hash /\ rowOf'[k].gen = rowOf[k].gen
    BY <1>0, <2>1, <2>2
  <2>6. \A k \in Sources : text'[k] <= texts' /\ rowOf'[k].hash <= texts' /\ rowOf'[k].gen <= Len(runs')
    <3>1. NoRow.hash = 0 /\ NoRow.gen = 0 /\ \A k \in Sources : text[k] <= texts
      BY EmbedFacts DEF NoRow
    <3> QED
      BY <1>0, <2>1, <2>2, <3>1
  <2> QED
    BY <2>3, <2>4, <2>5, <2>6, RowsFit
<1>3. ASSUME Schedule PROVE EmbedBounds'
  <2>1. /\ Sources \in SUBSET Sources /\ runs' = Append(runs, RunRow(Sources)) /\ pass.at = "schedule"
        /\ pass' = NoPass /\ up' = up /\ UNCHANGED <<text, rowOf, overtaken, texts>>
    BY <1>3 DEF Schedule
  <2>2. PassFits(pass)' /\ pass'.at # "schedule" /\ Len(runs) < MaxRun
    BY <1>0, <1>r, <2>1 DEF PassFits, RunsFit
  <2> QED
    BY <2>1, <2>2, RunJoins
<1>4. ASSUME CrashIndexer PROVE EmbedBounds'
  <2>1. /\ {} \in SUBSET Sources /\ texts' = texts /\ text' = text /\ overtaken' = overtaken /\ runs' = runs
        /\ pass' = NoPass /\ rowOf' = rowOf
    BY <1>4 DEF CrashIndexer
  <2>2. PassFits(pass)' /\ pass'.at # "schedule"
    BY <1>0, <1>r, <2>1 DEF PassFits
  <2> QED
    BY <1>0, <2>1, <2>2, PassFitsOn
<1>5. ASSUME Bootstrap PROVE EmbedBounds'
  <2>1. /\ {} \in SUBSET Sources /\ Sources \in SUBSET Sources /\ texts' = texts /\ text' = text /\ overtaken' = overtaken
        /\ pass' = pass /\ rowOf' = rowOf /\ ~up
    BY <1>5 DEF Bootstrap
  <2>2. PassFits(pass)' /\ pass'.at # "schedule"
    BY <1>0, <2>1 DEF PassFits
  <2>3. CASE runs' = runs
    BY <1>0, <2>1, <2>2, <2>3, PassFitsOn
  <2>4. CASE runs' # runs
    <3>1. runs' = Append(runs, RunRow(Sources)) /\ \A r \in DOMAIN runs : runs[r].st = "dropped"
      BY <1>5, <2>4 DEF Bootstrap
    <3>2. Len(runs) < MaxRun
      BY <1>0, <3>1 DEF RunsFit
    <3> QED
      BY <2>1, <2>2, <3>1, <3>2, RunJoins
  <2> QED
    BY <2>3, <2>4
<1> QED
  BY <1>1, <1>2, <1>3, <1>4, <1>5

\* A pass moves on without a row being written.
LEMMA LooksFit ==
    ASSUME EmbedInv, EmbedBounds, EmbedTypes',
           \/ \E r \in DOMAIN runs : LoadPage(r)
           \/ StartPass \/ LookAtRow \/ LoadPendingRows \/ EmbedFails \/ \E k \in Sources : LoadCurrentSource(k)
    PROVE  EmbedBounds'
<1>0. /\ texts \in Nat /\ texts <= MaxText /\ runs \in Seq(RunRows) /\ Len(runs) \in Nat
      /\ overtaken \subseteq Sources /\ PassFits(pass) /\ pass \in Passes
      /\ \A k \in Sources : text[k] <= texts /\ pass.got[k] <= texts
  BY EmbedFacts
<1>p. PassPlace /\ EmbedTypes
  BY DEF EmbedInv
<1>r. PassFits(NoPass) /\ NoPass.at = "free"
  BY <1>0, RestFits
<1> DEFINE Quiet == text' = text /\ rowOf' = rowOf /\ runs' = runs /\ up' = up /\ texts' = texts
<1>q. ASSUME Quiet, overtaken' \subseteq Sources, PassFits(pass)', pass'.at # "schedule" PROVE EmbedBounds'
  <2>1. {} \in SUBSET Sources /\ \A r \in DOMAIN runs : runs'[r].st = "dropped" => runs[r].st = "dropped"
    BY <1>q
  <2> QED
    BY <1>q, <2>1, PassFitsOn
<1>1. ASSUME NEW r \in DOMAIN runs, LoadPage(r) PROVE EmbedBounds'
  <2> DEFINE k == CHOOSE x \in After(r) : \A y \in After(r) : x <= y
  <2>1. /\ Quiet /\ overtaken' = overtaken /\ pass.at = "runs" /\ After(r) # {}
        /\ pass' = [pass EXCEPT !.at = "look", !.run = r, !.key = k, !.seen = text[k]]
    BY <1>1 DEF LoadPage
  <2>2. k \in Sources
    <3>1. runs[r].scope \in SUBSET Sources
      <4>1. runs[r] \in RunRows
        BY <1>0
      <4> QED
        BY <4>1 DEF RunRows
    <3>2. After(r) \in SUBSET Sources /\ Sources \in SUBSET Nat
      BY <3>1, EmbedAssumption DEF After, InScope, Sources
    <3>3. After(r) \in SUBSET Nat
      BY <3>2
    <3>4. PICK x \in After(r) : \A y \in After(r) : x <= y
      BY <2>1, <3>3, FirstOf
    <3> QED
      BY <3>2, <3>4
  <2> HIDE DEF k
  <2>3. PassFits(pass)' /\ pass'.at # "schedule"
    <3>1. up = TRUE \/ up # FALSE
      BY <1>0, <2>1 DEF PassFits
    <3> QED
      BY <1>0, <2>1, <2>2, <3>1 DEF PassFits, Passes
  <2> QED
    BY <1>0, <1>q, <2>1, <2>3
<1>2. ASSUME StartPass PROVE EmbedBounds'
  <2>1. /\ Quiet /\ overtaken' = overtaken /\ up = TRUE
        /\ pass' = [NoPass EXCEPT !.at = "runs", !.todo = {r \in DOMAIN runs : runs[r].st = "running"}]
    BY <1>2 DEF StartPass
  <2>2. PassFits(pass)' /\ pass'.at # "schedule"
    BY <1>0, <2>1 DEF PassFits, NoPass
  <2> QED
    BY <1>0, <1>q, <2>1, <2>2
<1>3. ASSUME LookAtRow PROVE EmbedBounds'
  <2>1. /\ Quiet /\ pass.at = "look" /\ pass.key \in Sources
        /\ pass' = [pass EXCEPT !.at = "seen", !.mark = NeedsEmbedding(pass.key, pass.seen)]
        /\ overtaken' \in {overtaken, overtaken \cup {pass.key}}
    BY <1>3, <1>p DEF LookAtRow, PassPlace
  <2>2. PassFits(pass)' /\ pass'.at # "schedule"
    BY <1>0, <2>1 DEF PassFits, Passes
  <2> QED
    BY <1>0, <1>q, <2>1, <2>2
<1>4. ASSUME LoadPendingRows PROVE EmbedBounds'
  <2>1. Quiet /\ overtaken' = overtaken /\ pass.at = "runs" /\ pass' = [pass EXCEPT !.at = "load", !.todo = Pending]
    BY <1>4 DEF LoadPendingRows
  <2>2. Pending \subseteq Sources
    BY DEF Pending
  <2>3. PassFits(pass)' /\ pass'.at # "schedule"
    BY <1>0, <2>1, <2>2 DEF PassFits, Passes
  <2> QED
    BY <1>0, <1>q, <2>1, <2>3
<1>5. ASSUME EmbedFails PROVE EmbedBounds'
  <2>1. Quiet /\ overtaken' = overtaken /\ pass' = NoPass
    BY <1>5 DEF EmbedFails
  <2>2. PassFits(pass)' /\ pass'.at # "schedule"
    BY <1>0, <1>r, <2>1 DEF PassFits
  <2> QED
    BY <1>0, <1>q, <2>1, <2>2
<1>6. ASSUME NEW k \in Sources, LoadCurrentSource(k) PROVE EmbedBounds'
  <2>1. /\ Quiet /\ overtaken' = overtaken /\ pass.at = "load"
        /\ pass' = [pass EXCEPT !.todo = @ \ {k}, !.got[k] = text[k], !.gone = IF text[k] = 0 THEN @ \cup {k} ELSE @]
    BY <1>6 DEF LoadCurrentSource
  <2>2. pass'.at = pass.at /\ pass'.seen = pass.seen /\ pass'.todo = pass.todo \ {k} /\ pass'.got = [pass.got EXCEPT ![k] = text[k]]
    BY <1>0, <2>1 DEF Passes
  <2>3. pass.got \in [Sources -> Nat]
    BY <1>0 DEF Passes
  <2>4. \A j \in Sources : pass'.got[j] \in {pass.got[j], text[j]}
    BY <2>2, <2>3
  <2>5. \A j \in Sources : pass'.got[j] <= texts
    BY <1>0, <2>4
  <2>6. PassFits(pass)' /\ pass'.at # "schedule"
    BY <1>0, <2>1, <2>2, <2>5 DEF PassFits
  <2> QED
    BY <1>0, <1>q, <2>1, <2>6
<1> QED
  BY <1>1, <1>2, <1>3, <1>4, <1>5, <1>6

\* A run's row is changed in place.
LEMMA RunChanged ==
    ASSUME runs \in Seq(RunRows), NEW ks \in SUBSET Sources, NEW rs, NEW r,
           \/ rs = [Touch(runs, ks) EXCEPT ![r].st = "complete"]
           \/ rs = [Touch(runs, ks) EXCEPT ![r].cursor = pass.key]
           \/ rs = [runs EXCEPT ![r].st = "failed"]
    PROVE  DOMAIN rs = DOMAIN runs /\ \A q \in DOMAIN runs : rs[q].st = "dropped" => runs[q].st = "dropped"
<1>1. /\ DOMAIN Touch(runs, ks) = DOMAIN runs /\ \A q \in DOMAIN runs : runs[q] \in RunRows
      /\ \A q \in DOMAIN runs : Touch(runs, ks)[q] \in RunRows /\ Touch(runs, ks)[q].st = runs[q].st
  BY TouchIs
<1>2. DOMAIN rs = DOMAIN runs
  BY <1>1
<1>3. ASSUME NEW q \in DOMAIN runs PROVE rs[q].st \in {"complete", "failed", runs[q].st}
  <2> DEFINE T == Touch(runs, ks)
  <2>0. /\ T[q] \in RunRows /\ runs[q] \in RunRows /\ DOMAIN T = DOMAIN runs /\ T[q].st = runs[q].st
    BY <1>1
  <2> HIDE DEF T
  <2>1. CASE rs = [T EXCEPT ![r].st = "complete"]
    <3>1. rs[q] = T[q] \/ rs[q] = [T[q] EXCEPT !.st = "complete"]
      BY <2>0, <2>1
    <3> QED
      BY <2>0, <3>1 DEF RunRows
  <2>2. CASE rs = [T EXCEPT ![r].cursor = pass.key]
    <3>1. rs[q] = T[q] \/ rs[q] = [T[q] EXCEPT !.cursor = pass.key]
      BY <2>0, <2>2
    <3> QED
      BY <2>0, <3>1 DEF RunRows
  <2>3. CASE rs = [runs EXCEPT ![r].st = "failed"]
    <3>1. rs[q] = runs[q] \/ rs[q] = [runs[q] EXCEPT !.st = "failed"]
      BY <2>0, <2>3
    <3> QED
      BY <2>0, <3>1 DEF RunRows
  <2> QED
    BY <2>1, <2>2, <2>3 DEF T
<1> QED
  BY <1>2, <1>3

\* A pass writes rows.
LEMMA PassWritesFit ==
    ASSUME EmbedInv, EmbedBounds, EmbedTypes',
           \/ \E r \in DOMAIN runs : CompleteRun(r)
           \/ UpsertSeen \/ BackfillFails \/ MarkSourcesDeleted \/ StoreVectors \/ FailSources
    PROVE  EmbedBounds'
<1>0. /\ texts \in Nat /\ texts <= MaxText /\ runs \in Seq(RunRows) /\ Len(runs) \in Nat /\ rowOf \in [Sources -> SourceRows]
      /\ overtaken \subseteq Sources /\ PassFits(pass) /\ pass \in Passes /\ DOMAIN runs = 1 .. Len(runs)
      /\ \A k \in Sources : text[k] <= texts /\ pass.got[k] <= texts /\ rowOf[k].gen <= Len(runs)
  BY EmbedFacts
<1>p. PassPlace /\ EmbedTypes
  BY DEF EmbedInv
<1>r. PassFits(NoPass) /\ NoPass.at = "free"
  BY <1>0, RestFits
<1>t. ASSUME NEW ks \in SUBSET Sources
      PROVE  /\ DOMAIN Touch(runs, ks) = DOMAIN runs
             /\ \A r \in DOMAIN runs : Touch(runs, ks)[r].st = "dropped" => runs[r].st = "dropped"
  BY <1>0, TouchIs
<1>f. \A k \in Sources : rowOf[k] \in SourceRows
  BY <1>0
<1>1. ASSUME NEW r \in DOMAIN runs, CompleteRun(r) PROVE EmbedBounds'
  <2>1. /\ texts' = texts /\ text' = text /\ up' = up /\ overtaken' = overtaken /\ pass.at = "runs"
        /\ runs' = [Touch(runs, Stale(r)) EXCEPT ![r].st = "complete"] /\ pass' = [pass EXCEPT !.todo = @ \ {r}]
        /\ \A k \in Sources : rowOf'[k] \in {rowOf[k], [rowOf[k] EXCEPT !.st = "deleted"]}
    BY <1>1 DEF CompleteRun
  <2>2. Stale(r) \in SUBSET Sources
    <3>1. runs[r] \in RunRows
      BY <1>0
    <3>2. runs[r].scope \in SUBSET Sources
      BY <3>1 DEF RunRows
    <3> QED
      BY <3>2 DEF Stale
  <2>3. DOMAIN runs' = DOMAIN runs /\ \A q \in DOMAIN runs : runs'[q].st = "dropped" => runs[q].st = "dropped"
    BY <1>0, <2>1, <2>2, RunChanged
  <2>4. {} \in SUBSET Sources /\ \A k \in Sources \ {} : rowOf'[k].hash = rowOf[k].hash /\ rowOf'[k].gen = rowOf[k].gen
    BY <1>f, <2>1 DEF SourceRows
  <2>5. PassFits(pass)' /\ pass'.at # "schedule"
    BY <1>0, <2>1 DEF PassFits, Passes
  <2> QED
    BY <1>0, <2>1, <2>3, <2>4, <2>5, PassFitsOn
<1>2. ASSUME UpsertSeen PROVE EmbedBounds'
  <2>1. /\ texts' = texts /\ text' = text /\ up' = up /\ pass.at = "seen" /\ pass.key \in Sources /\ pass.run \in DOMAIN runs
        /\ overtaken' \in {overtaken, overtaken \ {pass.key}}
        /\ runs' = [Touch(runs, {pass.key}) EXCEPT ![pass.run].cursor = pass.key]
        /\ pass' = [pass EXCEPT !.at = "runs", !.todo = @ \ {pass.run}, !.run = 0, !.key = 0, !.seen = 0, !.mark = FALSE]
        /\ rowOf' = [rowOf EXCEPT ![pass.key] = [st |-> IF pass.mark THEN "pending" ELSE "indexed",
                                                 hash |-> pass.seen, gen |-> pass.run]]
    BY <1>2, <1>p DEF UpsertSeen, PassPlace
  <2>2. {pass.key} \in SUBSET Sources
    BY <2>1
  <2>3. DOMAIN runs' = DOMAIN runs /\ \A q \in DOMAIN runs : runs'[q].st = "dropped" => runs[q].st = "dropped"
    BY <1>0, <2>1, <2>2, RunChanged
  <2>4. \A k \in Sources \ {pass.key} : rowOf'[k].hash = rowOf[k].hash /\ rowOf'[k].gen = rowOf[k].gen
    BY <1>0, <2>1
  <2>5. \A k \in {pass.key} : rowOf'[k].hash <= texts /\ rowOf'[k].gen <= Len(runs)
    <3>1. pass.seen <= texts /\ pass.run <= Len(runs)
      BY <1>0, <2>1 DEF PassFits
    <3> QED
      BY <1>0, <2>1, <3>1
  <2>6. PassFits(pass)' /\ pass'.at # "schedule"
    BY <1>0, <2>1 DEF PassFits, Passes
  <2>7. overtaken' \subseteq Sources
    BY <1>0, <2>1
  <2> QED
    BY <2>1, <2>2, <2>3, <2>4, <2>5, <2>6, <2>7, PassFitsOn
<1>3. ASSUME BackfillFails PROVE EmbedBounds'
  <2>1. /\ texts' = texts /\ text' = text /\ up' = up /\ overtaken' = overtaken /\ rowOf' = rowOf
        /\ runs' = [runs EXCEPT ![pass.run].st = "failed"] /\ pass' = NoPass
    BY <1>3 DEF BackfillFails
  <2>2. {} \in SUBSET Sources
    OBVIOUS
  <2>3. DOMAIN runs' = DOMAIN runs /\ \A q \in DOMAIN runs : runs'[q].st = "dropped" => runs[q].st = "dropped"
    BY <1>0, <2>1, <2>2, RunChanged
  <2>4. PassFits(pass)' /\ pass'.at # "schedule"
    BY <1>0, <1>r, <2>1 DEF PassFits
  <2> QED
    BY <1>0, <2>1, <2>2, <2>3, <2>4, PassFitsOn
<1>4. ASSUME MarkSourcesDeleted PROVE EmbedBounds'
  <2>1. /\ texts' = texts /\ text' = text /\ up' = up /\ overtaken' = overtaken /\ pass.at = "load" /\ pass.todo = {}
        /\ runs' = Touch(runs, pass.gone) /\ pass' = [pass EXCEPT !.at = "embed", !.gone = {}]
        /\ \A k \in Sources : rowOf'[k] \in {rowOf[k], [rowOf[k] EXCEPT !.st = "deleted"]}
    BY <1>4 DEF MarkSourcesDeleted
  <2>2. pass.gone \in SUBSET Sources
    BY <1>0 DEF Passes
  <2>3. DOMAIN runs' = DOMAIN runs /\ \A q \in DOMAIN runs : runs'[q].st = "dropped" => runs[q].st = "dropped"
    BY <1>t, <2>1, <2>2
  <2>4. {} \in SUBSET Sources /\ \A k \in Sources \ {} : rowOf'[k].hash = rowOf[k].hash /\ rowOf'[k].gen = rowOf[k].gen
    BY <1>f, <2>1 DEF SourceRows
  <2>5. PassFits(pass)' /\ pass'.at # "schedule"
    BY <1>0, <2>1 DEF PassFits, Passes
  <2> QED
    BY <1>0, <2>1, <2>3, <2>4, <2>5, PassFitsOn
<1>5. ASSUME StoreVectors PROVE EmbedBounds'
  <2> DEFINE ks == {k \in Sources : pass.got[k] # 0}
  <2>1. /\ texts' = texts /\ text' = text /\ up' = up /\ overtaken' = overtaken /\ runs' = Touch(runs, ks) /\ pass' = NoPass
        /\ \A k \in Sources : rowOf'[k] \in {rowOf[k], [rowOf[k] EXCEPT !.st = "indexed", !.hash = pass.got[k]]}
    BY <1>5 DEF StoreVectors
  <2>2. ks \in SUBSET Sources /\ Sources \in SUBSET Sources
    OBVIOUS
  <2> HIDE DEF ks
  <2>3. DOMAIN runs' = DOMAIN runs /\ \A q \in DOMAIN runs : runs'[q].st = "dropped" => runs[q].st = "dropped"
    BY <1>t, <2>1, <2>2
  <2>4. \A k \in Sources : rowOf'[k].hash \in {rowOf[k].hash, pass.got[k]} /\ rowOf'[k].gen = rowOf[k].gen
    BY <1>f, <2>1 DEF SourceRows
  <2>5. \A k \in Sources : rowOf'[k].hash <= texts /\ rowOf'[k].gen <= Len(runs)
    <3>1. \A k \in Sources : rowOf[k].hash <= texts
      BY EmbedFacts
    <3> QED
      BY <1>0, <2>4, <3>1
  <2>6. PassFits(pass)' /\ pass'.at # "schedule"
    BY <1>0, <1>r, <2>1 DEF PassFits
  <2>7. \A k \in Sources \ Sources : rowOf'[k].hash = rowOf[k].hash /\ rowOf'[k].gen = rowOf[k].gen
    OBVIOUS
  <2> QED
    BY <1>0, <2>1, <2>2, <2>3, <2>5, <2>6, <2>7, PassFitsOn
<1>6. ASSUME FailSources PROVE EmbedBounds'
  <2> DEFINE ks == {k \in Sources : pass.got[k] # 0 /\ rowOf[k] # NoRow}
  <2>1. /\ texts' = texts /\ text' = text /\ up' = up /\ overtaken' = overtaken /\ runs' = Touch(runs, ks) /\ pass' = NoPass
        /\ \A k \in Sources : rowOf'[k] \in {rowOf[k], [rowOf[k] EXCEPT !.st = "failed"]}
    BY <1>6 DEF FailSources
  <2>2. ks \in SUBSET Sources /\ {} \in SUBSET Sources
    OBVIOUS
  <2> HIDE DEF ks
  <2>3. DOMAIN runs' = DOMAIN runs /\ \A q \in DOMAIN runs : runs'[q].st = "dropped" => runs[q].st = "dropped"
    BY <1>t, <2>1, <2>2
  <2>4. \A k \in Sources \ {} : rowOf'[k].hash = rowOf[k].hash /\ rowOf'[k].gen = rowOf[k].gen
    BY <1>f, <2>1 DEF SourceRows
  <2>5. PassFits(pass)' /\ pass'.at # "schedule"
    BY <1>0, <1>r, <2>1 DEF PassFits
  <2> QED
    BY <1>0, <2>1, <2>2, <2>3, <2>4, <2>5, PassFitsOn
<1> QED
  BY <1>1, <1>2, <1>3, <1>4, <1>5, <1>6

\* Every step keeps the semantic index within its bounds.
LEMMA EmbedBoundsKept ==
    ASSUME EmbedInv, EmbedBounds, EmbedNext, EmbedTypes'
    PROVE  EmbedBounds'
BY WritersFit, ServiceFits, LooksFit, PassWritesFit DEF EmbedNext, PassStep

\* Within the bounds the semantic index is typed.
LEMMA EmbedIsTyped == EmbedInv /\ EmbedBounds => EmbedTypeOK
<1> SUFFICES ASSUME EmbedInv, EmbedBounds PROVE EmbedTypeOK
  OBVIOUS
<1>1. EmbedTypes /\ PassPlace
  BY DEF EmbedInv
<1>2. /\ texts \in Nat /\ texts <= MaxText /\ MaxText \in Nat /\ MaxRun \in Nat /\ Len(runs) \in Nat /\ Len(runs) <= MaxRun
      /\ DOMAIN runs = 1 .. Len(runs) /\ LastSource \in Nat
  BY <1>1, EmbedAssumption DEF EmbedTypes, EmbedBounds, RunsFit
<1>3. ASSUME NEW k \in Sources
      PROVE  /\ text[k] \in 0 .. MaxText /\ rowOf[k].hash \in 0 .. MaxText /\ rowOf[k].gen \in 0 .. MaxRun
             /\ rowOf[k].st \in {"none", "pending", "indexed", "failed", "deleted"}
  <2>1. /\ text[k] \in Nat /\ rowOf[k].hash \in Nat /\ rowOf[k].gen \in Nat
        /\ rowOf[k].st \in {"none", "pending", "indexed", "failed", "deleted"}
    BY <1>1 DEF EmbedTypes, SourceRows
  <2>2. text[k] <= texts /\ rowOf[k].hash <= texts /\ rowOf[k].gen <= Len(runs)
    BY DEF EmbedBounds, RowFits
  <2> QED
    BY <1>2, <2>1, <2>2
<1>4. pass.todo \subseteq 1 .. (LastSource + MaxRun)
  <2>1. pass.at \in {"free", "schedule", "runs", "look", "seen", "load", "embed"}
    BY <1>1 DEF EmbedTypes, Passes
  <2>2. pass.todo \subseteq DOMAIN runs \cup Sources
    BY <1>1, <2>1 DEF PassPlace, EmbedBounds, PassFits
  <2>3. \A x \in DOMAIN runs \cup Sources : x \in 1 .. (LastSource + MaxRun)
    BY <1>2 DEF Sources
  <2> QED
    BY <2>2, <2>3
<1> QED
  BY <1>3, <1>4 DEF EmbedTypeOK, EmbedBounds

\* The semantic index starts within its bounds.
LEMMA EmbedBoundsStart == EmbedInit => EmbedBounds
<1> SUFFICES ASSUME EmbedInit PROVE EmbedBounds
  OBVIOUS
<1>1. runs = <<>> /\ pass = NoPass /\ texts = 0 /\ up = TRUE /\ overtaken = {} /\ \A k \in Sources : text[k] = 0 /\ rowOf[k] = NoRow
  BY DEF EmbedInit
<1>2. Len(runs) = 0 /\ MaxRun \in Nat \ {0} /\ MaxText \in Nat
  BY <1>1, EmbedAssumption
<1>3. NoRow.hash = 0 /\ NoRow.gen = 0 /\ NoPass.at = "free" /\ PassFits(NoPass)
  BY <1>1, RestFits DEF NoRow
<1>4. RunsFit(runs, pass)
  BY <1>1, <1>2, <1>3 DEF RunsFit
<1> QED
  BY <1>1, <1>2, <1>3, <1>4 DEF EmbedBounds, RowFits

\* A step of another part leaves the bounds alone.
LEMMA EmbedBoundsStep == EmbedInv /\ EmbedBounds /\ [EmbedNext]_embedVars => EmbedBounds'
<1> SUFFICES ASSUME EmbedInv, EmbedBounds, [EmbedNext]_embedVars PROVE EmbedBounds'
  OBVIOUS
<1>1. CASE UNCHANGED embedVars
  BY <1>1 DEF embedVars, EmbedBounds, RowFits, RunsFit, PassFits
<1>2. CASE EmbedNext
  <2>1. EmbedTypes'
    BY <1>2, EmbedKeeps DEF EmbedInv
  <2> QED
    BY <1>2, <2>1, EmbedBoundsKept
<1> QED
  BY <1>1, <1>2

-----------------------------------------------------------------------------
(* The types of the pipeline. *)

\* The inductive form of PipelineTypeOK: what each part holds, and its bounds.
PipelineInv ==
    /\ ReducerInv /\ LedgerInv
    /\ StreamInv /\ StreamBounds /\ RebuildInv /\ RebuildPlaces
    /\ IndexInv /\ IndexBounds /\ EmbedInv /\ EmbedBounds /\ LspInv /\ LspBounds

\* The parts start within their bounds.
LEMMA BoundsStart == Init => StreamBounds /\ RebuildPlaces /\ IndexBounds /\ LspBounds
<1> SUFFICES ASSUME Init PROVE StreamBounds /\ RebuildPlaces /\ IndexBounds /\ LspBounds
  OBVIOUS
<1>1. StreamBounds
  BY StreamAssumption DEF Init, StreamInit, StreamBounds, Idle, Empty
<1>2. RebuildPlaces
  BY DEF Init, RebuildInit, RebuildPlaces
<1>3. IndexBounds
  BY IndexAssumption DEF Init, IndexInit, IndexBounds
<1>4. LspBounds
  <2>1. changes = 0 /\ \A r \in Root : source[r] = 1
    BY DEF Init, LspInit
  <2>2. \A i \in Request : request[i] = NotYet
    BY DEF Init, LspInit
  <2>3. NotYet.text = 0
    BY DEF NotYet, Gone
  <2> QED
    BY <2>1, <2>2, <2>3, LspAssumption DEF LspBounds
<1> QED
  BY <1>1, <1>2, <1>3, <1>4

\* Every part of the pipeline stays typed and within the bounds that stand for
\* its unbounded counters: a timeline row never names a line or turn that is
\* not stored, a rebuild or backfill is never begun without room for its
\* generation, and no index, server or digest knows a version of a file or
\* text that was never written.
THEOREM PipelineIsTyped == Spec => []PipelineTypeOK
<1>1. Init => PipelineInv
  BY ReducerStarts, LedgerStarts, StreamStarts, RebuildStarts, IndexStarts, EmbedStarts, EmbedBoundsStart,
     PoolStarts, BoundsStart DEF Init, PipelineInv
<1>2. PipelineInv /\ [Next]_pipelineVars => PipelineInv'
  <2> SUFFICES ASSUME PipelineInv, [Next]_pipelineVars PROVE PipelineInv'
    OBVIOUS
  <2>1. ReducerInv'
    <3>1. ReducerNext \/ UNCHANGED reducerVars
      BY DEF Next, OthersRest, pipelineVars
    <3> QED
      BY <3>1, ReducerKeeps, ReducerRests DEF PipelineInv
  <2>2. LedgerInv'
    BY LedgerKeeps, LedgerFocus DEF PipelineInv
  <2>3. StreamInv' /\ StreamBounds'
    BY StreamStep, StreamBoundsKept, StreamFocus DEF PipelineInv
  <2>4. RebuildInv' /\ RebuildPlaces'
    BY RebuildStep, RebuildPlacesKept, RebuildFocus DEF PipelineInv
  <2>5. IndexInv' /\ IndexBounds'
    BY CodeIndexStep, IndexBoundsKept, IndexFocus DEF PipelineInv
  <2>6. EmbedInv' /\ EmbedBounds'
    BY EmbedStep, EmbedBoundsStep, EmbedFocus DEF PipelineInv
  <2>7. LspInv' /\ LspBounds'
    BY PoolStep, LspBoundsKept, PoolFocus DEF PipelineInv
  <2> QED
    BY <2>1, <2>2, <2>3, <2>4, <2>5, <2>6, <2>7 DEF PipelineInv
<1>3. PipelineInv => PipelineTypeOK
  BY ReducerIsTyped, LedgerIsTyped, StreamIsTyped, RebuildIsTyped, IndexIsTyped, EmbedIsTyped, LspIsTyped
     DEF PipelineInv, PipelineTypeOK
<1> QED
  BY <1>1, <1>2, <1>3, PTL DEF Spec
=============================================================================
