--------------------------- MODULE WorkbenchProofs ---------------------------
(***************************************************************************)
(* Proofs about the parts of Workbench, for every value of the bounds.     *)
(* Each part has an inductive invariant of its own: a step of the part in  *)
(* focus keeps it, and the others rest.                                    *)
(***************************************************************************)
EXTENDS Workbench, FiniteSetTheorems, NaturalsInduction, WellFoundedInduction, TLAPS

-----------------------------------------------------------------------------
(* Sign-in.                                                                *)

\* Clocks, keys and tokens have their types.
AuthTypes ==
  /\ time \in Nat /\ back \in 0..time
  /\ signing \in 1..MaxLogin
  /\ \A t \in issued : t.auth \in Nat /\ t.key \in 1..signing
  /\ DOMAIN retired = 1..(signing - 1) /\ retired \in Seq(Nat)
  /\ DOMAIN cache = {"at", "key"} /\ cache.at \in 0..time /\ cache.key \in 0..signing
  /\ cutoff \in -1..time
  /\ leaving \subseteq issued /\ refused \subseteq issued
  /\ letIn \in 0..signing

\* The cached key was still published when it was loaded.
CacheIsHonest ==
  cache.key # 0 /\ cache.key < signing => cache.at <= retired[cache.key]

AuthInv == AuthTypes /\ RefusedForGood /\ CacheIsHonest /\ KeysAreCurrent

\* Nobody has signed in at first, so nothing was refused.
LEMMA AuthStarts == AuthInit => AuthInv
BY AuthAssumption DEF AuthInit, AuthInv, AuthTypes, RefusedForGood,
   CacheIsHonest, KeysAreCurrent

\* A cutoff never moves back, though the database's clock may.
LEMMA CutoffGrows ==
  ASSUME AuthTypes
  PROVE  NewCutoff(cutoff) \in -1..time /\ NewCutoff(cutoff) >= cutoff
BY DEF AuthTypes, NewCutoff, CutoffNow

\* What was refused stays refused while the cutoff does not move back.
LEMMA RefusedStays ==
  ASSUME AuthTypes, RefusedForGood, refused' = refused, cutoff' >= cutoff, cutoff' \in Int
  PROVE  RefusedForGood'
BY DEF AuthTypes, RefusedForGood, Allowed

\* A fetch brings the key that is published now, or nothing.
LEMMA FetchKeeps ==
  ASSUME AuthTypes, CacheIsHonest, Fetch, time' = time, signing' = signing, retired' = retired
  PROVE  /\ DOMAIN cache' = {"at", "key"} /\ cache'.at \in 0..time /\ cache'.key \in 0..signing
         /\ CacheIsHonest'
<1>1. CASE cache' = cache
  BY <1>1 DEF AuthTypes, CacheIsHonest
<1>2. CASE cache' = [at |-> time, key |-> signing]
  BY <1>2 DEF AuthTypes, CacheIsHonest
<1> QED
  BY <1>1, <1>2 DEF Fetch

\* Nobody is let in by a step that is not an admission.
LEMMA NobodyLetIn ==
  ASSUME letIn' = 0
  PROVE  KeysAreCurrent'
BY DEF KeysAreCurrent

\* A key refresh, in the background or on a miss.
LEMMA RefreshKeeps ==
  ASSUME AuthInv, Fetch, letIn' = 0,
         UNCHANGED <<time, back, issued, signing, retired, cutoff, leaving, refused>>
  PROVE  AuthInv'
<1>1. AuthTypes /\ CacheIsHonest /\ RefusedForGood
  BY DEF AuthInv
<1>2. /\ DOMAIN cache' = {"at", "key"} /\ cache'.at \in 0..time /\ cache'.key \in 0..signing
      /\ CacheIsHonest'
  BY <1>1, FetchKeeps
<1>3. AuthTypes'
  BY <1>1, <1>2 DEF AuthTypes
<1>4. RefusedForGood'
  BY <1>1, RefusedStays DEF AuthTypes
<1> QED
  BY <1>2, <1>3, <1>4, NobodyLetIn DEF AuthInv

\* The cutoff is written, by a sign-out or by an operator.
LEMMA RevokeKeeps ==
  ASSUME AuthInv, cutoff' = NewCutoff(cutoff), letIn' = 0, leaving' \subseteq leaving,
         UNCHANGED <<time, back, issued, signing, retired, cache, attempt, refused>>
  PROVE  AuthInv'
<1>1. AuthTypes /\ CacheIsHonest /\ RefusedForGood
  BY DEF AuthInv
<1>2. cutoff' \in -1..time /\ cutoff' >= cutoff
  BY <1>1, CutoffGrows
<1>3. AuthTypes'
  BY <1>1, <1>2 DEF AuthTypes
<1>4. RefusedForGood'
  BY <1>1, <1>2, RefusedStays DEF AuthTypes
<1>5. CacheIsHonest'
  BY <1>1 DEF CacheIsHonest
<1> QED
  BY <1>3, <1>4, <1>5, NobodyLetIn DEF AuthInv

\* Every step of sign-in keeps its invariant.
LEMMA AuthStep == AuthInv /\ [AuthNext]_authVars => AuthInv'
<1> SUFFICES ASSUME AuthInv, [AuthNext]_authVars PROVE AuthInv'
  OBVIOUS
<1>0. AuthTypes /\ CacheIsHonest /\ RefusedForGood /\ KeysAreCurrent
  BY DEF AuthInv
<1>1. CASE PassTime
  <2>1. AuthTypes'
    BY <1>0, <1>1 DEF PassTime, AuthTypes
  <2>2. RefusedForGood' /\ CacheIsHonest'
    BY <1>0, <1>1 DEF PassTime, RefusedForGood, Allowed, CacheIsHonest
  <2> QED
    BY <1>1, <2>1, <2>2, NobodyLetIn DEF AuthInv, PassTime
<1>2. CASE SetBack
  <2>1. AuthTypes'
    BY <1>0, <1>2 DEF SetBack, AuthTypes
  <2>2. RefusedForGood' /\ CacheIsHonest'
    BY <1>0, <1>2 DEF SetBack, RefusedForGood, Allowed, CacheIsHonest
  <2> QED
    BY <1>2, <2>1, <2>2, NobodyLetIn DEF AuthInv, SetBack
<1>3. CASE Login
  <2>1. AuthTypes'
    BY <1>0, <1>3 DEF Login, AuthTypes
  <2>2. RefusedForGood' /\ CacheIsHonest'
    BY <1>0, <1>3 DEF Login, RefusedForGood, Allowed, CacheIsHonest
  <2> QED
    BY <1>3, <2>1, <2>2, NobodyLetIn DEF AuthInv, Login
<1>4. CASE RotateKey
  <2>1. /\ retired' = Append(retired, time) /\ time \in Nat /\ retired \in Seq(Nat)
        /\ Len(retired) = signing - 1 /\ signing \in Nat
    BY <1>0, <1>4 DEF RotateKey, AuthTypes
  <2>2. /\ retired' \in Seq(Nat) /\ DOMAIN retired' = 1..signing
        /\ retired'[signing] = time /\ \A i \in 1..(signing - 1) : retired'[i] = retired[i]
    BY <2>1
  <2>3. AuthTypes'
    BY <1>0, <1>4, <2>2, AuthAssumption DEF RotateKey, AuthTypes
  <2>4. RefusedForGood'
    BY <1>0, <1>4 DEF RotateKey, RefusedForGood, Allowed
  <2>5. CacheIsHonest'
    BY <1>0, <1>4, <2>2 DEF RotateKey, AuthTypes, CacheIsHonest
  <2> QED
    BY <1>4, <2>3, <2>4, <2>5, NobodyLetIn DEF AuthInv, RotateKey
<1>5. CASE BackgroundRefresh
  BY <1>5, RefreshKeeps DEF BackgroundRefresh
<1>6. ASSUME NEW t \in issued, MissRefresh(t) PROVE AuthInv'
  BY <1>6, RefreshKeeps DEF MissRefresh
<1>7. ASSUME NEW t \in issued, Admit(t) PROVE AuthInv'
  <2>1. AuthTypes'
    BY <1>0, <1>7 DEF Admit, AuthTypes, Cached, Usable
  <2>2. RefusedForGood'
    BY <1>0, <1>7 DEF Admit, RefusedForGood, Allowed
  <2>3. CacheIsHonest'
    BY <1>0, <1>7 DEF Admit, CacheIsHonest
  <2>4. KeysAreCurrent'
    <3>1. CASE letIn' = 0
      BY <3>1, NobodyLetIn
    <3>2. CASE letIn' = t.key
      <4>1. /\ cache.key = t.key /\ cache.key # 0 /\ time - cache.at < CacheTTL
            /\ time' = time /\ signing' = signing /\ retired' = retired
        BY <1>7 DEF Admit, Cached, Usable
      <4>2. t.key < signing => cache.at <= retired[t.key] /\ retired[t.key] \in Nat
        BY <1>0, <4>1 DEF CacheIsHonest, AuthTypes
      <4>3. time \in Nat /\ cache.at \in Nat /\ CacheTTL \in Nat
        BY <1>0, AuthAssumption DEF AuthTypes
      <4> QED
        BY <3>2, <4>1, <4>2, <4>3 DEF KeysAreCurrent
    <3> QED
      BY <1>7, <3>1, <3>2 DEF Admit
  <2> QED
    BY <2>1, <2>2, <2>3, <2>4 DEF AuthInv
<1>8. ASSUME NEW t \in issued, SignOutBegins(t) PROVE AuthInv'
  <2>1. AuthTypes'
    BY <1>0, <1>8 DEF SignOutBegins, AuthTypes
  <2>2. RefusedForGood' /\ CacheIsHonest'
    BY <1>0, <1>8 DEF SignOutBegins, RefusedForGood, Allowed, CacheIsHonest
  <2> QED
    BY <1>8, <2>1, <2>2, NobodyLetIn DEF AuthInv, SignOutBegins
<1>9. ASSUME NEW t \in issued, SignOutWrites(t) PROVE AuthInv'
  BY <1>9, RevokeKeeps DEF SignOutWrites
<1>10. CASE RevokePrincipal
  BY <1>10, RevokeKeeps DEF RevokePrincipal
<1>11. CASE UNCHANGED authVars
  BY <1>0, <1>11 DEF authVars, AuthInv, AuthTypes, RefusedForGood, Allowed,
     CacheIsHonest,
                     KeysAreCurrent
<1> QED
  BY <1>1, <1>2, <1>3, <1>4, <1>5, <1>6, <1>7, <1>8, <1>9, <1>10,
     <1>11 DEF AuthNext

-----------------------------------------------------------------------------
(* Signed uses.                                                            *)

\* Keys, clocks and requests have their types; a request's id is its own.
UseTypes ==
  /\ minute \in Nat
  /\ DOMAIN useRow = {"key", "live"} /\ useRow.key \in 0..MaxKey /\ useRow.live \in BOOLEAN
  /\ file \in 0..MaxKey /\ freshUse \in 0..MaxKey /\ making \in 0..MaxKey
  /\ shellRuns \in BOOLEAN
  /\ honoured \in [1..MaxSigned -> Nat]
  /\ \A n \in nonces : n.seen \in 0..minute

SignedTypes ==
  /\ IsFiniteSet(signed) /\ Cardinality(signed) \in 0..MaxSigned
  /\ \A q \in signed : q.id \in 1..Cardinality(signed) /\ q.at \in Nat
  /\ \A q, r \in signed : q.id = r.id => q = r

\* The request with number i is out of time or still remembered: it cannot
\* pass again.
Spent(i) ==
  \E q \in signed :
    /\ q.id = i
    /\ \/ \E n \in nonces : n.id = i /\ n.seen >= q.at - Window
       \/ minute > q.at + Window

\* A request was honoured at most once, and then it is spent.
OnceAndSpent == \A i \in 1..MaxSigned : honoured[i] = 0 \/ (honoured[i] = 1 /\ Spent(i))

\* A key that is being written is the registered one, and no shell runs yet.
MadeIsRegistered == making # 0 => ~shellRuns /\ useRow = [key |-> making, live |-> TRUE]

UseInv == UseTypes /\ SignedTypes /\ OnceAndSpent /\ MadeIsRegistered /\ ShellHoldsTheKey

\* Nothing is signed at first and no shell holds a key.
LEMMA UseStarts == UseInit => UseInv
<1> SUFFICES ASSUME UseInit PROVE UseInv
  OBVIOUS
<1>1. UseTypes
  <2>1. 0 \in 0..MaxKey /\ [i \in 1..MaxSigned |-> 0] \in [1..MaxSigned -> Nat]
    BY UseAssumption
  <2>2. useRow = [key |-> 0, live |-> FALSE]
    BY DEF UseInit
  <2>3. DOMAIN useRow = {"key", "live"} /\ useRow.key = 0 /\ useRow.live = FALSE
    BY <2>2
  <2> QED
    BY <2>1, <2>3 DEF UseInit, UseTypes
<1>2. SignedTypes
  BY UseAssumption, FS_EmptySet DEF UseInit, SignedTypes
<1>3. OnceAndSpent /\ MadeIsRegistered /\ ShellHoldsTheKey
  BY DEF UseInit, OnceAndSpent, MadeIsRegistered, ShellHoldsTheKey
<1> QED
  BY <1>1, <1>2, <1>3 DEF UseInv

\* A step that touches neither requests, nonces, the clock nor the counts.
LEMMA OnceFrame ==
  ASSUME OnceAndSpent, SignedTypes, UNCHANGED <<minute, signed, nonces, honoured>>
  PROVE  OnceAndSpent' /\ SignedTypes'
BY DEF OnceAndSpent, Spent, SignedTypes

\* A minute later a spent request is still spent.
LEMMA MinuteKeeps ==
  ASSUME UseTypes, SignedTypes, OnceAndSpent, PassMinute
  PROVE  OnceAndSpent' /\ SignedTypes'
<1>1. SignedTypes'
  BY DEF SignedTypes, PassMinute
<1>2. \A i \in 1..MaxSigned : Spent(i) => Spent(i)'
  <2> SUFFICES ASSUME NEW i \in 1..MaxSigned, Spent(i) PROVE Spent(i)'
    OBVIOUS
  <2>1. PICK q \in signed : q.id = i /\ (\/ \E n \in nonces : n.id = i /\ n.seen >= q.at - Window
                                        \/ minute > q.at + Window)
    BY DEF Spent
  <2>2. minute > q.at + Window => minute' > q.at + Window
    BY DEF UseTypes, SignedTypes, PassMinute, Window
  <2> QED
    BY <2>1, <2>2 DEF Spent, PassMinute
<1>3. OnceAndSpent'
  BY <1>2 DEF OnceAndSpent, PassMinute
<1> QED
  BY <1>1, <1>3

\* A new request has a number of its own.
LEMMA SignKeeps ==
  ASSUME UseTypes, SignedTypes, OnceAndSpent, NEW a \in 0..Ahead, Sign(a)
  PROVE  OnceAndSpent' /\ SignedTypes'
<1> DEFINE new == [id |-> Cardinality(signed) + 1, key |-> file, at |-> minute + a]
<1>0. /\ Cardinality(signed) \in Nat /\ minute \in Nat /\ MaxSigned \in Nat /\ a \in Nat
      /\ Cardinality(signed) < MaxSigned
  BY UseAssumption DEF UseTypes, SignedTypes, Sign
<1>1. signed' = signed \cup {new} /\ new \notin signed
  BY <1>0 DEF Sign, SignedTypes
<1>2. IsFiniteSet(signed') /\ Cardinality(signed') = Cardinality(signed) + 1
  BY <1>0, <1>1, FS_AddElement DEF SignedTypes
<1>3. SignedTypes'
  <2>1. \A q \in signed' : q.id \in 1..Cardinality(signed') /\ q.at \in Nat
    BY <1>0, <1>1, <1>2 DEF SignedTypes
  <2>2. \A q, r \in signed' : q.id = r.id => q = r
    <3>1. \A q \in signed : q.id # new.id
      BY <1>0 DEF SignedTypes
    <3> HIDE DEF new
    <3> QED
      BY <1>1, <3>1 DEF SignedTypes
  <2> QED
    BY <1>0, <1>2, <2>1, <2>2 DEF SignedTypes
<1>4. \A i \in 1..MaxSigned : Spent(i) => Spent(i)'
  BY <1>1 DEF Spent, Sign
<1>5. OnceAndSpent'
  BY <1>4 DEF OnceAndSpent, Sign
<1> QED
  BY <1>3, <1>5

\* Forgetting old nonces un-spends nothing: a request whose nonce is old
\* enough to be deleted is out of time.
LEMMA ForgottenIsLate ==
  ASSUME UseTypes, SignedTypes, NEW q \in signed, NEW n \in nonces,
         n.seen >= q.at - Window, n \notin Remembered
  PROVE  minute > q.at + Window
<1>1. n.seen \in Nat /\ q.at \in Nat /\ minute \in Nat
  BY DEF UseTypes, SignedTypes
<1>2. n.seen < minute - NonceKept
  BY <1>1 DEF Remembered, NonceKept
<1> QED
  BY <1>1, <1>2 DEF Window, NonceKept

\* A request passes only if it has not passed before.
LEMMA VerifyKeeps ==
  ASSUME UseTypes, SignedTypes, OnceAndSpent, NEW q \in signed, Verify(q)
  PROVE  /\ OnceAndSpent' /\ SignedTypes' /\ honoured' \in [1..MaxSigned -> Nat]
         /\ \A n \in nonces' : n.seen \in 0..minute
<1> DEFINE replayed == \E n \in Remembered : n.id = q.id
<1>0. /\ minute \in Nat /\ q.at \in Nat /\ q.id \in 1..MaxSigned
      /\ signed' = signed /\ minute' = minute /\ honoured \in [1..MaxSigned -> Nat]
  BY UseAssumption DEF UseTypes, SignedTypes, Verify
<1>1. SignedTypes'
  BY <1>0 DEF SignedTypes
<1>2. minute <= q.at + Window /\ q.at - Window <= minute
  BY <1>0 DEF Verify, InTime, Window
<1>3. Remembered \subseteq nonces' /\ Remembered \subseteq nonces
  BY DEF Verify, Remembered
<1>4. \A i \in 1..MaxSigned : Spent(i) => Spent(i)'
  <2> SUFFICES ASSUME NEW i \in 1..MaxSigned, Spent(i) PROVE Spent(i)'
    OBVIOUS
  <2>1. PICK r \in signed : r.id = i /\ (\/ \E n \in nonces : n.id = i /\ n.seen >= r.at - Window
                                        \/ minute > r.at + Window)
    BY DEF Spent
  <2>2. (\E n \in nonces' : n.id = i /\ n.seen >= r.at - Window) \/ minute > r.at + Window
    <3>1. CASE minute > r.at + Window
      BY <3>1
    <3>2. ASSUME NEW n \in nonces, n.id = i, n.seen >= r.at - Window
          PROVE  (\E m \in nonces' : m.id = i /\ m.seen >= r.at - Window) \/ minute > r.at + Window
      <4>1. CASE n \in Remembered
        BY <1>3, <3>2, <4>1
      <4>2. CASE n \notin Remembered
        BY <3>2, <4>2, ForgottenIsLate
      <4> QED
        BY <4>1, <4>2
    <3> QED
      BY <2>1, <3>1, <3>2
  <2> QED
    BY <1>0, <2>1, <2>2 DEF Spent
<1>5. CASE replayed
  <2>1. nonces' = Remembered /\ honoured' = honoured
    BY <1>5 DEF Verify
  <2>2. OnceAndSpent'
    BY <1>4, <2>1 DEF OnceAndSpent
  <2> QED
    BY <1>0, <1>1, <2>1, <2>2 DEF UseTypes, Remembered
<1>6. CASE ~replayed
  <2>1. /\ nonces' = Remembered \cup {[id |-> q.id, seen |-> minute]}
        /\ honoured' = [honoured EXCEPT ![q.id] = honoured[q.id] + 1]
    BY <1>6 DEF Verify
  <2>2. ~Spent(q.id)
    <3> SUFFICES ASSUME Spent(q.id) PROVE FALSE
      OBVIOUS
    <3>1. PICK r \in signed : r.id = q.id /\ (\/ \E n \in nonces : n.id = q.id /\ n.seen >= r.at - Window
                                             \/ minute > r.at + Window)
      BY DEF Spent
    <3>2. r = q
      BY <3>1 DEF SignedTypes
    <3>3. PICK n \in nonces : n.id = q.id /\ n.seen >= q.at - Window
      BY <1>0, <1>2, <3>1, <3>2 DEF Window
    <3>4. n \notin Remembered
      BY <1>6, <3>3
    <3> QED
      BY <1>0, <1>2, <3>3, <3>4, ForgottenIsLate DEF Window
  <2>3. honoured[q.id] = 0
    BY <1>0, <2>2 DEF OnceAndSpent
  <2>4. Spent(q.id)'
    <3>1. [id |-> q.id, seen |-> minute] \in nonces'
      BY <2>1
    <3> QED
      BY <1>0, <1>2, <3>1 DEF Spent
  <2>5. OnceAndSpent'
    <3> SUFFICES ASSUME NEW i \in 1..MaxSigned
                 PROVE  honoured'[i] = 0 \/ (honoured'[i] = 1 /\ Spent(i)')
      BY DEF OnceAndSpent
    <3>1. CASE i = q.id
      BY <1>0, <2>1, <2>3, <2>4, <3>1
    <3>2. CASE i # q.id
      BY <1>0, <1>4, <2>1, <3>2 DEF OnceAndSpent
    <3> QED
      BY <3>1, <3>2
  <2>6. \A n \in nonces' : n.seen \in 0..minute
    BY <1>0, <2>1 DEF UseTypes, Remembered
  <2> QED
    BY <1>0, <1>1, <2>1, <2>5, <2>6
<1> QED
  BY <1>5, <1>6

\* Every step of signed uses keeps their invariant.
LEMMA UseStep == UseInv /\ [UseNext]_useVars => UseInv'
<1> SUFFICES ASSUME UseInv, [UseNext]_useVars PROVE UseInv'
  OBVIOUS
<1>0. UseTypes /\ SignedTypes /\ OnceAndSpent /\ MadeIsRegistered /\ ShellHoldsTheKey
  BY DEF UseInv
<1>1. CASE PassMinute
  <2>1. UseTypes' /\ MadeIsRegistered' /\ ShellHoldsTheKey'
    BY <1>0, <1>1 DEF PassMinute, UseTypes, MadeIsRegistered, ShellHoldsTheKey
  <2> QED
    BY <1>0, <1>1, <2>1, MinuteKeeps DEF UseInv
<1>2. CASE PrepareRegisters
  <2>1. OnceAndSpent' /\ SignedTypes'
    BY <1>0, <1>2, OnceFrame DEF PrepareRegisters
  <2>2. UseTypes'
    BY <1>0, <1>2, UseAssumption DEF PrepareRegisters, UseTypes
  <2>3. MadeIsRegistered' /\ ShellHoldsTheKey'
    BY <1>0, <1>2 DEF PrepareRegisters, UseTypes, MadeIsRegistered,
       ShellHoldsTheKey
  <2> QED
    BY <2>1, <2>2, <2>3 DEF UseInv
<1>3. CASE PrepareWrites
  <2>1. OnceAndSpent' /\ SignedTypes'
    BY <1>0, <1>3, OnceFrame DEF PrepareWrites
  <2>2. UseTypes'
    BY <1>0, <1>3, UseAssumption DEF PrepareWrites, UseTypes
  <2>3. MadeIsRegistered' /\ ShellHoldsTheKey'
    BY <1>0, <1>3 DEF PrepareWrites, UseTypes, MadeIsRegistered,
       ShellHoldsTheKey
  <2> QED
    BY <2>1, <2>2, <2>3 DEF UseInv
<1>4. CASE PrepareFails
  <2>1. OnceAndSpent' /\ SignedTypes'
    BY <1>0, <1>4, OnceFrame DEF PrepareFails
  <2>2. UseTypes'
    BY <1>0, <1>4, UseAssumption DEF PrepareFails, UseTypes
  <2>3. MadeIsRegistered' /\ ShellHoldsTheKey'
    BY <1>0, <1>4 DEF PrepareFails, UseTypes, MadeIsRegistered,
       ShellHoldsTheKey
  <2> QED
    BY <2>1, <2>2, <2>3 DEF UseInv
<1>5. CASE RefreshRegisters
  <2>1. OnceAndSpent' /\ SignedTypes'
    BY <1>0, <1>5, OnceFrame DEF RefreshRegisters
  <2>2. UseTypes'
    BY <1>0, <1>5, UseAssumption DEF RefreshRegisters, UseTypes
  <2>3. MadeIsRegistered' /\ ShellHoldsTheKey'
    BY <1>0, <1>5 DEF RefreshRegisters, UseTypes, MadeIsRegistered,
       ShellHoldsTheKey
  <2> QED
    BY <2>1, <2>2, <2>3 DEF UseInv
<1>6. CASE Retire
  <2>1. OnceAndSpent' /\ SignedTypes'
    BY <1>0, <1>6, OnceFrame DEF Retire
  <2>2. UseTypes'
    <3>1. 0 \in 0..MaxKey
      BY UseAssumption
    <3>2. DOMAIN useRow' = {"key", "live"} /\ useRow'.key = useRow.key /\ useRow'.live \in BOOLEAN
      <4>1. CASE useRow' = useRow
        BY <1>0, <4>1 DEF UseTypes
      <4>2. CASE useRow' = [useRow EXCEPT !.live = FALSE]
        BY <1>0, <4>2 DEF UseTypes
      <4> QED
        BY <1>6, <4>1, <4>2 DEF Retire
    <3> QED
      BY <1>0, <1>6, <3>1, <3>2 DEF Retire, UseTypes
  <2>3. MadeIsRegistered' /\ ShellHoldsTheKey'
    BY <1>0, <1>6 DEF Retire, UseTypes, MadeIsRegistered, ShellHoldsTheKey
  <2> QED
    BY <2>1, <2>2, <2>3 DEF UseInv
<1>7. ASSUME NEW a \in 0..Ahead, Sign(a) PROVE UseInv'
  <2>1. UseTypes' /\ MadeIsRegistered' /\ ShellHoldsTheKey'
    BY <1>0, <1>7 DEF Sign, UseTypes, MadeIsRegistered, ShellHoldsTheKey
  <2> QED
    BY <1>0, <1>7, <2>1, SignKeeps DEF UseInv
<1>8. ASSUME NEW q \in signed, Verify(q) PROVE UseInv'
  <2>1. /\ OnceAndSpent' /\ SignedTypes' /\ honoured' \in [1..MaxSigned -> Nat]
        /\ \A n \in nonces' : n.seen \in 0..minute
    BY <1>0, <1>8, VerifyKeeps
  <2>2. UseTypes' /\ MadeIsRegistered' /\ ShellHoldsTheKey'
    BY <1>0, <1>8, <2>1 DEF Verify, UseTypes, MadeIsRegistered,
       ShellHoldsTheKey
  <2> QED
    BY <2>1, <2>2 DEF UseInv
<1>9. CASE UNCHANGED useVars
  <2>1. OnceAndSpent' /\ SignedTypes'
    BY <1>0, <1>9, OnceFrame DEF useVars
  <2>2. UseTypes' /\ MadeIsRegistered' /\ ShellHoldsTheKey'
    BY <1>0, <1>9 DEF useVars, UseTypes, MadeIsRegistered, ShellHoldsTheKey
  <2> QED
    BY <2>1, <2>2 DEF UseInv
<1> QED
  BY <1>1, <1>2, <1>3, <1>4, <1>5, <1>6, <1>7, <1>8, <1>9 DEF UseNext

-----------------------------------------------------------------------------
(* The part in focus takes the step, and the others rest.                  *)

\* While sign-in is in focus, steps are its own.
LEMMA AuthFocus ==
  ASSUME [Next]_workbenchVars, focus' = "auth"
  PROVE  focus = "auth" /\ [AuthNext]_authVars
BY DEF Next, OthersRest, workbenchVars

\* While signed uses are in focus, steps are theirs.
LEMMA UseFocus ==
  ASSUME [Next]_workbenchVars, focus' = "use"
  PROVE  focus = "use" /\ [UseNext]_useVars
BY DEF Next, OthersRest, workbenchVars

\* Tokens refused stay refused, no token is let in under a key withdrawn
\* longer ago than the cache's lifetime, no signed request passes twice, and
\* a running shell's key is the registered one: for any number of logins,
\* keys and requests, and clocks set back any number of times.
THEOREM SignInIsSound == Spec => []SignInSound
<1> DEFINE Inv == (focus = "auth" => AuthInv) /\ (focus = "use" => UseInv)
<1>1. Init => Inv
  BY AuthStarts, UseStarts DEF Init
<1>2. Inv /\ [Next]_workbenchVars => Inv'
  <2> SUFFICES ASSUME Inv, [Next]_workbenchVars PROVE Inv'
    OBVIOUS
  <2>1. focus' = "auth" => AuthInv'
    BY AuthFocus, AuthStep
  <2>2. focus' = "use" => UseInv'
    BY UseFocus, UseStep
  <2> QED
    BY <2>1, <2>2
<1>3. Inv => SignInSound
  <2>1. UseInv => HonouredOnce
    BY DEF UseInv, OnceAndSpent, HonouredOnce
  <2> QED
    BY <2>1 DEF AuthInv, UseInv, SignInSound
<1> QED
  BY <1>1, <1>2, <1>3, PTL DEF Spec

-----------------------------------------------------------------------------
(***************************************************************************)
(* The uses of secrets.                                                    *)
(***************************************************************************)
\* What a merge may return: no variable of two secrets, and each entry from
\* a row that no row of a higher rank outdoes.
MergedFrom(env, src) ==
  /\ \A e, f \in env : f.var = e.var => f.secret = e.secret
  /\ \A e \in env : \E r \in src :
       /\ r.secret = e.secret /\ e.var \in r.vars
       /\ \A q \in src : e.var \in q.vars => q.rank <= r.rank

Takers == {e.secret : e \in using.env}

UseRows ==
  /\ DOMAIN using = {"at", "program", "rows", "env"}
  /\ using.at \in {"idle", "verified", "audit", "answered"}
  /\ using.at \in {"audit", "answered"} => MergedFrom(using.env, using.rows)

AuditFollows ==
  /\ using.at = "verified" => audit = {}
  /\ using.at = "audit" => audit \subseteq Takers
  /\ using.at = "answered" => audit = Takers

GrantsInv == UseRows /\ AuditFollows

\* Every redeemed row has one of the two ranks.
LEMMA RedeemedRanks ==
  ASSUME NEW p
  PROVE  \A r \in Redeemed(p) : r.rank \in {0, 1}
BY DEF Redeemed

\* A merge without a conflict is what MergedFrom says.
LEMMA MergeIsSound ==
  ASSUME NEW given, \A r \in given : r.rank \in {0, 1}, ~Merge(given).conflict
  PROVE  MergedFrom(Merge(given).env, given)
<1> DEFINE high == {r \in given : r.rank = 1}
           low == {r \in given : r.rank = 0}
           none == [conflict |-> FALSE, env |-> {}]
           above == {e \in Fresh(high) : \A f \in {} : f.var # e.var}
           first == Put(none, high)
           below == {e \in Fresh(low) : \A f \in first.env : f.var # e.var}
<1>1. /\ first.env = above /\ above = Fresh(high)
      /\ first.conflict <=> \E e, f \in above : e.var = f.var /\ e # f
  BY DEF Put
<1>2. /\ Merge(given).env = first.env \cup below
      /\ Merge(given).conflict <=> \/ first.conflict
                                  \/ \E e, f \in below : e.var = f.var /\ e # f
  BY DEF Put, Merge
<1>3. \A e \in Fresh(high) : \E r \in high : r.secret = e.secret /\ e.var \in r.vars
  BY DEF Fresh
<1>4. \A e \in Fresh(low) : \E r \in low : r.secret = e.secret /\ e.var \in r.vars
  BY DEF Fresh
<1>5. ASSUME NEW e \in below, NEW q \in given, e.var \in q.vars
      PROVE  q.rank = 0
  <2>1. CASE q \in high
    <3>1. [var |-> e.var, secret |-> q.secret] \in Fresh(high)
      BY <1>5, <2>1 DEF Fresh
    <3> QED
      BY <3>1, <1>1
  <2> QED
    BY <2>1
<1> HIDE DEF first, above, below, none
<1>6. \A e, f \in first.env \cup below : f.var = e.var => f.secret = e.secret
  BY <1>1, <1>2 DEF below
<1>7. ASSUME NEW e \in first.env \cup below
      PROVE  \E r \in given : /\ r.secret = e.secret /\ e.var \in r.vars
                             /\ \A q \in given : e.var \in q.vars => q.rank <= r.rank
  <2>1. CASE e \in first.env
    BY <1>1, <1>3, <2>1
  <2>2. CASE e \in below
    BY <1>4, <1>5, <2>2 DEF below
  <2> QED
    BY <2>1, <2>2
<1> QED
  BY <1>2, <1>6, <1>7 DEF MergedFrom

\* A step of the broker keeps both: a use reads once, and its audit rows name
\* secrets it took from.
LEMMA GrantsStep ==
  ASSUME GrantsInv, [GrantsNext]_grantVars
  PROVE  GrantsInv'
<1>0. UseRows /\ AuditFollows
  BY DEF GrantsInv
<1>1. ASSUME UNCHANGED <<using, audit>>
      PROVE  GrantsInv'
  BY <1>0, <1>1 DEF GrantsInv, UseRows, AuditFollows, Takers
<1>2. ASSUME using' = NoUse
      PROVE  GrantsInv'
  BY <1>2 DEF GrantsInv, UseRows, AuditFollows, NoUse
<1>3. ASSUME NEW p \in Programs, UseBegin(p)
      PROVE  GrantsInv'
  BY <1>3 DEF UseBegin, GrantsInv, UseRows, AuditFollows, NoUse
<1>4. ASSUME UseReads
      PROVE  GrantsInv'
  <2> DEFINE m == Merge(Redeemed(using.program))
             reading == [using EXCEPT !.at = "audit", !.rows = Redeemed(using.program),
                                      !.env = m.env]
  <2>1. using' = NoUse \/ (~m.conflict /\ using' = reading)
    BY <1>4 DEF UseReads
  <2>2. CASE ~m.conflict /\ using' = reading
    <3>1. MergedFrom(m.env, Redeemed(using.program))
      BY <2>2, RedeemedRanks, MergeIsSound
    <3> HIDE DEF m
    <3>2. /\ DOMAIN using' = {"at", "program", "rows", "env"} /\ using'.at = "audit"
          /\ using'.rows = Redeemed(using.program) /\ using'.env = m.env
      BY <1>0, <2>2 DEF UseRows
    <3>3. audit' = {}
      BY <1>0, <1>4 DEF UseReads, AuditFollows
    <3> QED
      BY <3>1, <3>2, <3>3 DEF GrantsInv, UseRows, AuditFollows
  <2> QED
    BY <1>2, <2>1, <2>2
<1>5. ASSUME NEW s \in Secret, UseAudits(s)
      PROVE  GrantsInv'
  <2>1. CASE audit' = audit \cup {s} /\ using' = using
    BY <1>0, <1>5, <2>1 DEF UseAudits, GrantsInv, UseRows, AuditFollows, Takers
  <2> QED
    BY <1>2, <1>5, <2>1 DEF UseAudits
<1>6. ASSUME UseAnswers
      PROVE  GrantsInv'
  <2>1. /\ DOMAIN using' = {"at", "program", "rows", "env"} /\ using'.at = "answered"
        /\ using'.rows = using.rows /\ using'.env = using.env /\ audit' = audit
        /\ using.at = "audit" /\ Takers \subseteq audit
    BY <1>0, <1>6 DEF UseAnswers, UseRows, Takers
  <2> QED
    BY <1>0, <2>1 DEF GrantsInv, UseRows, AuditFollows, Takers
<1>7. CASE RedeemEnds
  BY <1>2, <1>7 DEF RedeemEnds
<1>8. CASE UNCHANGED grantVars
  BY <1>1, <1>8 DEF grantVars
<1>9. ASSUME \/ \E s \in Secret : DeleteSecret(s)
             \/ \E s \in Secret : \E named \in SUBSET EnvVar : \E blank \in SUBSET named :
                   UpsertRead(s, named, blank)
             \/ \E s \in Secret, c \in Scope : UnlockRevokes(c, s) \/ RevokeGrant(c, s)
             \/ \E u \in unlocking : UnlockCommits(u)
             \/ \E g \in grants : Expire(g)
             \/ \E r \in Repo : RegisterRepo(r)
             \/ UpsertWrite \/ RevokeCredential
      PROVE  GrantsInv'
  <2>1. UNCHANGED <<using, audit>>
    BY <1>9 DEF DeleteSecret, UpsertRead, UnlockRevokes, RevokeGrant, UnlockCommits, Expire,
       RegisterRepo, UpsertWrite, RevokeCredential
  <2> QED
    BY <1>1, <2>1
<1> QED
  BY <1>3, <1>4, <1>5, <1>6, <1>7, <1>8, <1>9 DEF GrantsNext

\* SecretsSound: a use hands out one value per variable, an explicit grant's
\* before an all-terminals one, and answers only once every secret it took
\* from is in the audit, however grants, secrets and credentials change
\* between its statements (secret_broker/redeem.rs).
THEOREM SecretsAreSound == Spec => []SecretsSound
<1> DEFINE HoldsInFocus == focus = "grants" => GrantsInv
<1>1. Init => HoldsInFocus
  BY DEF Init, GrantsInit, GrantsInv, UseRows, AuditFollows, NoUse
<1>2. HoldsInFocus /\ [Next]_workbenchVars => HoldsInFocus'
  <2> SUFFICES ASSUME HoldsInFocus, [Next]_workbenchVars, focus' = "grants"
               PROVE  GrantsInv'
    OBVIOUS
  <2>1. focus = "grants" /\ [GrantsNext]_grantVars
    BY DEF Next, OthersRest, workbenchVars
  <2> QED
    BY <2>1, GrantsStep
<1>3. HoldsInFocus => SecretsSound
  BY DEF SecretsSound, GrantsInv, UseRows, AuditFollows, Takers, MergedFrom,
     OneValuePerVariable, AnsweredIsAudited
<1> QED
  BY <1>1, <1>2, <1>3, PTL DEF Spec

-----------------------------------------------------------------------------
(* Agents: their activity.                                                 *)

ActState == {"none", "unknown", "working", "needs_input", "awaiting_prompt", "blocked"}
ActivityRow == [state : ActState, source : {"none", "launcher", "ingester", "agent", "user"}]

BindingTypes ==
  /\ bound \in [Term -> Conv \cup {NoConv}] /\ owner \in [Conv -> Term \cup {NoTerm}]
  /\ runtime \in [Term -> Active \cup {"none", "exited"}]
  /\ activity \in [Term -> ActivityRow]
  /\ alive \in [Term -> BOOLEAN]
  /\ onRun \in [Term -> {"idle", "update", "activity"}]
  /\ onExit \in [Term -> {"idle", "update", "clear"}]
  /\ \A y \in Term : onBind[y].at # 0 => onBind[y].conv \in Conv
  /\ DOMAIN onBind = Term /\ \A y \in Term : DOMAIN onBind[y] = {"conv", "at"}

BindingInv == BindingTypes /\ DerivedWhileRunning

\* No agent has run at first.
LEMMA BindingStarts == BindingInit => BindingInv
<1> SUFFICES ASSUME BindingInit PROVE BindingInv
  OBVIOUS
<1>1. NoAct \in ActivityRow /\ NoAct.source = "none"
  BY DEF NoAct, ActivityRow, ActState
<1>2. DOMAIN NoBind = {"conv", "at"} /\ NoBind.at = 0
  BY DEF NoBind
<1>3. BindingTypes
  BY <1>1, <1>2 DEF BindingInit, BindingTypes, NoConv, NoTerm, Active
<1>4. DerivedWhileRunning
  BY <1>1 DEF BindingInit, DerivedWhileRunning
<1> QED
  BY <1>3, <1>4 DEF BindingInv

\* An activity row changes for one terminal, to what was asked for or not at all.
LEMMA SetIs ==
  ASSUME BindingTypes, NEW y \in Term, NEW state \in ActState,
         NEW source \in {"none", "launcher", "ingester", "agent", "user"}
  PROVE  /\ SetActivity(y, state, source) \in [Term -> ActivityRow]
         /\ \A z \in Term \ {y} : SetActivity(y, state, source)[z] = activity[z]
         /\ \/ SetActivity(y, state, source)[y] = activity[y]
            \/ SetActivity(y, state, source)[y].source = source
<1>1. [state |-> state, source |-> source] \in ActivityRow
  BY DEF ActivityRow
<1>2. CASE SetActivity(y, state, source) = activity
  BY <1>2 DEF BindingTypes
<1>3. CASE SetActivity(y, state, source) =
             [activity EXCEPT ![y] = [state |-> state, source |-> source]]
  BY <1>1, <1>3 DEF BindingTypes
<1> QED
  BY <1>2, <1>3 DEF SetActivity

\* A row that is written for another reason than the transcript.
LEMMA SetKeeps ==
  ASSUME BindingInv, NEW y \in Term, NEW state \in ActState,
         NEW source \in {"none", "launcher", "agent", "user"},
         activity' = SetActivity(y, state, source),
         UNCHANGED <<runtime, alive, onExit, bound, owner, onBind>>, onRun' \in [Term -> {"idle", "update", "activity"}]
  PROVE  BindingInv'
<1>0. BindingTypes /\ DerivedWhileRunning
  BY DEF BindingInv
<1>1. /\ activity' \in [Term -> ActivityRow]
      /\ \A z \in Term \ {y} : activity'[z] = activity[z]
      /\ activity'[y] = activity[y] \/ activity'[y].source = source
  BY <1>0, SetIs
<1>2. BindingTypes'
  BY <1>0, <1>1 DEF BindingTypes
<1>3. DerivedWhileRunning'
  BY <1>0, <1>1 DEF DerivedWhileRunning
<1> QED
  BY <1>2, <1>3 DEF BindingInv

\* Every step of the terminals' agents keeps their invariant.
LEMMA BindingStep == BindingInv /\ [BindingNext]_bindingVars => BindingInv'
<1> SUFFICES ASSUME BindingInv, [BindingNext]_bindingVars PROVE BindingInv'
  OBVIOUS
<1>0. BindingTypes /\ DerivedWhileRunning
  BY DEF BindingInv
<1>f. UNCHANGED <<runtime, activity, alive, onExit>> => DerivedWhileRunning'
  BY <1>0 DEF DerivedWhileRunning
<1>1. ASSUME NEW y \in Term, StartAgent(y) PROVE BindingInv'
  <2>1. BindingTypes'
    BY <1>0, <1>1 DEF StartAgent, BindingTypes, Active
  <2>2. DerivedWhileRunning'
    BY <1>0, <1>1 DEF StartAgent, BindingTypes, DerivedWhileRunning, Active
  <2> QED
    BY <2>1, <2>2 DEF BindingInv
<1>2. ASSUME NEW y \in Term, TypeAgent(y) \/ ReportRunning(y) PROVE BindingInv'
  <2>1. BindingTypes'
    BY <1>0, <1>2 DEF TypeAgent, ReportRunning, rowVars, taskVars,
       BindingTypes
  <2> QED
    BY <1>f, <1>2, <2>1 DEF BindingInv, TypeAgent, ReportRunning, rowVars
<1>3. ASSUME NEW y \in Term, AgentExits(y) PROVE BindingInv'
  <2>1. BindingTypes'
    BY <1>0, <1>3 DEF AgentExits, rowVars, BindingTypes
  <2>2. DerivedWhileRunning'
    BY <1>0, <1>3 DEF AgentExits, rowVars, BindingTypes, DerivedWhileRunning
  <2> QED
    BY <2>1, <2>2 DEF BindingInv
<1>4. ASSUME NEW y \in Term, RunningUpdate(y) PROVE BindingInv'
  <2>1. BindingTypes'
    BY <1>0, <1>4 DEF RunningUpdate, taskVars, BindingTypes, Active
  <2>2. DerivedWhileRunning'
    BY <1>0, <1>4 DEF RunningUpdate, taskVars, BindingTypes,
       DerivedWhileRunning, Active
  <2> QED
    BY <2>1, <2>2 DEF BindingInv
<1>5. ASSUME NEW y \in Term, RunningActivity(y) PROVE BindingInv'
  <2>1. "unknown" \in ActState /\ "launcher" \in {"none", "launcher", "agent", "user"}
    BY DEF ActState
  <2>2. activity' = SetActivity(y, "unknown", "launcher")
    BY <1>5 DEF RunningActivity
  <2>3. onRun' \in [Term -> {"idle", "update", "activity"}]
    BY <1>0, <1>5 DEF RunningActivity, BindingTypes
  <2>4. UNCHANGED <<runtime, alive, onExit, bound, owner, onBind>>
    BY <1>5 DEF RunningActivity, rowVars
  <2> QED
    BY <2>1, <2>2, <2>3, <2>4, SetKeeps
<1>6. ASSUME NEW y \in Term, ExitedUpdate(y) PROVE BindingInv'
  <2>1. BindingTypes'
    BY <1>0, <1>6 DEF ExitedUpdate, BindingTypes, Active
  <2>2. DerivedWhileRunning'
    BY <1>0, <1>6 DEF ExitedUpdate, BindingTypes, DerivedWhileRunning, Active
  <2> QED
    BY <2>1, <2>2 DEF BindingInv
<1>n. NoAct \in ActivityRow /\ NoAct.source = "none"
  BY DEF NoAct, ActivityRow, ActState
<1>7. ASSUME NEW y \in Term, ExitedClear(y) PROVE BindingInv'
  <2>1. BindingTypes'
    BY <1>0, <1>7, <1>n DEF ExitedClear, rowVars, BindingTypes
  <2>2. DerivedWhileRunning'
    BY <1>0, <1>7, <1>n DEF ExitedClear, rowVars, BindingTypes,
       DerivedWhileRunning
  <2> QED
    BY <2>1, <2>2 DEF BindingInv
<1>8. ASSUME NEW y \in Term, BindRelease(y) PROVE BindingInv'
  <2>1. bound' \in [Term -> Conv \cup {NoConv}]
    BY <1>0, <1>8 DEF BindRelease, BindingTypes
  <2>2. /\ DOMAIN onBind' = Term
        /\ \A z \in Term : DOMAIN onBind'[z] = {"conv", "at"} /\ (onBind'[z].at # 0 => onBind'[z].conv \in Conv)
    <3>1. onBind' = [onBind EXCEPT ![y] = [onBind[y] EXCEPT !.at = 2]] /\ onBind[y].at = 1
      BY <1>8 DEF BindRelease
    <3>2. LET r == [onBind[y] EXCEPT !.at = 2] IN DOMAIN r = {"conv", "at"} /\ r.conv = onBind[y].conv
      BY <1>0 DEF BindingTypes
    <3>3. onBind[y].conv \in Conv
      BY <1>0, <3>1 DEF BindingTypes
    <3> QED
      BY <1>0, <3>1, <3>2, <3>3 DEF BindingTypes
  <2>3. BindingTypes'
    BY <1>0, <1>8, <2>1, <2>2 DEF BindRelease, BindingTypes
  <2> QED
    BY <1>f, <1>8, <2>3 DEF BindingInv, BindRelease
<1>9. ASSUME NEW y \in Term, BindPoint(y) PROVE BindingInv'
  <2>1. onBind[y].conv \in Conv
    BY <1>0, <1>9 DEF BindPoint, BindingTypes
  <2>2. DOMAIN NoBind = {"conv", "at"} /\ NoBind.at = 0
    BY DEF NoBind
  <2>3. BindingTypes'
    BY <1>0, <1>9, <2>1, <2>2 DEF BindPoint, taskVars, BindingTypes
  <2> QED
    BY <1>f, <1>9, <2>3 DEF BindingInv, BindPoint
<1>10. ASSUME NEW y \in Term, SendPrompt(y) PROVE BindingInv'
  <2>1. "working" \in ActState /\ "user" \in {"none", "launcher", "agent", "user"}
    BY DEF ActState
  <2>2. activity' = SetActivity(y, "working", "user")
    BY <1>10 DEF SendPrompt
  <2>3. onRun' \in [Term -> {"idle", "update", "activity"}]
    BY <1>0, <1>10 DEF SendPrompt, BindingTypes
  <2>4. UNCHANGED <<runtime, alive, onExit, bound, owner, onBind>>
    BY <1>10 DEF SendPrompt, rowVars
  <2> QED
    BY <2>1, <2>2, <2>3, <2>4, SetKeeps
<1>11. ASSUME NEW y \in Term, AgentShellEnds(y) PROVE BindingInv'
  <2>1. BindingTypes'
    BY <1>0, <1>11 DEF AgentShellEnds, BindingTypes, Active
  <2>2. DerivedWhileRunning'
    BY <1>0, <1>11 DEF AgentShellEnds, BindingTypes, DerivedWhileRunning,
       Active
  <2> QED
    BY <2>1, <2>2 DEF BindingInv
<1>12. ASSUME NEW y \in Term, NEW c \in Conv, ReportSession(y, c) PROVE BindingInv'
  <2>1. LET r == [conv |-> c, at |-> 1] IN DOMAIN r = {"conv", "at"} /\ r.conv = c
    OBVIOUS
  <2>2. BindingTypes'
    BY <1>0, <1>12, <2>1 DEF ReportSession, taskVars, BindingTypes
  <2> QED
    BY <1>f, <1>12, <2>2 DEF BindingInv, ReportSession
<1>13. ASSUME NEW c \in Conv, NEW s \in Transition, ProjectActivity(c, s) PROVE BindingInv'
  <2>0. s \in ActState /\ "ingester" \in {"none", "launcher", "ingester", "agent", "user"}
    BY DEF Transition, ActState
  <2>1. ASSUME NEW y \in Term
        PROVE  /\ activity'[y] \in ActivityRow
               /\ activity'[y] = activity[y] \/ runtime[y] \in Active
    <3>1. SetActivity(y, s, "ingester")[y] \in ActivityRow
      BY <1>0, <2>0, SetIs
    <3> QED
      BY <1>0, <1>13, <3>1 DEF ProjectActivity, BindingTypes
  <2>2. activity' \in [Term -> ActivityRow]
    BY <1>13, <2>1 DEF ProjectActivity
  <2>3. UNCHANGED <<bound, owner, runtime, alive, onRun, onExit, onBind>>
    BY <1>13 DEF ProjectActivity, rowVars
  <2>4. BindingTypes'
    BY <1>0, <2>2, <2>3 DEF BindingTypes
  <2>5. DerivedWhileRunning'
    BY <1>0, <2>1, <2>3 DEF DerivedWhileRunning
  <2> QED
    BY <2>4, <2>5 DEF BindingInv
<1>14. ASSUME NEW y \in Term, NEW s \in {"blocked", "awaiting_prompt", "clear"}, ControlActivity(y, s)
       PROVE  BindingInv'
  <2>1. CASE s = "clear"
    <3>1. BindingTypes'
      BY <1>0, <1>14, <1>n, <2>1 DEF ControlActivity, rowVars, BindingTypes
    <3>2. DerivedWhileRunning'
      BY <1>0, <1>14, <1>n, <2>1 DEF ControlActivity, rowVars, BindingTypes,
         DerivedWhileRunning
    <3> QED
      BY <3>1, <3>2 DEF BindingInv
  <2>2. CASE s # "clear"
    <3>1. s \in ActState /\ "agent" \in {"none", "launcher", "agent", "user"}
      BY <2>2 DEF ActState
    <3>2. activity' = SetActivity(y, s, "agent")
      BY <1>14, <2>2 DEF ControlActivity
    <3>3. onRun' \in [Term -> {"idle", "update", "activity"}]
      BY <1>0, <1>14 DEF ControlActivity, BindingTypes
    <3>4. UNCHANGED <<runtime, alive, onExit, bound, owner, onBind>>
      BY <1>14 DEF ControlActivity, rowVars
    <3> QED
      BY <3>1, <3>2, <3>3, <3>4, SetKeeps
  <2> QED
    BY <2>1, <2>2
<1>15. CASE UNCHANGED bindingVars
  BY <1>0, <1>f, <1>15 DEF bindingVars, BindingInv, BindingTypes
<1> QED
  BY <1>1, <1>2, <1>3, <1>4, <1>5, <1>6, <1>7, <1>8, <1>9, <1>10, <1>11,
     <1>12, <1>13, <1>14, <1>15
     DEF BindingNext

-----------------------------------------------------------------------------
(* Agents: their models.                                                   *)

SwitchRow == [from : Model, to : Model, enforced : BOOLEAN, ack : BOOLEAN, stopped : BOOLEAN]
Transcript == [kind : {"start", "end", "model"}, model : Model]

GuardInv ==
  /\ onModel \in Model /\ unread \in Seq(Transcript)
  /\ {observed, confirmed} \subseteq Model \cup {NoModel}
  /\ switches \in Seq(SwitchRow)
  /\ observed # NoModel => confirmed # NoModel
  /\ switches # <<>> => observed # NoModel
  /\ todo \subseteq Rows
  /\ \A i \in Rows : switches[i].from # switches[i].to
  /\ AcceptedIsNotAskedAgain

\* A launch has no baseline and no switch.
LEMMA GuardStarts == GuardInit => GuardInv
BY GuardAssumption DEF GuardInit, GuardInv, Rows, AcceptedIsNotAskedAgain

\* The harness's record names a model.
LEMMA WriteIsTyped ==
  ASSUME unread \in Seq(Transcript), onModel' \in Model,
         NEW kind \in {"start", "end", "model"}, Write(kind)
  PROVE  unread' \in Seq(Transcript)
<1>1. [kind |-> kind, model |-> onModel'] \in Transcript
  BY DEF Transcript
<1> QED
  BY <1>1 DEF Write

\* The comparison with the baselines asks nothing about the confirmed model.
LEMMA ObserveKeeps ==
  ASSUME GuardInv, NEW m \in Model, Observe(m)
  PROVE  /\ {observed', confirmed'} \subseteq Model \cup {NoModel}
         /\ switches' \in Seq(SwitchRow)
         /\ observed' # NoModel => confirmed' # NoModel
         /\ switches' # <<>> => observed' # NoModel
         /\ Rows \subseteq Rows'
         /\ \A i \in Rows' : switches'[i].from # switches'[i].to
         /\ AcceptedIsNotAskedAgain'
<1>0. m # NoModel
  BY GuardAssumption
<1>1. CASE observed = NoModel
  <2>1. switches = <<>> /\ switches' = switches /\ observed' = m
        /\ confirmed' = (IF confirmed = NoModel THEN m ELSE confirmed)
    BY <1>1 DEF Observe, GuardInv
  <2> QED
    BY <1>0, <2>1 DEF GuardInv, Rows, AcceptedIsNotAskedAgain
<1>2. CASE observed # NoModel /\ observed = m
  <2>1. UNCHANGED <<observed, confirmed, switches>>
    BY <1>2 DEF Observe
  <2> QED
    BY <2>1 DEF GuardInv, Rows, AcceptedIsNotAskedAgain
<1>3. CASE observed # NoModel /\ observed # m
  <2> DEFINE entry == [from |-> observed, to |-> m, enforced |-> m # confirmed,
                     ack |-> FALSE, stopped |-> FALSE]
  <2>1. switches' = Append(switches, entry) /\ observed' = m /\ confirmed' = confirmed
    BY <1>3 DEF Observe, GuardInv
  <2>2. entry \in SwitchRow /\ entry.from # entry.to
        /\ (entry.enforced => entry.to # confirmed)
    BY <1>3 DEF SwitchRow, GuardInv
  <2> HIDE DEF entry
  <2>3. switches' \in Seq(SwitchRow) /\ Rows' = Rows \cup {Len(switches) + 1}
        /\ Len(switches') = Len(switches) + 1
        /\ switches'[Len(switches) + 1] = entry
        /\ \A i \in Rows : switches'[i] = switches[i]
    BY <2>1, <2>2 DEF GuardInv, Rows
  <2>4. \A i \in Rows' : switches'[i].from # switches'[i].to
    BY <2>2, <2>3 DEF GuardInv
  <2>5. AcceptedIsNotAskedAgain'
    BY <2>1, <2>2, <2>3 DEF GuardInv, AcceptedIsNotAskedAgain
  <2> QED
    BY <1>0, <1>3, <2>1, <2>3, <2>4, <2>5 DEF GuardInv
<1> QED
  BY <1>1, <1>2, <1>3

\* Every step of the guard keeps its invariant.
LEMMA GuardStep == GuardInv /\ [GuardNext]_guardVars => GuardInv'
<1> SUFFICES ASSUME GuardInv, [GuardNext]_guardVars PROVE GuardInv'
  OBVIOUS
<1>f. ASSUME UNCHANGED <<observed, confirmed, switches, todo>>, onModel' \in Model,
             unread' \in Seq(Transcript)
      PROVE  GuardInv'
  BY <1>f DEF GuardInv, Rows, AcceptedIsNotAskedAgain
<1>k. onModel \in Model /\ unread \in Seq(Transcript)
  BY DEF GuardInv
<1>r. \A j \in Rows : switches[j] \in SwitchRow
  BY DEF GuardInv, Rows
<1>1. ASSUME StartTurn PROVE GuardInv'
  <2>1. unread' \in Seq(Transcript)
    BY <1>1, <1>k, WriteIsTyped DEF StartTurn
  <2> QED
    BY <1>f, <1>1, <1>k, <2>1 DEF StartTurn
<1>2. ASSUME EndTurn PROVE GuardInv'
  <2>1. unread' \in Seq(Transcript)
    BY <1>2, <1>k, WriteIsTyped DEF EndTurn
  <2> QED
    BY <1>f, <1>2, <1>k, <2>1 DEF EndTurn
<1>3. ASSUME NEW m \in Model, MoveModel(m) PROVE GuardInv'
  <2>1. unread' \in Seq(Transcript)
    BY <1>3, <1>k, WriteIsTyped DEF MoveModel
  <2> QED
    BY <1>f, <1>3, <1>k, <2>1 DEF MoveModel
<1>4. ASSUME Ingest PROVE GuardInv'
  <2> DEFINE r == Head(unread)
  <2>1. r \in Transcript /\ unread' \in Seq(Transcript) /\ onModel' = onModel /\ todo' = todo
    BY <1>4, <1>k DEF Ingest
  <2>2. r.model \in Model
    BY <2>1 DEF Transcript
  <2>3. CASE UNCHANGED <<observed, confirmed, switches>>
    BY <1>f, <1>k, <2>1, <2>3
  <2>4. CASE Observe(r.model)
    <3> HIDE DEF r
    <3>1. /\ {observed', confirmed'} \subseteq Model \cup {NoModel}
          /\ switches' \in Seq(SwitchRow)
          /\ observed' # NoModel => confirmed' # NoModel
          /\ switches' # <<>> => observed' # NoModel
          /\ Rows \subseteq Rows'
          /\ \A i \in Rows' : switches'[i].from # switches'[i].to
          /\ AcceptedIsNotAskedAgain'
      BY <2>2, <2>4, ObserveKeeps
    <3> QED
      BY <1>k, <2>1, <3>1 DEF GuardInv
  <2> QED
    BY <1>4, <2>3, <2>4 DEF Ingest
<1>5. ASSUME BeginPass PROVE GuardInv'
  <2>1. todo' \subseteq Rows /\ UNCHANGED <<onModel, unread, observed, confirmed, switches>>
    BY <1>5 DEF BeginPass
  <2> QED
    BY <2>1 DEF GuardInv, Rows, AcceptedIsNotAskedAgain
<1>6. ASSUME NEW i \in Rows, EnforceLands(i) PROVE GuardInv'
  <2>1. unread' \in Seq(Transcript) /\ onModel' = onModel
    <3>1. CASE inTurn
      BY <1>6, <1>k, <3>1, WriteIsTyped DEF EnforceLands
    <3>2. CASE ~inTurn
      BY <1>6, <1>k, <3>2 DEF EnforceLands
    <3> QED
      BY <1>6, <3>1, <3>2 DEF EnforceLands
  <2> DEFINE entry == [switches[i] EXCEPT !.stopped = TRUE]
  <2>2. entry \in SwitchRow /\ entry.from = switches[i].from /\ entry.to = switches[i].to
        /\ entry.enforced = switches[i].enforced /\ entry.ack = switches[i].ack
    BY <1>r DEF SwitchRow
  <2>3. switches' = [switches EXCEPT ![i] = entry] /\ todo' \subseteq todo
        /\ UNCHANGED <<observed, confirmed>>
    BY <1>6 DEF EnforceLands
  <2> HIDE DEF entry
  <2>4. switches' \in Seq(SwitchRow) /\ Len(switches') = Len(switches) /\ switches'[i] = entry
        /\ \A j \in Rows \ {i} : switches'[j] = switches[j]
    BY <2>2, <2>3 DEF GuardInv, Rows
  <2>5. Rows' = Rows /\ (switches' # <<>> => switches # <<>>)
    BY <2>4 DEF Rows, GuardInv
  <2>6. \A j \in Rows' : switches'[j].from # switches'[j].to
    BY <2>2, <2>4, <2>5 DEF GuardInv
  <2>7. AcceptedIsNotAskedAgain'
    BY <2>2, <2>3, <2>4, <2>5 DEF GuardInv, AcceptedIsNotAskedAgain
  <2> QED
    BY <1>k, <2>1, <2>3, <2>4, <2>5, <2>6, <2>7 DEF GuardInv
<1>7. ASSUME NEW i \in Rows, EnforceFails(i) PROVE GuardInv'
  <2>1. todo' \subseteq todo /\ UNCHANGED <<onModel, unread, observed, confirmed, switches>>
    BY <1>7 DEF EnforceFails
  <2> QED
    BY <2>1 DEF GuardInv, Rows, AcceptedIsNotAskedAgain
<1>8. ASSUME NEW i \in Rows, NEW b \in BOOLEAN, Acknowledge(i, b) PROVE GuardInv'
  <2>1. switches' = CloseRows(i, b) /\ UNCHANGED <<onModel, unread, observed, todo>>
        /\ confirmed' = (IF b THEN switches[i].to ELSE confirmed)
    BY <1>8 DEF Acknowledge
  <2>2. ASSUME NEW j \in Rows
        PROVE  LET entry == [switches[j] EXCEPT !.ack = TRUE] IN
               /\ entry \in SwitchRow /\ entry.from = switches[j].from /\ entry.to = switches[j].to
               /\ entry.ack = TRUE
    BY <1>r DEF SwitchRow
  <2>3. ASSUME NEW j \in Rows
        PROVE  /\ switches'[j] \in SwitchRow
               /\ switches'[j].from = switches[j].from /\ switches'[j].to = switches[j].to
               /\ switches'[j] = switches[j] \/ switches'[j].ack
               /\ b /\ switches[j].to = switches[i].to => switches'[j].ack
    BY <2>1, <2>2 DEF CloseRows, GuardInv, Rows
  <2>4. switches' \in Seq(SwitchRow) /\ Len(switches') = Len(switches)
    <3>1. DOMAIN switches' = 1..Len(switches) /\ switches' = [j \in 1..Len(switches) |-> switches'[j]]
      BY <2>1 DEF CloseRows, Rows
    <3>2. Len(switches) \in Nat
      BY DEF GuardInv
    <3> QED
      BY <2>3, <3>1, <3>2 DEF Rows
  <2>5. Rows' = Rows /\ (switches' # <<>> => switches # <<>>)
    BY <2>4 DEF Rows, GuardInv
  <2>6. switches[i].to \in Model /\ switches[i].to # NoModel
    BY <1>r, GuardAssumption DEF SwitchRow
  <2>7. \A j \in Rows' : switches'[j].from # switches'[j].to
    BY <2>3, <2>5 DEF GuardInv
  <2>8. AcceptedIsNotAskedAgain'
    BY <2>1, <2>3, <2>5 DEF GuardInv, AcceptedIsNotAskedAgain
  <2> QED
    BY <2>1, <2>4, <2>5, <2>6, <2>7, <2>8 DEF GuardInv
<1>9. CASE UNCHANGED guardVars
  BY <1>f, <1>9, <1>k DEF guardVars
<1> QED
  BY <1>1, <1>2, <1>3, <1>4, <1>5, <1>6, <1>7, <1>8, <1>9 DEF GuardNext

-----------------------------------------------------------------------------
(* Agents: the prompts sent to them.                                       *)

PromptRow == [text : Text, at : {"paste", "enter", "done"}, after : Nat, turn : Nat,
              failed : BOOLEAN, dismissed : BOOLEAN]

PromptInv ==
  /\ sent \in Seq(PromptRow)
  /\ Len(took) \in Nat /\ shown \in Nat
  /\ OneTurnPerPrompt

\* Nothing was sent at first.
LEMMA PromptStarts == PromptInit => PromptInv
BY DEF PromptInit, PromptInv, OneTurnPerPrompt, Prompts

\* A change of one row that leaves its turn alone.
LEMMA RowKeepsTurn ==
  ASSUME PromptInv, NEW i \in Prompts, NEW entry \in PromptRow, entry.turn = sent[i].turn,
         sent' = [sent EXCEPT ![i] = entry], Len(took') \in Nat, shown' \in Nat
  PROVE  PromptInv'
<1>1. sent' \in Seq(PromptRow) /\ Len(sent') = Len(sent)
      /\ \A j \in Prompts : sent'[j].turn = sent[j].turn
  BY DEF PromptInv, Prompts
<1>2. Prompts' = Prompts
  BY <1>1 DEF Prompts
<1>3. OneTurnPerPrompt'
  BY <1>1, <1>2 DEF PromptInv, OneTurnPerPrompt
<1> QED
  BY <1>1, <1>3 DEF PromptInv

\* A turn is won by one prompt, and by one that nobody has.
LEMMA WinnerIsAlone ==
  ASSUME PromptInv, NEW i \in Prompts, NEW j \in Prompts, NEW t \in 1..shown,
         Wins(i, t)
  PROVE  /\ sent[j].turn # t /\ sent[i].turn = 0
         /\ Wins(j, t) => j = i
<1>1. Qualifies(i, t) /\ t \in Choice(i) /\ \A k \in 1..(i - 1) : t \notin Choice(k)
  BY DEF Wins, Choice
<1>2. ASSUME Wins(j, t) PROVE j = i
  <2>1. t \in Choice(j) /\ \A k \in 1..(j - 1) : t \notin Choice(k)
    BY <1>2 DEF Wins
  <2>2. i \in Nat \ {0} /\ j \in Nat \ {0}
    BY DEF Prompts, PromptInv
  <2> HIDE DEF Choice
  <2>3. i \notin 1..(j - 1) /\ j \notin 1..(i - 1)
    BY <1>1, <2>1
  <2> QED
    BY <2>2, <2>3
<1> QED
  BY <1>1, <1>2 DEF Qualifies, Claimed

\* Every step of a prompt's life keeps the invariant.
LEMMA PromptStep == PromptInv /\ [PromptNext]_promptVars => PromptInv'
<1> SUFFICES ASSUME PromptInv, [PromptNext]_promptVars PROVE PromptInv'
  OBVIOUS
<1>0. sent \in Seq(PromptRow) /\ Len(took) \in Nat /\ shown \in Nat
  BY DEF PromptInv
<1>r. \A j \in Prompts : sent[j] \in PromptRow
  BY <1>0 DEF Prompts
<1>1. ASSUME NEW t \in Text, Record(t) PROVE PromptInv'
  <2> DEFINE entry == [text |-> t, at |-> "paste", after |-> Len(took),
                     turn |-> 0, failed |-> FALSE, dismissed |-> FALSE]
  <2>1. entry \in PromptRow /\ entry.turn = 0
    BY <1>0 DEF PromptRow
  <2>2. sent' = Append(sent, entry) /\ UNCHANGED <<took, shown>>
    BY <1>1 DEF Record
  <2> HIDE DEF entry
  <2>3. sent' \in Seq(PromptRow) /\ Len(sent') = Len(sent) + 1
        /\ sent'[Len(sent) + 1] = entry /\ \A j \in Prompts : sent'[j] = sent[j]
    BY <1>0, <2>1, <2>2 DEF Prompts
  <2>4. Prompts' = Prompts \cup {Len(sent) + 1}
    BY <1>0, <2>3 DEF Prompts
  <2>5. OneTurnPerPrompt'
    BY <2>1, <2>3, <2>4 DEF PromptInv, OneTurnPerPrompt
  <2> QED
    BY <1>0, <2>2, <2>3, <2>5 DEF PromptInv
<1>2. ASSUME NEW t \in Text, Typed(t) PROVE PromptInv'
  <2>1. UNCHANGED <<sent, shown>> /\ took' = Append(took, t)
    BY <1>2 DEF Typed
  <2>2. Len(took') \in Nat
    BY <1>0, <2>1
  <2> QED
    BY <1>0, <2>1, <2>2 DEF PromptInv, OneTurnPerPrompt, Prompts
<1>3. ASSUME NEW i \in Prompts, Paste(i) PROVE PromptInv'
  <2> DEFINE entry == [sent[i] EXCEPT !.at = "enter"]
  <2>1. entry \in PromptRow /\ entry.turn = sent[i].turn
    BY <1>r DEF PromptRow
  <2>2. sent' = [sent EXCEPT ![i] = entry] /\ UNCHANGED <<took, shown>>
    BY <1>3 DEF Paste
  <2> HIDE DEF entry
  <2> QED
    BY <1>0, <2>1, <2>2, RowKeepsTurn
<1>4. ASSUME NEW i \in Prompts, Enter(i) PROVE PromptInv'
  <2> DEFINE entry == [sent[i] EXCEPT !.at = "done"]
  <2>1. entry \in PromptRow /\ entry.turn = sent[i].turn
    BY <1>r DEF PromptRow
  <2>2. sent' = [sent EXCEPT ![i] = entry] /\ UNCHANGED shown
    BY <1>4 DEF Enter
  <2>3. Len(took') \in Nat
    BY <1>0, <1>4 DEF Enter
  <2> HIDE DEF entry
  <2> QED
    BY <1>0, <2>1, <2>2, <2>3, RowKeepsTurn
<1>5. ASSUME NEW i \in Prompts, DeliveryFails(i) PROVE PromptInv'
  <2> DEFINE entry == [sent[i] EXCEPT !.at = "done", !.failed = TRUE]
  <2>1. entry \in PromptRow /\ entry.turn = sent[i].turn
    BY <1>r DEF PromptRow
  <2>2. sent' = [sent EXCEPT ![i] = entry] /\ UNCHANGED <<took, shown>>
    BY <1>0, <1>5 DEF DeliveryFails, Prompts
  <2> HIDE DEF entry
  <2> QED
    BY <1>0, <2>1, <2>2, RowKeepsTurn
<1>6. ASSUME NEW i \in Prompts, Dismiss(i) PROVE PromptInv'
  <2> DEFINE entry == [sent[i] EXCEPT !.dismissed = TRUE]
  <2>1. entry \in PromptRow /\ entry.turn = sent[i].turn
    BY <1>r DEF PromptRow
  <2>2. sent' = [sent EXCEPT ![i] = entry] /\ UNCHANGED <<took, shown>>
    BY <1>6 DEF Dismiss
  <2> HIDE DEF entry
  <2> QED
    BY <1>0, <2>1, <2>2, RowKeepsTurn
<1>7. ASSUME Project PROVE PromptInv'
  BY <1>0, <1>7 DEF Project, PromptInv, OneTurnPerPrompt, Prompts
<1>8. ASSUME Reconcile PROVE PromptInv'
  <2> DEFINE Won(i) == \E t \in 1..shown : Wins(i, t)
             turn(i) == CHOOSE t \in 1..shown : Wins(i, t)
  <2>1. sent' = [i \in Prompts |-> IF Won(i) THEN [sent[i] EXCEPT !.turn = turn(i)] ELSE sent[i]]
        /\ UNCHANGED <<took, shown>>
    BY <1>8 DEF Reconcile
  <2>2. \A i \in Prompts : Won(i) => turn(i) \in 1..shown /\ Wins(i, turn(i))
    OBVIOUS
  <2> HIDE DEF Won, turn
  <2>3. ASSUME NEW i \in Prompts, Won(i)
        PROVE  LET entry == [sent[i] EXCEPT !.turn = turn(i)] IN entry \in PromptRow /\ entry.turn = turn(i)
    <3>1. turn(i) \in Nat
      BY <1>0, <2>2, <2>3
    <3> QED
      BY <1>r, <3>1 DEF PromptRow
  <2>4. ASSUME NEW i \in Prompts
        PROVE  /\ sent'[i] \in PromptRow
               /\ Won(i) => sent'[i].turn = turn(i)
               /\ ~Won(i) => sent'[i].turn = sent[i].turn
    BY <1>r, <2>1, <2>3
  <2>5. sent' \in Seq(PromptRow) /\ Len(sent') = Len(sent)
    <3>1. sent' = [i \in 1..Len(sent) |-> sent'[i]] /\ Len(sent) \in Nat
      BY <1>0, <2>1 DEF Prompts
    <3> QED
      BY <2>4, <3>1 DEF Prompts
  <2>6. ASSUME NEW i \in Prompts, NEW j \in Prompts, i # j, sent'[i].turn # 0,
               sent'[i].turn = sent'[j].turn
        PROVE  FALSE
    <3>1. CASE Won(i)
      BY <2>2, <2>4, <2>6, <3>1, WinnerIsAlone
    <3>2. CASE ~Won(i) /\ Won(j)
      BY <2>2, <2>4, <2>6, <3>2, WinnerIsAlone
    <3>3. CASE ~Won(i) /\ ~Won(j)
      BY <2>4, <2>6, <3>3 DEF PromptInv, OneTurnPerPrompt
    <3> QED
      BY <3>1, <3>2, <3>3
  <2>7. Prompts' = Prompts
    BY <2>5 DEF Prompts
  <2>8. OneTurnPerPrompt'
    BY <2>6, <2>7 DEF OneTurnPerPrompt
  <2> QED
    BY <1>0, <2>1, <2>5, <2>8 DEF PromptInv
<1>9. CASE UNCHANGED promptVars
  BY <1>9 DEF promptVars, PromptInv, OneTurnPerPrompt, Prompts
<1> QED
  BY <1>1, <1>2, <1>3, <1>4, <1>5, <1>6, <1>7, <1>8, <1>9 DEF PromptNext

\* While the terminals' agents are in focus, steps are theirs.
LEMMA BindingFocus ==
  ASSUME [Next]_workbenchVars, focus' = "binding"
  PROVE  focus = "binding" /\ [BindingNext]_bindingVars
BY DEF Next, OthersRest, workbenchVars

\* While model switches are in focus, steps are theirs.
LEMMA GuardFocus ==
  ASSUME [Next]_workbenchVars, focus' = "guard"
  PROVE  focus = "guard" /\ [GuardNext]_guardVars
BY DEF Next, OthersRest, workbenchVars

\* While prompts are in focus, steps are theirs.
LEMMA PromptFocus ==
  ASSUME [Next]_workbenchVars, focus' = "prompts"
  PROVE  focus = "prompts" /\ [PromptNext]_promptVars
BY DEF Next, OthersRest, workbenchVars

\* Activity read from a transcript stays only while the agent runs or its
\* exit is being recorded, an accepted model is not asked about again, and
\* no two prompts share a turn: for any number of terminals, conversations,
\* switches and prompts, and any interleaving of the reports.
THEOREM AgentStateIsSound == Spec => []AgentStateSound
<1> DEFINE Inv == /\ focus = "binding" => BindingInv
                  /\ focus = "guard" => GuardInv
                  /\ focus = "prompts" => PromptInv
<1>1. Init => Inv
  BY BindingStarts, GuardStarts, PromptStarts DEF Init
<1>2. Inv /\ [Next]_workbenchVars => Inv'
  <2> SUFFICES ASSUME Inv, [Next]_workbenchVars PROVE Inv'
    OBVIOUS
  <2>1. focus' = "binding" => BindingInv'
    BY BindingFocus, BindingStep
  <2>2. focus' = "guard" => GuardInv'
    BY GuardFocus, GuardStep
  <2>3. focus' = "prompts" => PromptInv'
    BY PromptFocus, PromptStep
  <2> QED
    BY <2>1, <2>2, <2>3
<1>3. Inv => AgentStateSound
  BY DEF BindingInv, GuardInv, PromptInv, AgentStateSound
<1> QED
  BY <1>1, <1>2, <1>3, PTL DEF Spec

-----------------------------------------------------------------------------
(* Plans.                                                                  *)

PhaseRow == [pos : Nat, status : PhaseStatus]
PlanRow == [status : OpenStatus \cup ClosedStatus \cup {"none"}, parent : 0..MaxPlan,
            depth : 0..MaxBranchDepth]

\* n phases, one at each position.
Numbered(list, n) ==
  /\ n \in Nat /\ DOMAIN list = 1..n
  /\ \A i \in 1..n : list[i] \in PhaseRow /\ list[i].pos \in 1..n
  /\ \A i, j \in 1..n : list[i].pos = list[j].pos => i = j
  /\ \A k \in 1..n : \E i \in 1..n : list[i].pos = k

AllFinished(list) == \A i \in DOMAIN list : list[i].status \in Finished

PlanTree ==
  /\ plan \in [PlanIds -> PlanRow]
  /\ \A p \in PlanIds : /\ plan[p].parent < p
                        /\ plan[p].parent # 0 => plan[plan[p].parent].status # "none"
  /\ \A p, q \in PlanIds : q < p /\ plan[p].status # "none" => plan[q].status # "none"

PlanPhases ==
  /\ DOMAIN phase = PlanIds
  /\ \A p \in PlanIds : /\ \E n \in Nat : Numbered(phase[p], n)
                        /\ plan[p].status = "completed" => AllFinished(phase[p])

PlanAnchors ==
  /\ DOMAIN anchor = PlanIds
  /\ \A p \in PlanIds : plan[p].parent # 0 => anchor[p] \subseteq Phases(plan[p].parent)

PlanTerminals ==
  att \in [Pty -> 0..MaxPlan] /\ livePty \subseteq Pty /\ AttachedIsOpen

PlansInv == PlanTree /\ PlanPhases /\ PlanAnchors /\ PlanTerminals

\* A plan's phases are numbered from the start.
LEMMA InitialNumbered ==
  ASSUME NEW n \in Nat, NEW b \in BOOLEAN, NEW want \in AskStatus \cup {"none"}
  PROVE  Numbered(InitialPhases(n, b, want), n)
<1> DEFINE st(i) == IF want # "none" THEN want
                    ELSE IF i = 1 /\ ~b THEN "in_progress" ELSE "pending"
           new == InitialPhases(n, b, want)
<1>1. \A i \in 1..n : st(i) \in PhaseStatus
  BY PlansAssumption DEF PhaseStatus
<1>2. DOMAIN new = 1..n /\ \A i \in 1..n : new[i] = [pos |-> i, status |-> st(i)]
  BY DEF InitialPhases
<1> HIDE DEF st, new
<1>3. \A i \in 1..n : new[i] \in PhaseRow /\ new[i].pos = i
  BY <1>1, <1>2 DEF PhaseRow
<1>4. Numbered(new, n)
  BY <1>2, <1>3 DEF Numbered
<1> QED
  BY <1>4 DEF new

\* A change of statuses leaves the numbering alone.
LEMMA StatusKeepsNumbers ==
  ASSUME NEW old, NEW new, NEW n \in Nat, Numbered(old, n), DOMAIN new = DOMAIN old,
         \A i \in DOMAIN old : new[i] \in PhaseRow /\ new[i].pos = old[i].pos
  PROVE  Numbered(new, n)
BY DEF Numbered

\* The phases between the old place and the new one shift by one.
LEMMA MoveKeepsNumbers ==
  ASSUME NEW list, NEW n \in Nat, Numbered(list, n), NEW i \in 1..n, NEW wanted \in Int
  PROVE  /\ Numbered(MovePhase(list, i, wanted), n)
         /\ \A j \in 1..n : MovePhase(list, i, wanted)[j].status = list[j].status
<1> DEFINE old == list[i].pos
           new == CASE wanted < 1 -> 1 [] wanted > Cardinality(DOMAIN list) -> Cardinality(DOMAIN list)
                    [] OTHER -> wanted
           at(j) == IF j = i THEN new
                    ELSE IF new <= list[j].pos /\ list[j].pos < old THEN list[j].pos + 1
                    ELSE IF old < list[j].pos /\ list[j].pos <= new THEN list[j].pos - 1
                    ELSE list[j].pos
           moved == MovePhase(list, i, wanted)
<1>0. DOMAIN list = 1..n /\ n >= 1
  BY DEF Numbered
<1>1. Cardinality(DOMAIN list) = n
  BY <1>0, FS_Interval
<1>2. new \in 1..n
  BY <1>0, <1>1
<1>3. \A j \in 1..n : list[j] \in PhaseRow /\ list[j].pos \in 1..n
  BY DEF Numbered
<1>4. \A j, k \in 1..n : list[j].pos = list[k].pos => j = k
  BY DEF Numbered
<1>5. \A k \in 1..n : \E j \in 1..n : list[j].pos = k
  BY DEF Numbered
<1>6. DOMAIN moved = 1..n /\ \A j \in 1..n : moved[j] = [list[j] EXCEPT !.pos = at(j)]
  <2>1. moved = [j \in DOMAIN list |-> [list[j] EXCEPT !.pos =
            CASE j = i -> new
              [] j # i /\ new <= list[j].pos /\ list[j].pos < old -> list[j].pos + 1
              [] j # i /\ old < list[j].pos /\ list[j].pos <= new -> list[j].pos - 1
              [] OTHER -> list[j].pos]]
    BY DEF MovePhase
  <2>o. old \in 1..n
    BY <1>3
  <2> HIDE DEF new, old, moved
  <2>2. ASSUME NEW j \in 1..n
        PROVE  at(j) = CASE j = i -> new
              [] j # i /\ new <= list[j].pos /\ list[j].pos < old -> list[j].pos + 1
              [] j # i /\ old < list[j].pos /\ list[j].pos <= new -> list[j].pos - 1
              [] OTHER -> list[j].pos
    BY <1>2, <1>3, <2>o
  <2> HIDE DEF at
  <2> QED
    BY <1>0, <2>1, <2>2
<1> HIDE DEF new
<1>7. \A j \in 1..n : at(j) \in 1..n
  BY <1>2, <1>3
<1>8. \A j, k \in 1..n : at(j) = at(k) => j = k
  BY <1>2, <1>3, <1>4
<1>9. \A k \in 1..n : \E j \in 1..n : at(j) = k
  <2> SUFFICES ASSUME NEW k \in 1..n PROVE \E j \in 1..n : at(j) = k
    OBVIOUS
  <2>1. CASE k = new
    BY <2>1
  <2>2. CASE new < k /\ k <= old
    <3>0. k - 1 \in 1..n
      BY <1>2, <2>2
    <3>1. PICK j \in 1..n : list[j].pos = k - 1
      BY <1>5, <3>0
    <3> QED
      BY <1>2, <1>3, <2>2, <3>1
  <2>3. CASE old <= k /\ k < new
    <3>0. k + 1 \in 1..n
      BY <1>2, <2>3
    <3>1. PICK j \in 1..n : list[j].pos = k + 1
      BY <1>5, <3>0
    <3> QED
      BY <1>2, <1>3, <2>3, <3>1
  <2>4. CASE k # new /\ ~(new < k /\ k <= old) /\ ~(old <= k /\ k < new)
    <3>1. PICK j \in 1..n : list[j].pos = k
      BY <1>5
    <3>2. j # i
      BY <1>2, <1>3, <2>4, <3>1
    <3> QED
      BY <1>2, <1>3, <2>4, <3>1, <3>2
  <2> QED
    BY <2>1, <2>2, <2>3, <2>4
<1> HIDE DEF at, moved, old
<1>10. \A j \in 1..n : moved[j] \in PhaseRow /\ moved[j].pos = at(j) /\ moved[j].status = list[j].status
  BY <1>3, <1>6, <1>7 DEF PhaseRow
<1>11. Numbered(moved, n)
  <2>1. \A j \in 1..n : moved[j] \in PhaseRow /\ moved[j].pos \in 1..n
    BY <1>7, <1>10
  <2>2. \A j, k \in 1..n : moved[j].pos = moved[k].pos => j = k
    BY <1>8, <1>10
  <2>3. \A k \in 1..n : \E j \in 1..n : moved[j].pos = k
    BY <1>9, <1>10
  <2> QED
    BY <1>6, <2>1, <2>2, <2>3 DEF Numbered
<1> QED
  BY <1>10, <1>11 DEF moved

\* n phases and one more behind them.
Longer(list, n, st) ==
  [i \in 1..(n + 1) |-> IF i \in 1..n THEN list[i] ELSE [pos |-> n + 1, status |-> st]]

\* A phase is added at the end.
LEMMA AddKeepsNumbers ==
  ASSUME NEW list, NEW n \in Nat, Numbered(list, n), NEW st \in PhaseStatus
  PROVE  Numbered(Longer(list, n, st), n + 1)
<1> DEFINE new == Longer(list, n, st)
<1>1. \A i \in 1..n : new[i] = list[i] /\ list[i] \in PhaseRow /\ list[i].pos \in 1..n
  BY DEF Numbered, Longer
<1>2. new[n + 1] \in PhaseRow /\ new[n + 1].pos = n + 1
  BY DEF PhaseRow, Longer
<1>3. DOMAIN new = 1..(n + 1) /\ n + 1 \in Nat
  BY DEF Longer
<1> HIDE DEF new
<1>4. \A i \in 1..(n + 1) : i \in 1..n \/ i = n + 1
  OBVIOUS
<1>5. ASSUME NEW i \in 1..(n + 1) PROVE new[i] \in PhaseRow /\ new[i].pos \in 1..(n + 1)
  <2>1. CASE i \in 1..n
    BY <1>1, <2>1
  <2>2. CASE i = n + 1
    BY <1>2, <2>2
  <2> QED
    BY <1>4, <2>1, <2>2
<1>6. ASSUME NEW i \in 1..(n + 1), NEW j \in 1..(n + 1), new[i].pos = new[j].pos PROVE i = j
  <2>1. CASE i \in 1..n /\ j \in 1..n
    BY <1>1, <1>6, <2>1 DEF Numbered
  <2>2. CASE i = n + 1 /\ j \in 1..n
    BY <1>1, <1>2, <1>6, <2>2
  <2>3. CASE i \in 1..n /\ j = n + 1
    BY <1>1, <1>2, <1>6, <2>3
  <2> QED
    BY <1>4, <2>1, <2>2, <2>3
<1>7. ASSUME NEW k \in 1..(n + 1) PROVE \E i \in 1..(n + 1) : new[i].pos = k
  <2>1. CASE k \in 1..n
    <3>1. PICK i \in 1..n : list[i].pos = k
      BY <2>1 DEF Numbered
    <3>2. i \in 1..(n + 1)
      OBVIOUS
    <3> QED
      BY <1>1, <3>1, <3>2
  <2>2. CASE k = n + 1
    BY <1>2, <2>2
  <2> QED
    BY <1>4, <2>1, <2>2
<1>8. Numbered(new, n + 1)
  BY <1>3, <1>5, <1>6, <1>7 DEF Numbered
<1> QED
  BY <1>8 DEF new

\* Numbered phases leave no hole.
LEMMA NumberedIsDense ==
  ASSUME NEW list, NEW n \in Nat, Numbered(list, n)
  PROVE  /\ Cardinality(DOMAIN list) = n
         /\ {list[i].pos : i \in DOMAIN list} = 1..Cardinality(DOMAIN list)
<1>1. DOMAIN list = 1..n
  BY DEF Numbered
<1>2. Cardinality(DOMAIN list) = n
  BY <1>1, FS_Interval
<1>3. {list[i].pos : i \in 1..n} = 1..n
  <2>1. \A i \in 1..n : list[i].pos \in 1..n
    BY DEF Numbered
  <2>2. \A k \in 1..n : \E i \in 1..n : list[i].pos = k
    BY DEF Numbered
  <2> QED
    BY <2>1, <2>2
<1> QED
  BY <1>1, <1>2, <1>3

\* The place of an added phase is past the last.
LEMMA TopIsLast ==
  ASSUME NEW list, NEW n \in Nat, Numbered(list, n)
  PROVE  (CHOOSE m \in 0..n : /\ \A i \in DOMAIN list : list[i].pos <= m
                              /\ m = 0 \/ \E i \in DOMAIN list : list[i].pos = m) = n
<1> DEFINE Top(m) == /\ \A i \in DOMAIN list : list[i].pos <= m
                     /\ m = 0 \/ \E i \in DOMAIN list : list[i].pos = m
<1>0. DOMAIN list = 1..n /\ \A i \in 1..n : list[i].pos \in 1..n
  BY DEF Numbered
<1>1. Top(n)
  <2>1. \A i \in DOMAIN list : list[i].pos <= n
    BY <1>0
  <2>2. n = 0 \/ \E i \in DOMAIN list : list[i].pos = n
    <3>1. n = 0 \/ n \in 1..n
      OBVIOUS
    <3> QED
      BY <1>0, <3>1 DEF Numbered
  <2> QED
    BY <2>1, <2>2
<1>2. ASSUME NEW m \in 0..n, Top(m) PROVE m = n
  <2>1. CASE n = 0
    BY <2>1
  <2>2. CASE n # 0
    <3>1. n \in 1..n
      BY <2>2
    <3>2. PICK i \in 1..n : list[i].pos = n
      BY <3>1 DEF Numbered
    <3>3. n <= m
      BY <1>0, <1>2, <3>2
    <3> QED
      BY <3>3
  <2> QED
    BY <2>1, <2>2
<1>3. n \in 0..n
  OBVIOUS
<1> HIDE DEF Top
<1>4. (CHOOSE m \in 0..n : Top(m)) = n
  BY <1>1, <1>2, <1>3
<1> QED
  BY <1>4 DEF Top

\* Nothing is planned at first.
LEMMA PlansStart == PlansInit => PlansInv
<1> SUFFICES ASSUME PlansInit PROVE PlansInv
  OBVIOUS
<1>0. MaxPlan \in Nat /\ MaxBranchDepth \in Nat
  BY PlansAssumption
<1>1. PlanTree
  <2>1. [status |-> "none", parent |-> 0, depth |-> 0] \in PlanRow
    BY <1>0 DEF PlanRow
  <2>2. \A p \in PlanIds : p > 0
    BY <1>0 DEF PlanIds
  <2> QED
    BY <2>1, <2>2 DEF PlansInit, PlanTree
<1>2. PlanPhases
  <2>1. Numbered(<<>>, 0)
    BY DEF Numbered
  <2> QED
    BY <2>1 DEF PlansInit, PlanPhases
<1>3. PlanAnchors /\ PlanTerminals
  BY <1>0 DEF PlansInit, PlanAnchors, PlanTerminals, AttachedIsOpen
<1> QED
  BY <1>1, <1>2, <1>3 DEF PlansInv

\* A new plan comes after those there are, and after its parent.
LEMMA InsertKeepsTree ==
  ASSUME PlanTree, NEW p \in PlanIds, NEW parent \in 0..MaxPlan, parent < p,
         parent # 0 => plan[parent].status # "none",
         NEW depth \in 0..MaxBranchDepth, InsertPlan(p, parent, depth)
  PROVE  /\ PlanTree'
         /\ plan[p].status = "none" /\ plan'[p].status = "active" /\ plan'[p].parent = parent
         /\ \A q \in PlanIds \ {p} : plan'[q] = plan[q]
<1> DEFINE new == [status |-> "active", parent |-> parent, depth |-> depth]
<1>1. new \in PlanRow /\ new.status = "active" /\ new.parent = parent
  BY DEF PlanRow, OpenStatus
<1> HIDE DEF new
<1>2. plan' = [plan EXCEPT ![p] = new] /\ plan[p].status = "none"
      /\ \A q \in 1..(p - 1) : plan[q].status # "none"
  BY DEF InsertPlan, new
<1>3. plan' \in [PlanIds -> PlanRow] /\ plan'[p] = new /\ \A q \in PlanIds \ {p} : plan'[q] = plan[q]
  BY <1>1, <1>2 DEF PlanTree
<1>4. \A q \in PlanIds : plan'[q].parent < q
  BY <1>1, <1>3 DEF PlanTree
<1>5. ASSUME NEW q \in PlanIds, plan'[q].parent # 0
      PROVE  plan'[plan'[q].parent].status # "none"
  <2>1. plan'[q].parent \in PlanIds
    BY <1>3, <1>5, PlansAssumption DEF PlanRow, PlanIds
  <2>2. CASE q = p
    BY <1>1, <1>3, <1>5, <2>1, <2>2
  <2>3. CASE q # p
    BY <1>1, <1>3, <1>5, <2>1, <2>3 DEF PlanTree
  <2> QED
    BY <2>2, <2>3
<1>6. ASSUME NEW r \in PlanIds, NEW q \in PlanIds, q < r, plan'[r].status # "none"
      PROVE  plan'[q].status # "none"
  <2>1. CASE q = p
    BY <1>1, <1>3, <2>1
  <2>2. CASE q # p /\ r = p
    <3>1. q \in 1..(p - 1)
      BY <1>6, <2>2, PlansAssumption DEF PlanIds
    <3> QED
      BY <1>2, <1>3, <2>2, <3>1
  <2>3. CASE q # p /\ r # p
    BY <1>3, <1>6, <2>3 DEF PlanTree
  <2> QED
    BY <2>1, <2>2, <2>3
<1>7. PlanTree'
  BY <1>3, <1>4, <1>5, <1>6 DEF PlanTree
<1> QED
  BY <1>1, <1>2, <1>3, <1>7

\* A plan's phases are replaced.
LEMMA PhasesReplaced ==
  ASSUME PlanPhases, NEW p \in PlanIds, NEW list, NEW n \in Nat, Numbered(list, n),
         phase' = [phase EXCEPT ![p] = list],
         plan'[p].status = "completed" => AllFinished(list),
         \A q \in PlanIds \ {p} : plan'[q].status = plan[q].status
  PROVE  PlanPhases'
<1>1. DOMAIN phase' = PlanIds /\ phase'[p] = list /\ \A q \in PlanIds \ {p} : phase'[q] = phase[q]
  BY DEF PlanPhases
<1> QED
  BY <1>1 DEF PlanPhases

\* Phases are added and plans are opened; what branches cover stays.
LEMMA AnchorsStay ==
  ASSUME PlanTree, PlanAnchors, DOMAIN anchor' = PlanIds,
         \A q \in PlanIds : plan[q].status # "none" => DOMAIN phase[q] \subseteq DOMAIN phase'[q],
         \A q \in PlanIds : plan'[q].parent = 0 \/
            (plan'[q].parent = plan[q].parent /\ anchor'[q] = anchor[q])
  PROVE  PlanAnchors'
<1> SUFFICES ASSUME NEW q \in PlanIds, plan'[q].parent # 0
             PROVE  anchor'[q] \subseteq DOMAIN phase'[plan'[q].parent]
  BY DEF PlanAnchors, Phases
<1>1. plan'[q].parent = plan[q].parent /\ anchor'[q] = anchor[q]
  OBVIOUS
<1>2. plan[q].parent \in PlanIds /\ plan[plan[q].parent].status # "none"
  <2>1. plan[q].parent # 0 /\ plan[q].parent \in 0..MaxPlan
    BY <1>1 DEF PlanTree, PlanRow
  <2> QED
    BY <2>1, PlansAssumption DEF PlanTree, PlanIds
<1>3. anchor[q] \subseteq DOMAIN phase[plan[q].parent]
  BY <1>1 DEF PlanAnchors, Phases
<1> QED
  BY <1>1, <1>2, <1>3

\* A root plan is opened, by a terminal that attaches to it or by a person.
LEMMA OpenRoot ==
  ASSUME PlansInv, NEW p \in PlanIds, NEW n \in Nat, NEW b \in BOOLEAN,
         NEW want \in AskStatus \cup {"none"}, InsertPlan(p, 0, 0),
         phase' = [phase EXCEPT ![p] = InitialPhases(n, b, want)], UNCHANGED <<anchor, livePty>>,
         \/ att' = att
         \/ \E y \in Pty : att' = AttachIn(att, y, p)
  PROVE  PlansInv'
<1>0. PlanTree /\ PlanPhases /\ PlanAnchors /\ PlanTerminals
      /\ 0 \in 0..MaxPlan /\ 0 \in 0..MaxBranchDepth /\ 0 < p /\ p \in 0..MaxPlan
  BY PlansAssumption DEF PlansInv, PlanIds
<1>1. /\ PlanTree'
      /\ plan[p].status = "none" /\ plan'[p].status = "active" /\ plan'[p].parent = 0
      /\ \A q \in PlanIds \ {p} : plan'[q] = plan[q]
  BY <1>0, InsertKeepsTree
<1> DEFINE list == InitialPhases(n, b, want)
<1>2. Numbered(list, n)
  BY InitialNumbered
<1> HIDE DEF list
<1>3. phase' = [phase EXCEPT ![p] = list]
  BY DEF list
<1>4. PlanPhases'
  BY <1>0, <1>1, <1>2, <1>3, PhasesReplaced
<1>5. PlanAnchors'
  <2>1. DOMAIN anchor' = PlanIds
    BY <1>0 DEF PlanAnchors
  <2>2. \A q \in PlanIds : plan[q].status # "none" => DOMAIN phase[q] \subseteq DOMAIN phase'[q]
    BY <1>0, <1>1, <1>3 DEF PlanPhases
  <2>3. \A q \in PlanIds : plan'[q].parent = 0 \/
            (plan'[q].parent = plan[q].parent /\ anchor'[q] = anchor[q])
    BY <1>1
  <2> QED
    BY <1>0, <2>1, <2>2, <2>3, AnchorsStay
<1>6. PlanTerminals'
  <2>1. att' \in [Pty -> 0..MaxPlan] /\ \A z \in Pty : att'[z] = att[z] \/ att'[z] = p
    BY <1>0 DEF PlanTerminals, AttachIn
  <2>2. ASSUME NEW z \in Pty, att'[z] # 0 PROVE plan'[att'[z]].status \in OpenStatus
    <3>1. CASE att'[z] = p
      BY <1>1, <3>1 DEF OpenStatus
    <3>2. CASE att'[z] = att[z] /\ att[z] # p
      <4>1. plan[att[z]].status \in OpenStatus /\ att[z] \in PlanIds
        BY <1>0, <2>2, <3>2, PlansAssumption DEF PlanTerminals,
           AttachedIsOpen, IsOpen, PlanIds
      <4> QED
        BY <1>1, <3>2, <4>1
    <3> QED
      BY <2>1, <3>1, <3>2
  <2> QED
    BY <1>0, <2>1, <2>2 DEF PlanTerminals, AttachedIsOpen, IsOpen
<1> QED
  BY <1>1, <1>4, <1>5, <1>6 DEF PlansInv

\* The phases a branch is opened for are phases of its parent.
LEMMA AnchorsAreThere ==
  ASSUME NEW p \in PlanIds, NEW refs \in SUBSET Phases(p)
  PROVE  AnchorPhases(p, refs) \subseteq Phases(p)
BY DEF AnchorPhases, CurrentPhases

\* A branch is opened.
LEMMA OpenBranch ==
  ASSUME PlansInv, NEW parent \in PlanIds, NEW p \in PlanIds, NEW refs \in SUBSET Phases(parent),
         NEW n \in Nat, NEW who \in SUBSET Pty, Branch(parent, p, refs, n, who)
  PROVE  PlansInv'
<1>0. PlanTree /\ PlanPhases /\ PlanAnchors /\ PlanTerminals
  BY DEF PlansInv
<1> DEFINE depth == plan[parent].depth + 1
           anchors == AnchorPhases(parent, refs)
           old == StartAnchors(parent, anchors)
           list == InitialPhases(n, FALSE, "none")
<1>1. /\ plan[parent].status \in OpenStatus /\ depth <= MaxBranchDepth
      /\ InsertPlan(p, parent, depth)
      /\ phase' = [phase EXCEPT ![parent] = old, ![p] = list]
      /\ anchor' = [anchor EXCEPT ![p] = anchors]
      /\ att' = [y \in Pty |-> IF y \in who THEN p ELSE att[y]]
      /\ livePty' = livePty
  BY DEF Branch, IsOpen
<1>2. depth \in 0..MaxBranchDepth
  <2>1. plan[parent].depth \in 0..MaxBranchDepth
    BY <1>0 DEF PlanTree, PlanRow
  <2> QED
    BY <1>1, <2>1, PlansAssumption
<1>3. anchors \subseteq Phases(parent)
  BY AnchorsAreThere
<1>4. Numbered(list, n)
  BY InitialNumbered
<1>5. PICK k \in Nat : Numbered(phase[parent], k)
  BY <1>0 DEF PlanPhases
<1>6. Numbered(old, k) /\ DOMAIN old = DOMAIN phase[parent]
  <2>1. DOMAIN old = DOMAIN phase[parent]
    BY DEF StartAnchors, Phases
  <2>2. ASSUME NEW i \in DOMAIN phase[parent]
        PROVE  old[i] \in PhaseRow /\ old[i].pos = phase[parent][i].pos
    <3>1. phase[parent][i] \in PhaseRow
      BY <1>5 DEF Numbered
    <3>2. "in_progress" \in PhaseStatus
      BY DEF PhaseStatus
    <3>3. LET r == [phase[parent][i] EXCEPT !.status = "in_progress"]
          IN  r \in PhaseRow /\ r.pos = phase[parent][i].pos
      BY <3>1, <3>2 DEF PhaseRow
    <3>4. old[i] = phase[parent][i] \/ old[i] = [phase[parent][i] EXCEPT !.status = "in_progress"]
      BY DEF StartAnchors, Phases
    <3> QED
      BY <3>1, <3>3, <3>4
  <2> HIDE DEF old
  <2> QED
    BY <1>5, <2>1, <2>2, StatusKeepsNumbers
<1> HIDE DEF depth, anchors, old, list
<1>7. parent < p
  <2>1. plan[p].status = "none" /\ plan[parent].status # "none"
    BY <1>1 DEF InsertPlan, OpenStatus
  <2>2. parent # p /\ ~(p < parent)
    BY <1>0, <2>1 DEF PlanTree
  <2> QED
    BY <2>2, PlansAssumption DEF PlanIds
<1>8. /\ PlanTree'
      /\ plan[p].status = "none" /\ plan'[p].status = "active" /\ plan'[p].parent = parent
      /\ \A q \in PlanIds \ {p} : plan'[q] = plan[q]
  <2>1. parent \in 0..MaxPlan /\ plan[parent].status # "none"
    BY <1>1, PlansAssumption DEF PlanIds, OpenStatus
  <2> QED
    BY <1>0, <1>1, <1>2, <1>7, <2>1, InsertKeepsTree
<1>9. /\ DOMAIN phase' = PlanIds /\ phase'[p] = list /\ phase'[parent] = old
      /\ \A q \in PlanIds \ {p, parent} : phase'[q] = phase[q]
  <2>1. DOMAIN phase = PlanIds /\ parent # p
    BY <1>0, <1>7, PlansAssumption DEF PlanPhases, PlanIds
  <2> QED
    BY <1>1, <2>1
<1>10. PlanPhases'
  <2>1. plan'[p].status # "completed" /\ plan'[parent].status # "completed"
    BY <1>1, <1>7, <1>8, PlansAssumption DEF OpenStatus, PlanIds
  <2> QED
    BY <1>0, <1>4, <1>6, <1>8, <1>9, <2>1 DEF PlanPhases
<1>11. PlanAnchors'
  <2> SUFFICES ASSUME NEW q \in PlanIds, plan'[q].parent # 0
               PROVE  anchor'[q] \subseteq DOMAIN phase'[plan'[q].parent]
    BY <1>0, <1>1 DEF PlanAnchors, Phases
  <2>1. CASE q = p
    BY <1>0, <1>1, <1>3, <1>6, <1>8, <1>9, <2>1 DEF PlanAnchors, Phases
  <2>2. CASE q # p
    <3>1. anchor'[q] = anchor[q] /\ plan'[q].parent = plan[q].parent
      BY <1>0, <1>1, <1>8, <2>2 DEF PlanAnchors
    <3>2. anchor[q] \subseteq DOMAIN phase[plan[q].parent]
      BY <1>0, <3>1 DEF PlanAnchors, Phases
    <3>3. plan[q].parent \in PlanIds /\ plan[plan[q].parent].status # "none"
      BY <1>0, <3>1, PlansAssumption DEF PlanTree, PlanRow, PlanIds
    <3> QED
      BY <1>6, <1>8, <1>9, <3>1, <3>2, <3>3
  <2> QED
    BY <2>1, <2>2
<1>12. PlanTerminals'
  <2>1. att' \in [Pty -> 0..MaxPlan] /\ \A z \in Pty : att'[z] = att[z] \/ att'[z] = p
    BY <1>0, <1>1, PlansAssumption DEF PlanTerminals, PlanIds
  <2>2. ASSUME NEW z \in Pty, att'[z] # 0 PROVE plan'[att'[z]].status \in OpenStatus
    <3>1. CASE att'[z] = p
      BY <1>8, <3>1 DEF OpenStatus
    <3>2. CASE att'[z] = att[z] /\ att[z] # p
      <4>1. plan[att[z]].status \in OpenStatus /\ att[z] \in PlanIds
        BY <1>0, <2>2, <3>2, PlansAssumption DEF PlanTerminals,
           AttachedIsOpen, IsOpen, PlanIds
      <4> QED
        BY <1>8, <3>2, <4>1
    <3> QED
      BY <2>1, <3>1, <3>2
  <2> QED
    BY <1>0, <1>1, <2>1, <2>2 DEF PlanTerminals, AttachedIsOpen, IsOpen
<1> QED
  BY <1>8, <1>10, <1>11, <1>12 DEF PlansInv

\* A plan's own phases when it closes: numbered as before, and finished when
\* it is completed.
LEMMA OwnPhases ==
  ASSUME PlanPhases, NEW p \in PlanIds, NEW status, NEW skip \in BOOLEAN, NEW b \in BOOLEAN,
         ~UpdateRefused(p, status, skip, b), NEW own,
         own = IF status \in ClosedStatus /\ skip THEN SkipRemaining(phase[p]) ELSE phase[p]
  PROVE  /\ \E n \in Nat : Numbered(own, n)
         /\ DOMAIN own = DOMAIN phase[p]
         /\ status = "completed" => AllFinished(own)
<1>1. PICK n \in Nat : Numbered(phase[p], n)
  BY DEF PlanPhases
<1>2. CASE status \in ClosedStatus /\ skip
  <2>0. own = SkipRemaining(phase[p])
    BY <1>2
  <2>1. DOMAIN own = DOMAIN phase[p]
    BY <2>0 DEF SkipRemaining
  <2>2. ASSUME NEW i \in DOMAIN phase[p]
        PROVE  own[i] \in PhaseRow /\ own[i].pos = phase[p][i].pos /\ own[i].status \in Finished
    <3>1. phase[p][i] \in PhaseRow
      BY <1>1 DEF Numbered
    <3>2. "skipped" \in PhaseStatus /\ "skipped" \in Finished
      BY DEF PhaseStatus, Finished
    <3>3. LET r == [phase[p][i] EXCEPT !.status = "skipped"]
          IN  r \in PhaseRow /\ r.pos = phase[p][i].pos /\ r.status = "skipped"
      BY <3>1, <3>2 DEF PhaseRow
    <3>4. \/ own[i] = phase[p][i] /\ phase[p][i].status \in Finished
          \/ own[i] = [phase[p][i] EXCEPT !.status = "skipped"]
      BY <2>0 DEF SkipRemaining
    <3> QED
      BY <3>1, <3>2, <3>3, <3>4
  <2>3. Numbered(own, n)
    BY <1>1, <2>1, <2>2, StatusKeepsNumbers
  <2>4. AllFinished(own)
    BY <2>1, <2>2 DEF AllFinished
  <2> QED
    BY <2>1, <2>3, <2>4
<1>3. CASE ~(status \in ClosedStatus /\ skip)
  <2>1. own = phase[p]
    BY <1>3
  <2>2. status = "completed" => AllFinished(own)
    BY <1>3, <2>1 DEF UpdateRefused, AllFinished, Phases, ClosedStatus
  <2> QED
    BY <1>1, <2>1, <2>2
<1> QED
  BY <1>2, <1>3

\* The parent's phases are released, which leaves their numbering.
LEMMA ReleasedPhases ==
  ASSUME PlanPhases, NEW p \in PlanIds, plan[p].parent \in PlanIds, NEW status
  PROVE  /\ \E n \in Nat : Numbered(ReleaseAnchors(p, status), n)
         /\ DOMAIN ReleaseAnchors(p, status) = DOMAIN phase[plan[p].parent]
<1> DEFINE rows1 == phase[plan[p].parent]
           new == ReleaseAnchors(p, status)
<1>1. PICK n \in Nat : Numbered(rows1, n)
  BY DEF PlanPhases
<1>2. DOMAIN new = DOMAIN rows1
  BY DEF ReleaseAnchors, Phases
<1>3. ASSUME NEW i \in DOMAIN rows1
      PROVE  new[i] \in PhaseRow /\ new[i].pos = rows1[i].pos
  <2>1. rows1[i] \in PhaseRow
    BY <1>1 DEF Numbered
  <2>2. "in_progress" \in PhaseStatus
    BY DEF PhaseStatus
  <2>3. LET r == [rows1[i] EXCEPT !.status = "in_progress"]
        IN  r \in PhaseRow /\ r.pos = rows1[i].pos
    BY <2>1, <2>2 DEF PhaseRow
  <2>4. new[i] = rows1[i] \/ new[i] = [rows1[i] EXCEPT !.status = "in_progress"]
    BY DEF ReleaseAnchors, Phases
  <2> QED
    BY <2>1, <2>3, <2>4
<1> HIDE DEF rows1, new
<1>4. Numbered(new, n)
  BY <1>1, <1>2, <1>3, StatusKeepsNumbers
<1> QED
  BY <1>2, <1>4 DEF rows1, new

\* Terminals leave a closing plan for its open parent or for none.
LEMMA PoppedTerminals ==
  ASSUME PlanTree, PlanTerminals, NEW p \in PlanIds
  PROVE  /\ PopTerminals(p) \in [Pty -> 0..MaxPlan]
         /\ \A y \in Pty : LET a == PopTerminals(p)[y] IN
              a = 0 \/ (a \in PlanIds \ {p} /\ plan[a].status \in OpenStatus)
<1> DEFINE new == PopTerminals(p)
<1>0. plan[p].parent \in 0..MaxPlan /\ plan[p].parent # p
  BY PlansAssumption DEF PlanTree, PlanRow, PlanIds
<1>1. ASSUME NEW y \in Pty
      PROVE  new[y] = 0 \/ (new[y] \in PlanIds \ {p} /\ plan[new[y]].status \in OpenStatus)
  <2>1. CASE att[y] # p
    <3>1. new[y] = att[y]
      BY <2>1 DEF PopTerminals
    <3>2. att[y] \in 0..MaxPlan
      BY DEF PlanTerminals
    <3>3. att[y] # 0 => att[y] \in PlanIds
      BY <3>2, PlansAssumption DEF PlanIds
    <3> QED
      BY <2>1, <3>1, <3>3 DEF PlanTerminals, AttachedIsOpen, IsOpen
  <2>2. CASE att[y] = p /\ plan[p].parent # 0 /\ IsOpen(plan[p].parent) /\ y \in livePty
    <3>1. new[y] = plan[p].parent
      BY <2>2 DEF PopTerminals
    <3>2. plan[p].parent \in PlanIds
      BY <1>0, <2>2, PlansAssumption DEF PlanIds
    <3> QED
      BY <1>0, <2>2, <3>1, <3>2 DEF IsOpen
  <2>3. CASE att[y] = p /\ ~(plan[p].parent # 0 /\ IsOpen(plan[p].parent) /\ y \in livePty)
    BY <2>3 DEF PopTerminals
  <2> QED
    BY <2>1, <2>2, <2>3
<1>2. \A y \in Pty : new[y] \in 0..MaxPlan
  BY <1>1, PlansAssumption DEF PlanIds
<1>3. new \in [Pty -> 0..MaxPlan]
  BY <1>2 DEF PopTerminals
<1> QED
  BY <1>1, <1>3

\* A plan's status is changed, with what closing it does to its phases, to
\* its parent and to its terminals.
LEMMA UpdateKeeps ==
  ASSUME PlansInv, NEW p \in PlanIds, NEW status \in OpenStatus \cup ClosedStatus,
         NEW skip \in BOOLEAN, NEW b \in BOOLEAN, Update(p, status, skip, b)
  PROVE  PlansInv'
<1>0. PlanTree /\ PlanPhases /\ PlanAnchors /\ PlanTerminals
  BY DEF PlansInv
<1> DEFINE own == IF status \in ClosedStatus /\ skip THEN SkipRemaining(phase[p]) ELSE phase[p]
           parent == plan[p].parent
           released == status \in ClosedStatus /\ parent # 0 /\ IsOpen(parent)
<1>1. /\ plan[p].status # "none" /\ ~UpdateRefused(p, status, skip, b)
      /\ plan' = [plan EXCEPT ![p] = [plan[p] EXCEPT !.status = status]]
      /\ released => phase' = [phase EXCEPT ![p] = own, ![parent] = ReleaseAnchors(p, status)]
      /\ ~released => phase' = [phase EXCEPT ![p] = own]
      /\ status \in ClosedStatus => att' = PopTerminals(p)
      /\ status \notin ClosedStatus => att' = att
      /\ UNCHANGED <<anchor, livePty>>
  BY DEF Update
<1>2. (\E n \in Nat : Numbered(own, n)) /\ DOMAIN own = DOMAIN phase[p]
      /\ (status = "completed" => AllFinished(own))
  BY <1>0, <1>1, OwnPhases
<1>3. parent \in 0..MaxPlan /\ parent # p /\ (parent # 0 => parent \in PlanIds)
  BY <1>0, PlansAssumption DEF PlanTree, PlanRow, PlanIds
<1>4. released => (\E n \in Nat : Numbered(ReleaseAnchors(p, status), n))
                   /\ DOMAIN ReleaseAnchors(p, status) = DOMAIN phase[parent]
  BY <1>0, <1>3, ReleasedPhases
<1>5. released => plan[parent].status \in OpenStatus
  BY DEF IsOpen
<1> HIDE DEF own
<1>6. /\ plan' \in [PlanIds -> PlanRow] /\ plan'[p].status = status /\ plan'[p].parent = parent
      /\ \A q \in PlanIds \ {p} : plan'[q] = plan[q]
  <2>1. LET r == [plan[p] EXCEPT !.status = status]
        IN  r \in PlanRow /\ r.status = status /\ r.parent = parent
    BY <1>0 DEF PlanTree, PlanRow
  <2> QED
    BY <1>0, <1>1, <2>1 DEF PlanTree
<1> HIDE DEF released, parent
<1>7. status # "none"
  BY DEF OpenStatus, ClosedStatus
<1>8. \A q \in PlanIds : plan'[q].parent = plan[q].parent
                         /\ (plan'[q].status # "none" <=> plan[q].status # "none")
  BY <1>1, <1>6, <1>7 DEF parent
<1>9. PlanTree'
  <2>1. \A q \in PlanIds : plan'[q].parent < q
    BY <1>0, <1>8 DEF PlanTree
  <2>2. ASSUME NEW q \in PlanIds, plan'[q].parent # 0
        PROVE  plan'[plan'[q].parent].status # "none"
    <3>1. plan[q].parent \in PlanIds /\ plan[plan[q].parent].status # "none"
      BY <1>0, <1>8, <2>2, PlansAssumption DEF PlanTree, PlanRow, PlanIds
    <3> QED
      BY <1>8, <3>1
  <2>3. \A r, q \in PlanIds : q < r /\ plan'[r].status # "none" => plan'[q].status # "none"
    BY <1>0, <1>8 DEF PlanTree
  <2> QED
    BY <1>6, <2>1, <2>2, <2>3 DEF PlanTree
<1>10. /\ DOMAIN phase' = PlanIds /\ phase'[p] = own
       /\ \A q \in PlanIds \ {p} : \/ phase'[q] = phase[q]
                                   \/ released /\ q = parent /\ phase'[q] = ReleaseAnchors(p, status)
  BY <1>0, <1>1, <1>3 DEF PlanPhases
<1>11. PlanPhases'
  <2> SUFFICES ASSUME NEW q \in PlanIds
               PROVE  /\ \E n \in Nat : Numbered(phase'[q], n)
                      /\ plan'[q].status = "completed" => AllFinished(phase'[q])
    BY <1>10 DEF PlanPhases
  <2>1. CASE q = p
    BY <1>2, <1>6, <1>10, <2>1
  <2>2. CASE q # p /\ phase'[q] = phase[q]
    BY <1>0, <1>6, <2>2 DEF PlanPhases
  <2>3. CASE q # p /\ released /\ q = parent /\ phase'[q] = ReleaseAnchors(p, status)
    BY <1>4, <1>5, <1>6, <2>3 DEF OpenStatus
  <2> QED
    BY <1>10, <2>1, <2>2, <2>3
<1>12. PlanAnchors'
  <2>1. \A q \in PlanIds : DOMAIN phase'[q] = DOMAIN phase[q]
    BY <1>2, <1>4, <1>10
  <2> QED
    BY <1>0, <1>1, <1>8, <2>1, AnchorsStay DEF PlanAnchors
<1>13. PlanTerminals'
  <2>1. CASE status \in ClosedStatus
    <3>1. att' \in [Pty -> 0..MaxPlan]
          /\ \A y \in Pty : att'[y] = 0 \/ (att'[y] \in PlanIds \ {p} /\ plan[att'[y]].status \in OpenStatus)
      BY <1>0, <1>1, <2>1, PoppedTerminals
    <3> QED
      BY <1>0, <1>1, <1>6, <3>1 DEF PlanTerminals, AttachedIsOpen, IsOpen
  <2>2. CASE status \notin ClosedStatus
    <3>1. att' = att /\ status \in OpenStatus
      BY <1>1, <2>2
    <3>2. ASSUME NEW y \in Pty, att[y] # 0 PROVE plan'[att[y]].status \in OpenStatus
      <4>1. att[y] \in PlanIds /\ plan[att[y]].status \in OpenStatus
        BY <1>0, <3>2, PlansAssumption DEF PlanTerminals, AttachedIsOpen,
           IsOpen, PlanIds
      <4> QED
        BY <1>6, <3>1, <4>1
    <3> QED
      BY <1>0, <1>1, <3>1, <3>2 DEF PlanTerminals, AttachedIsOpen, IsOpen
  <2> QED
    BY <2>1, <2>2
<1> QED
  BY <1>9, <1>11, <1>12, <1>13 DEF PlansInv

\* The phases of an open plan are replaced by as many or more.
LEMMA OpenPlanEdited ==
  ASSUME PlansInv, NEW p \in PlanIds, IsOpen(p), NEW list, NEW n \in Nat, Numbered(list, n),
         DOMAIN phase[p] \subseteq DOMAIN list, phase' = [phase EXCEPT ![p] = list],
         UNCHANGED <<plan, anchor, att, livePty>>
  PROVE  PlansInv'
<1>0. PlanTree /\ PlanPhases /\ PlanAnchors /\ PlanTerminals
  BY DEF PlansInv
<1>1. plan[p].status # "completed"
  BY DEF IsOpen, OpenStatus
<1>2. PlanPhases'
  BY <1>0, <1>1, PhasesReplaced
<1>3. PlanAnchors'
  <2>1. \A q \in PlanIds : DOMAIN phase[q] \subseteq DOMAIN phase'[q]
    BY <1>0 DEF PlanPhases
  <2>2. DOMAIN anchor' = PlanIds
    BY <1>0 DEF PlanAnchors
  <2> QED
    BY <1>0, <2>1, <2>2, AnchorsStay
<1>4. PlanTree' /\ PlanTerminals'
  BY <1>0 DEF PlanTree, PlanTerminals, AttachedIsOpen, IsOpen
<1> QED
  BY <1>2, <1>3, <1>4 DEF PlansInv

\* A phase is added.
LEMMA AddKeeps ==
  ASSUME PlansInv, NEW p \in PlanIds, NEW st \in PhaseStatus, AddPhase(p, st)
  PROVE  PlansInv'
<1>1. PICK n \in Nat : Numbered(phase[p], n)
  BY DEF PlansInv, PlanPhases
<1>2. Cardinality(DOMAIN phase[p]) = n /\ DOMAIN phase[p] = 1..n
  BY <1>1, NumberedIsDense DEF Numbered
<1>3. (CHOOSE m \in 0..n : /\ \A i \in DOMAIN phase[p] : phase[p][i].pos <= m
                           /\ m = 0 \/ \E i \in DOMAIN phase[p] : phase[p][i].pos = m) = n
  BY <1>1, TopIsLast
<1>4. IsOpen(p) /\ UNCHANGED <<plan, anchor, att, livePty>>
      /\ phase' = [phase EXCEPT ![p] = Longer(phase[p], n, st)]
  <2> DEFINE c == Cardinality(DOMAIN phase[p])
             top == CHOOSE m \in 0..c : /\ \A i \in DOMAIN phase[p] : phase[p][i].pos <= m
                                        /\ m = 0 \/ \E i \in DOMAIN phase[p] : phase[p][i].pos = m
  <2>1. /\ IsOpen(p) /\ UNCHANGED <<plan, anchor, att, livePty>>
        /\ phase' = [phase EXCEPT ![p] =
              [i \in 1..(c + 1) |-> IF i \in DOMAIN phase[p] THEN phase[p][i]
                                    ELSE [pos |-> top + 1, status |-> st]]]
    BY DEF AddPhase, Phases
  <2>2. c = n
    BY <1>2
  <2>3. top = n
    BY <1>3, <2>2
  <2> HIDE DEF c, top
  <2> QED
    BY <1>2, <2>1, <2>2, <2>3 DEF Longer
<1>5. Numbered(Longer(phase[p], n, st), n + 1) /\ n + 1 \in Nat
      /\ DOMAIN Longer(phase[p], n, st) = 1..(n + 1)
  BY <1>1, AddKeepsNumbers DEF Longer
<1>6. 1..n \subseteq 1..(n + 1)
  OBVIOUS
<1> QED
  BY <1>2, <1>4, <1>5, <1>6, OpenPlanEdited

\* A phase is moved and given a status.
LEMMA EditKeeps ==
  ASSUME PlansInv, NEW p \in PlanIds, NEW i \in Phases(p), NEW st \in PhaseStatus,
         NEW wanted \in Int, UpdatePhase(p, i, st, wanted)
  PROVE  PlansInv'
<1> DEFINE moved == MovePhase(phase[p], i, wanted)
           new == [moved EXCEPT ![i] = [moved[i] EXCEPT !.status = st]]
<1>1. PICK n \in Nat : Numbered(phase[p], n)
  BY DEF PlansInv, PlanPhases
<1>2. DOMAIN phase[p] = 1..n /\ i \in 1..n
  BY <1>1 DEF Numbered, Phases
<1>3. Numbered(moved, n)
  BY <1>1, <1>2, MoveKeepsNumbers
<1>4. IsOpen(p) /\ UNCHANGED <<plan, anchor, att, livePty>> /\ phase' = [phase EXCEPT ![p] = new]
  BY DEF UpdatePhase
<1> HIDE DEF moved
<1>5. DOMAIN moved = 1..n /\ \A j \in 1..n : moved[j] \in PhaseRow
  BY <1>3 DEF Numbered
<1>6. LET r == [moved[i] EXCEPT !.status = st] IN r \in PhaseRow /\ r.pos = moved[i].pos
  BY <1>2, <1>5 DEF PhaseRow
<1>7. DOMAIN new = DOMAIN moved /\ \A j \in DOMAIN moved : new[j] \in PhaseRow /\ new[j].pos = moved[j].pos
  BY <1>2, <1>5, <1>6
<1> HIDE DEF new
<1>8. Numbered(new, n)
  BY <1>3, <1>7, StatusKeepsNumbers
<1> QED
  BY <1>2, <1>4, <1>5, <1>7, <1>8, OpenPlanEdited

\* A terminal is attached, detached or ends.
LEMMA TerminalKeeps ==
  ASSUME PlansInv, NEW y \in Pty, NEW p \in PlanIds, Attach(p, y) \/ Detach(p, y) \/ PtyEnds(y)
  PROVE  PlansInv'
<1>0. PlanTree /\ PlanPhases /\ PlanAnchors /\ PlanTerminals /\ p \in 0..MaxPlan
        /\ 0 \in 0..MaxPlan
  BY PlansAssumption DEF PlansInv, PlanIds
<1>1. UNCHANGED <<plan, phase, anchor>>
  BY DEF Attach, Detach, PtyEnds
<1>2. PlanTree' /\ PlanPhases' /\ PlanAnchors'
  BY <1>0, <1>1 DEF PlanTree, PlanPhases, PlanAnchors, Phases
<1>3. PlanTerminals'
  <2>1. CASE Attach(p, y)
    BY <1>0, <2>1 DEF Attach, AttachIn, PlanTerminals, AttachedIsOpen, IsOpen
  <2>2. CASE Detach(p, y)
    BY <1>0, <2>2 DEF Detach, PlanTerminals, AttachedIsOpen, IsOpen
  <2>3. CASE PtyEnds(y)
    BY <1>0, <2>3 DEF PtyEnds, PlanTerminals, AttachedIsOpen, IsOpen
  <2> QED
    BY <2>1, <2>2, <2>3
<1> QED
  BY <1>2, <1>3 DEF PlansInv

\* What a person asks for keeps the plans in order.
LEMMA RouteKeeps == PlansInv /\ HttpRoute => PlansInv'
<1> SUFFICES ASSUME PlansInv, HttpRoute PROVE PlansInv'
  OBVIOUS
<1>0. \A q \in PlanIds : PhaseRoom[q] \in Nat
  BY PlansAssumption
<1>1. ASSUME NEW p \in PlanIds, NEW b \in BOOLEAN, CreateByUser(p, PhaseRoom[p], b) PROVE PlansInv'
  <2>1. "none" \in AskStatus \cup {"none"} /\ PhaseRoom[p] \in Nat
    BY <1>0
  <2>2. /\ InsertPlan(p, 0, 0) /\ phase' = [phase EXCEPT ![p] = InitialPhases(PhaseRoom[p], b, "none")]
        /\ UNCHANGED <<anchor, livePty>> /\ att' = att
    BY <1>1 DEF CreateByUser
  <2> QED
    BY <2>1, <2>2, OpenRoot
<1>2. ASSUME NEW p \in PlanIds, NEW new \in PlanIds, NEW refs \in {{i} : i \in Phases(p)},
             Branch(p, new, refs, 1, {})
      PROVE  PlansInv'
  <2>1. refs \in SUBSET Phases(p) /\ {} \in SUBSET Pty /\ 1 \in Nat
    OBVIOUS
  <2> QED
    BY <1>2, <2>1, OpenBranch
<1>3. ASSUME NEW p \in PlanIds, NEW a \in PatchArgs, Update(p, a.status, a.skip, a.branch)
      PROVE  PlansInv'
  <2>1. a.status \in OpenStatus \cup ClosedStatus /\ a.skip \in BOOLEAN /\ a.branch \in BOOLEAN
    BY PlansAssumption DEF PatchArgs
  <2> QED
    BY <1>3, <2>1, UpdateKeeps
<1>4. ASSUME NEW p \in PlanIds, NEW s \in AskStatus, AddPhase(p, s) PROVE PlansInv'
  BY <1>4, AddKeeps, PlansAssumption
<1>5. ASSUME NEW p \in PlanIds, NEW i \in Phases(p), NEW w \in 0..(PhaseRoom[p] + 1),
             UpdatePhase(p, i, phase[p][i].status, w)
      PROVE  PlansInv'
  <2>1. w \in Int
    BY <1>0
  <2>2. phase[p][i].status \in PhaseStatus
    <3>1. phase[p][i] \in PhaseRow
      BY DEF PlansInv, PlanPhases, Numbered, Phases
    <3> QED
      BY <3>1 DEF PhaseRow
  <2> QED
    BY <1>5, <2>1, <2>2, EditKeeps
<1>6. ASSUME NEW p \in PlanIds, NEW y \in Pty, Attach(p, y) \/ Detach(p, y) PROVE PlansInv'
  BY <1>6, TerminalKeeps
<1> QED
  BY <1>1, <1>2, <1>3, <1>4, <1>5, <1>6 DEF HttpRoute

\* What a terminal asks for keeps the plans in order.
LEMMA DispatchKeeps ==
  ASSUME PlansInv, NEW y \in Pty, Dispatch(y)
  PROVE  PlansInv'
<1>0. \A q \in PlanIds : PhaseRoom[q] \in Nat
  BY PlansAssumption
<1>1. ASSUME NEW p \in PlanIds, NEW s \in AskStatus \cup {"none"}, Start(y, p, 1, FALSE, s)
      PROVE  PlansInv'
  <2>1. /\ InsertPlan(p, 0, 0) /\ phase' = [phase EXCEPT ![p] = InitialPhases(1, FALSE, s)]
        /\ UNCHANGED <<anchor, livePty>> /\ att' = AttachIn(att, y, p)
    BY <1>1 DEF Start
  <2> QED
    BY <2>1, OpenRoot
<1>2. ASSUME NEW named \in 0..MaxPlan, NEW p \in PlansOf(y, named) PROVE p \in PlanIds
  <2>1. att[y] \in 0..MaxPlan
    BY DEF PlansInv, PlanTerminals
  <2>2. p \in PlanIds \/ (p = att[y] /\ p # 0)
    BY <1>2 DEF PlansOf
  <2> QED
    BY <2>1, <2>2, PlansAssumption DEF PlanIds
<1>3. ASSUME NEW p \in PlanIds, NEW new \in PlanIds, NEW refs \in {{}} \cup {{i} : i \in Phases(p)},
             Branch(p, new, refs, 1, {y})
      PROVE  PlansInv'
  <2>1. refs \in SUBSET Phases(p) /\ {y} \in SUBSET Pty /\ 1 \in Nat
    OBVIOUS
  <2> QED
    BY <1>3, <2>1, OpenBranch
<1>4. ASSUME NEW p \in PlanIds, NEW a \in StatusArgs \cup CloseArgs \cup ReturnArgs,
             Update(p, a.status, a.skip, a.branch)
      PROVE  PlansInv'
  <2>1. a.status \in OpenStatus \cup ClosedStatus /\ a.skip \in BOOLEAN /\ a.branch \in BOOLEAN
    BY PlansAssumption DEF StatusArgs, CloseArgs, ReturnArgs
  <2> QED
    BY <1>4, <2>1, UpdateKeeps
<1>5. ASSUME NEW p \in PlanIds, NEW s \in AskStatus, AddPhase(p, s) PROVE PlansInv'
  BY <1>5, AddKeeps, PlansAssumption
<1>6. ASSUME NEW p \in PlanIds, NEW at \in 1..PhaseRoom[p], NEW s \in AskStatus,
             NEW i \in PhaseAt(p, at), UpdatePhase(p, i, s, at)
      PROVE  PlansInv'
  <2>1. i \in Phases(p) /\ at \in Int /\ s \in PhaseStatus
    BY <1>0, PlansAssumption DEF PhaseAt
  <2> QED
    BY <1>6, <2>1, EditKeeps
<1>7. ASSUME NEW p \in PlanIds, Attach(p, y) \/ Detach(p, y) PROVE PlansInv'
  BY <1>7, TerminalKeeps
<1> QED
  BY <1>1, <1>2, <1>3, <1>4, <1>5, <1>6, <1>7 DEF Dispatch

\* Every step keeps the plans in order.
LEMMA PlansStep == PlansInv /\ [PlansNext]_planVars => PlansInv'
<1> SUFFICES ASSUME PlansInv, [PlansNext]_planVars PROVE PlansInv'
  OBVIOUS
<1>1. CASE HttpRoute
  BY <1>1, RouteKeeps
<1>2. ASSUME NEW y \in Pty, Dispatch(y) PROVE PlansInv'
  BY <1>2, DispatchKeeps
<1>3. ASSUME NEW y \in Pty, PtyEnds(y) PROVE PlansInv'
  BY <1>3 DEF PtyEnds, PlansInv, PlanTree, PlanPhases, PlanAnchors, Phases,
     PlanTerminals,
              AttachedIsOpen, IsOpen
<1>4. CASE UNCHANGED planVars
  BY <1>4 DEF planVars, PlansInv, PlanTree, PlanPhases, PlanAnchors, Phases,
     PlanTerminals,
              AttachedIsOpen, IsOpen
<1> QED
  BY <1>1, <1>2, <1>3, <1>4 DEF PlansNext

\* While plans are in focus, steps are theirs.
LEMMA PlansFocus ==
  ASSUME [Next]_workbenchVars, focus' = "plans"
  PROVE  focus = "plans" /\ [PlansNext]_planVars
BY DEF Next, OthersRest, workbenchVars

\* A completed plan is finished, terminals work on open plans, and positions
\* have neither hole nor repetition: for any number of plans, phases and
\* terminals, any depth of branches and any order of requests.
THEOREM PlansAreConsistent == Spec => []PlansConsistent
<1> DEFINE Inv == focus = "plans" => PlansInv
<1>1. Init => Inv
  BY PlansStart DEF Init
<1>2. Inv /\ [Next]_workbenchVars => Inv'
  BY PlansFocus, PlansStep
<1>3. Inv => PlansConsistent
  <2> SUFFICES ASSUME PlansInv PROVE CompletedIsFinished /\ AttachedIsOpen /\ PositionsDense
    BY DEF PlansConsistent
  <2>1. CompletedIsFinished
    BY DEF PlansInv, PlanPhases, CompletedIsFinished, AllFinished, Phases
  <2>2. AttachedIsOpen
    BY DEF PlansInv, PlanTerminals
  <2>3. ASSUME NEW p \in PlanIds
        PROVE  {phase[p][i].pos : i \in Phases(p)} = 1..Cardinality(Phases(p))
    <3>1. PICK n \in Nat : Numbered(phase[p], n)
      BY DEF PlansInv, PlanPhases
    <3> QED
      BY <3>1, NumberedIsDense DEF Phases
  <2>4. PositionsDense
    BY <2>3, Zenon DEF PositionsDense
  <2> QED
    BY <2>1, <2>2, <2>4
<1> QED
  BY <1>1, <1>2, <1>3, PTL DEF Spec

-----------------------------------------------------------------------------
(* Enrollment.                                                             *)

CtlRow == [step : CtlStep, key : Ctl \cup {NoCtl}, cert : Cert \cup {NoCert}, rel : 0 .. MaxRelease]

EnrollTypes ==
  /\ idRow \in Ctl \cup {NoCtl} /\ tlsRow \in Cert \cup {NoCert}
  /\ ctl \in [Ctl -> CtlRow] /\ release \in 1 .. MaxRelease

\* A process that is past the first statement holds the stored identity, and
\* one in service the stored certificate.
Agreed ==
  \A p \in Ctl :
    /\ ctl[p].step # "down" => ctl[p].rel = release
    /\ ctl[p].step = "newId" => Keyed(p)
    /\ ctl[p].step \notin {"down", "newId"} /\ Keyed(p) => ctl[p].key = idRow /\ idRow # NoCtl
    /\ ctl[p].step = "up" => ctl[p].cert = tlsRow /\ tlsRow.sans = release

EnrollInv == EnrollTypes /\ Agreed

\* The rows are empty at first.
LEMMA EnrollStarts == EnrollInit => EnrollInv
<1> SUFFICES ASSUME EnrollInit PROVE EnrollInv
  OBVIOUS
<1>1. Down \in CtlRow /\ Down.step = "down"
  BY EnrollAssumption DEF Down, CtlRow, CtlStep
<1> QED
  BY <1>1, EnrollAssumption DEF EnrollInit, EnrollInv, EnrollTypes, Agreed

\* Every step of control and of the node keeps the agreement.
LEMMA EnrollStep == EnrollInv /\ [EnrollNext]_enrollVars => EnrollInv'
<1> SUFFICES ASSUME EnrollInv, [EnrollNext]_enrollVars PROVE EnrollInv'
  OBVIOUS
<1>0. EnrollTypes /\ Agreed
  BY DEF EnrollInv
<1>d. Down \in CtlRow /\ Down.step = "down"
  BY EnrollAssumption DEF Down, CtlRow, CtlStep
<1>f. UNCHANGED <<idRow, tlsRow, ctl, release>> => EnrollInv'
  BY <1>0 DEF EnrollInv, EnrollTypes, Agreed, Keyed
\* A step of one process that leaves the rows alone.
<1>o. ASSUME NEW p \in Ctl, NEW row1 \in CtlRow, ctl' = [ctl EXCEPT ![p] = row1],
             UNCHANGED <<idRow, tlsRow, release>>,
             row1.step # "down" => row1.rel = release,
             row1.step = "newId" => row1.rel >= FirstKeyed,
             row1.step \notin {"down", "newId"} /\ row1.rel >= FirstKeyed =>
                row1.key = idRow /\ idRow # NoCtl,
             row1.step = "up" => row1.cert = tlsRow /\ tlsRow.sans = release
      PROVE  EnrollInv'
  <2>1. ctl' \in [Ctl -> CtlRow] /\ ctl'[p] = row1 /\ \A q \in Ctl \ {p} : ctl'[q] = ctl[q]
    BY <1>0, <1>o DEF EnrollTypes
  <2>2. EnrollTypes'
    BY <1>0, <1>o, <2>1 DEF EnrollTypes
  <2>3. ASSUME NEW q \in Ctl
        PROVE  /\ ctl'[q].step # "down" => ctl'[q].rel = release
               /\ ctl'[q].step = "newId" => ctl'[q].rel >= FirstKeyed
               /\ ctl'[q].step \notin {"down", "newId"} /\ ctl'[q].rel >= FirstKeyed =>
                     ctl'[q].key = idRow /\ idRow # NoCtl
               /\ ctl'[q].step = "up" => ctl'[q].cert = tlsRow /\ tlsRow.sans = release
    <3>1. CASE q = p
      BY <1>o, <2>1, <3>1
    <3>2. CASE q # p
      BY <1>0, <2>1, <3>2 DEF Agreed, Keyed
    <3> QED
      BY <3>1, <3>2
  <2>4. Agreed'
    BY <1>o, <2>3 DEF Agreed, Keyed
  <2> QED
    BY <2>2, <2>4 DEF EnrollInv
<1>1. ASSUME NEW p \in Ctl, StartControl(p) PROVE EnrollInv'
  <2> DEFINE new == [Down EXCEPT
                  !.rel = release, !.key = IF release >= FirstKeyed THEN idRow ELSE NoCtl,
                  !.step = IF release >= FirstKeyed /\ idRow = NoCtl THEN "newId" ELSE "tls"]
  <2>1. ctl' = [ctl EXCEPT ![p] = new] /\ UNCHANGED <<idRow, tlsRow, release>>
    BY <1>1 DEF StartControl
  <2>2. "newId" \in CtlStep /\ "tls" \in CtlStep
    BY DEF CtlStep
  <2>3. release \in 0 .. MaxRelease /\ release \in Nat /\ FirstKeyed \in Nat
    BY <1>0, EnrollAssumption DEF EnrollTypes
  <2>4. new \in CtlRow
    BY <1>0, <1>d, <2>2, <2>3 DEF CtlRow, EnrollTypes
  <2>5. /\ new.rel = release
        /\ new.key = IF release >= FirstKeyed THEN idRow ELSE NoCtl
        /\ new.step = IF release >= FirstKeyed /\ idRow = NoCtl THEN "newId" ELSE "tls"
    BY <1>d DEF CtlRow
  <2> HIDE DEF new
  <2> QED
    BY <1>o, <2>1, <2>4, <2>5
<1>2. ASSUME NEW p \in Ctl, MakeIdentity(p) PROVE EnrollInv'
  <2> DEFINE new == [ctl[p] EXCEPT !.key = InsertId(p), !.step = "tls"]
  <2>1. /\ ctl[p].step = "newId" /\ idRow' = InsertId(p) /\ ctl' = [ctl EXCEPT ![p] = new]
        /\ UNCHANGED <<tlsRow, release>>
    BY <1>0, <1>2 DEF MakeIdentity, EnrollTypes
  <2>2. /\ InsertId(p) \in Ctl \cup {NoCtl} /\ InsertId(p) # NoCtl
        /\ idRow # NoCtl => InsertId(p) = idRow
    BY <1>0, EnrollAssumption DEF InsertId, EnrollTypes
  <2>3. "tls" \in CtlStep
    BY DEF CtlStep
  <2>4. new \in CtlRow /\ new.key = InsertId(p) /\ new.step = "tls" /\ new.rel = ctl[p].rel
    BY <1>0, <2>2, <2>3 DEF EnrollTypes, CtlRow
  <2> HIDE DEF new
  <2>5. ctl' \in [Ctl -> CtlRow] /\ ctl'[p] = new /\ \A q \in Ctl \ {p} : ctl'[q] = ctl[q]
    BY <1>0, <2>1, <2>4 DEF EnrollTypes
  <2>6. EnrollTypes'
    BY <1>0, <2>1, <2>2, <2>5 DEF EnrollTypes
  <2>7. Agreed'
    BY <1>0, <2>1, <2>2, <2>4, <2>5 DEF Agreed, Keyed
  <2> QED
    BY <2>6, <2>7 DEF EnrollInv
<1>3. ASSUME NEW p \in Ctl, LoadTls(p) PROVE EnrollInv'
  <2>0. ctl[p].step = "tls" /\ UNCHANGED <<idRow, tlsRow, release>> /\ ctl[p] \in CtlRow
        /\ tlsRow \in Cert \cup {NoCert}
        /\ "up" \in CtlStep /\ "newTls" \in CtlStep
    BY <1>0, <1>3 DEF LoadTls, EnrollTypes, CtlStep
  <2>1. ctl[p].rel = release /\ (ctl[p].rel >= FirstKeyed => ctl[p].key = idRow /\ idRow # NoCtl)
    BY <1>0, <2>0 DEF Agreed, Keyed
  <2>2. CASE tlsRow.sans = ctl[p].rel
    <3> DEFINE new == [ctl[p] EXCEPT !.cert = tlsRow, !.step = "up"]
    <3>1. ctl' = [ctl EXCEPT ![p] = new]
      BY <1>0, <1>3, <2>2 DEF LoadTls, EnrollTypes
    <3>2. new \in CtlRow /\ new.cert = tlsRow /\ new.step = "up" /\ new.rel = ctl[p].rel
          /\ new.key = ctl[p].key
      BY <2>0 DEF CtlRow
    <3> HIDE DEF new
    <3> QED
      BY <1>o, <2>0, <2>1, <2>2, <3>1, <3>2
  <2>3. CASE tlsRow.sans # ctl[p].rel
    <3> DEFINE new == [ctl[p] EXCEPT !.step = "newTls"]
    <3>1. ctl' = [ctl EXCEPT ![p] = new]
      BY <1>0, <1>3, <2>3 DEF LoadTls, EnrollTypes
    <3>2. new \in CtlRow /\ new.step = "newTls" /\ new.rel = ctl[p].rel /\ new.key = ctl[p].key
      BY <2>0 DEF CtlRow
    <3> HIDE DEF new
    <3> QED
      BY <1>o, <2>0, <2>1, <3>1, <3>2
  <2> QED
    BY <2>2, <2>3
<1>4. ASSUME NEW p \in Ctl, MakeTls(p) PROVE EnrollInv'
  <2> DEFINE new == [ctl[p] EXCEPT !.step = "readTls"]
  <2>1. /\ ctl[p].step = "newTls" /\ tlsRow' = InsertTls(p) /\ ctl' = [ctl EXCEPT ![p] = new]
        /\ UNCHANGED <<idRow, release>>
    BY <1>0, <1>4 DEF MakeTls, EnrollTypes
  <2>2. ctl[p] \in CtlRow /\ ctl[p].rel = release /\ "readTls" \in CtlStep
    BY <1>0, <2>1 DEF EnrollTypes, Agreed, CtlStep
  <2>3. new \in CtlRow /\ new.step = "readTls" /\ new.rel = ctl[p].rel /\ new.key = ctl[p].key
    BY <2>2 DEF CtlRow
  <2>4. tlsRow' \in Cert \cup {NoCert} /\ (tlsRow.sans = release => tlsRow' = tlsRow)
    BY <1>0, <2>1, <2>2 DEF InsertTls, EnrollTypes, Cert
  <2> HIDE DEF new
  <2>5. ctl' \in [Ctl -> CtlRow] /\ ctl'[p] = new /\ \A q \in Ctl \ {p} : ctl'[q] = ctl[q]
    BY <1>0, <2>1, <2>3 DEF EnrollTypes
  <2>6. EnrollTypes'
    BY <1>0, <2>1, <2>4, <2>5 DEF EnrollTypes
  <2>7. Agreed'
    BY <1>0, <2>1, <2>2, <2>3, <2>4, <2>5 DEF Agreed, Keyed
  <2> QED
    BY <2>6, <2>7 DEF EnrollInv
<1>5. ASSUME NEW p \in Ctl, RereadTls(p) PROVE EnrollInv'
  <2>0. ctl[p].step = "readTls" /\ UNCHANGED <<idRow, tlsRow, release>> /\ ctl[p] \in CtlRow
        /\ tlsRow \in Cert \cup {NoCert} /\ "up" \in CtlStep
    BY <1>0, <1>5 DEF RereadTls, EnrollTypes, CtlStep
  <2>1. ctl[p].rel = release /\ (ctl[p].rel >= FirstKeyed => ctl[p].key = idRow /\ idRow # NoCtl)
    BY <1>0, <2>0 DEF Agreed, Keyed
  <2>2. CASE tlsRow.sans = ctl[p].rel
    <3> DEFINE new == [ctl[p] EXCEPT !.cert = tlsRow, !.step = "up"]
    <3>1. ctl' = [ctl EXCEPT ![p] = new]
      BY <1>0, <1>5, <2>2 DEF RereadTls, EnrollTypes
    <3>2. new \in CtlRow /\ new.cert = tlsRow /\ new.step = "up" /\ new.rel = ctl[p].rel
          /\ new.key = ctl[p].key
      BY <2>0 DEF CtlRow
    <3> HIDE DEF new
    <3> QED
      BY <1>o, <2>0, <2>1, <2>2, <3>1, <3>2
  <2>3. CASE tlsRow.sans # ctl[p].rel
    <3>1. ctl' = [ctl EXCEPT ![p] = Down]
      BY <1>5, <2>3 DEF RereadTls
    <3> QED
      BY <1>d, <1>o, <2>0, <3>1
  <2> QED
    BY <2>2, <2>3
<1>6. ASSUME NEW p \in Ctl, ControlCrash(p) PROVE EnrollInv'
  <2>1. ctl' = [ctl EXCEPT ![p] = Down] /\ UNCHANGED <<idRow, tlsRow, release>>
    BY <1>6 DEF ControlCrash
  <2> QED
    BY <1>d, <1>o, <2>1
<1>7. CASE Redeploy \/ Reinstall
  <2>1. /\ ctl' = [p \in Ctl |-> Down] /\ release' \in 1 .. MaxRelease
        /\ idRow' \in Ctl \cup {NoCtl} /\ tlsRow' \in Cert \cup {NoCert}
    BY <1>0, <1>7, EnrollAssumption DEF Redeploy, Reinstall, NewRelease,
       EnrollTypes
  <2> QED
    BY <1>d, <2>1 DEF EnrollInv, EnrollTypes, Agreed
<1>8. ASSUME NEW p \in Ctl, DialControl(p) PROVE EnrollInv'
  BY <1>f, <1>8 DEF DialControl, dbVars
<1>9. CASE NodeStep \/ ConfigTimeout \/ Activate \/ Approve \/ NodeCrash \/ Unpin
  BY <1>f, <1>9 DEF NodeStep, VerifyPin, BindTls, CopyCert, TakeConfig,
     PollAgain, ConfigTimeout,
                    Activate, Approve, NodeCrash, Unpin, dbVars
<1>10. CASE UNCHANGED enrollVars
  BY <1>f, <1>10 DEF enrollVars, dbVars
<1> QED
  BY <1>1, <1>2, <1>3, <1>4, <1>5, <1>6, <1>7, <1>8, <1>9,
     <1>10 DEF EnrollNext, ControlStep

\* The pin and what is delivered under it.
PinStays ==
  pinKey # NoCtl => /\ pinKey' \in {pinKey, NoCtl}
                    /\ delivered' # delivered => delivered'.by = pinKey

\* No step of control or of the node replaces a pin or delivers past it.
LEMMA PinIsKept == EnrollNext => PinStays
<1> SUFFICES ASSUME EnrollNext PROVE PinStays
  OBVIOUS
<1>f. UNCHANGED <<pinKey, delivered>> => PinStays
  BY DEF PinStays
<1>1. ASSUME NEW p \in Ctl, ControlStep(p) \/ ControlCrash(p) \/ DialControl(p) PROVE PinStays
  BY <1>f, <1>1 DEF ControlStep, StartControl, MakeIdentity, LoadTls, MakeTls,
     RereadTls,
                    ControlCrash, DialControl, fileVars
<1>2. CASE VerifyPin
  BY <1>2 DEF VerifyPin, PinAccepts, PinStays
<1>3. CASE BindTls \/ CopyCert \/ PollAgain \/ ConfigTimeout \/ Activate \/ Approve \/ NodeCrash
  BY <1>f, <1>3 DEF BindTls, CopyCert, PollAgain, ConfigTimeout, Activate,
     Approve, NodeCrash, fileVars
<1>4. CASE TakeConfig
  BY <1>4 DEF TakeConfig, ConfigTrusted, PinStays
<1>5. CASE Redeploy \/ Reinstall
  BY <1>f, <1>5 DEF Redeploy, Reinstall, NewRelease, fileVars
<1>6. CASE Unpin
  BY <1>6 DEF Unpin, PinStays
<1> QED
  BY <1>1, <1>2, <1>3, <1>4, <1>5, <1>6 DEF EnrollNext, NodeStep

\* Steps are those of enrollment, or leave it alone.
LEMMA EnrollAlone == [Next]_workbenchVars => [EnrollNext]_enrollVars
BY DEF Next, OthersRest, workbenchVars

\* Control processes serve one identity and one certificate, and a paired
\* node keeps its pin and takes its configuration from that identity only:
\* for any number of processes, releases, reinstallations and crashes.
THEOREM EnrollmentIsSafe == Spec => EnrollmentHolds
<1>1. Init => EnrollInv
  BY EnrollStarts DEF Init
<1>2. EnrollInv /\ [Next]_workbenchVars => EnrollInv'
  BY EnrollAlone, EnrollStep
<1>3. EnrollInv => OneIdentity
  BY DEF EnrollInv, Agreed, OneIdentity
<1>4. [Next]_workbenchVars => [PinStays]_enrollVars
  BY EnrollAlone, PinIsKept
<1>5. Spec => []OneIdentity
  BY <1>1, <1>2, <1>3, PTL DEF Spec
<1>6. Spec => [][PinStays]_enrollVars
  BY <1>4, PTL DEF Spec
<1>7. [][PinStays]_enrollVars <=> PairedForGood
  BY DEF PinStays, PairedForGood
<1> QED
  BY <1>5, <1>6, <1>7, PTL DEF EnrollmentHolds

-----------------------------------------------------------------------------
(* The listing of changed paths.                                           *)

StatusInv ==
  /\ DOMAIN row = {"print", "revision", "ci"} /\ row.revision \in Nat
  /\ DOMAIN client = {"revision", "dirty"} /\ client.revision \in Int
  /\ client.revision <= row.revision
  /\ loading \in Int /\ loading <= row.revision
  /\ NoStaleListing

\* Nothing is listed at first.
LEMMA StatusStarts == StatusInit => StatusInv
BY DEF StatusInit, StatusInv, NoStaleListing

\* Every step around the status keeps the invariant: a revision moves past
\* all that was loaded or is being loaded.
LEMMA StatusStep == StatusInv /\ [StatusNext]_statusVars => StatusInv'
<1> SUFFICES ASSUME StatusInv, [StatusNext]_statusVars PROVE StatusInv'
  OBVIOUS
<1>f. UNCHANGED <<row, dirty, client, loading>> => StatusInv'
  BY DEF StatusInv, NoStaleListing
<1>1. CASE \E b \in HeadBranch : Work(b)
  BY <1>f, <1>1 DEF Work
<1>2. CASE ReadStatus \/ StatusFails \/ CheckCi
  BY <1>f, <1>2 DEF ReadStatus, StatusFails, CheckCi
<1>3. CASE StoreStatus
  <2>1. CASE seen = row.print
    BY <1>f, <1>3, <2>1 DEF StoreStatus
  <2>2. CASE seen # row.print
    BY <1>3, <2>2 DEF StoreStatus, StatusInv, NoStaleListing
  <2> QED
    BY <2>1, <2>2
<1>4. CASE Rename
  BY <1>4 DEF Rename, StatusInv, NoStaleListing
<1>5. CASE LoadRevision
  BY <1>5 DEF LoadRevision, StatusInv, NoStaleListing
<1>6. CASE LoadPaths
  BY <1>6 DEF LoadPaths, StatusInv, NoStaleListing
<1>7. CASE StoreRun
  <2>1. /\ DOMAIN row' = DOMAIN row /\ row'.revision = row.revision
        /\ row'.print = row.print
    BY <1>7 DEF StoreRun, StatusInv
  <2>2. UNCHANGED <<dirty, client, loading>>
    BY <1>7 DEF StoreRun
  <2> QED
    BY <2>1, <2>2 DEF StatusInv, NoStaleListing
<1>8. CASE UNCHANGED statusVars
  BY <1>f, <1>8 DEF statusVars
<1> QED
  BY <1>1, <1>2, <1>3, <1>4, <1>5, <1>6, <1>7, <1>8 DEF StatusNext

-----------------------------------------------------------------------------
(* Deployments.                                                            *)

DoraInv ==
  /\ shipped \in [Deploy -> Commit \cup {0}]
  /\ credit \in [Commit -> Deploy \cup {0}]
  /\ listed \subseteq Deploy /\ \A d \in listed : shipped[d] # 0
  /\ deployed \subseteq listed /\ counted \subseteq deployed /\ uncounted \subseteq deployed
  /\ CreditedToFirst

\* Nothing is shipped at first.
LEMMA DoraStarts == DoraInit => DoraInv
BY DEF DoraInit, DoraInv, CreditedToFirst

\* A non-empty set of numbers up to a bound has a last element.
LEMMA LastOf ==
  ASSUME NEW S \in SUBSET Nat, S # {}, NEW b \in Nat, \A x \in S : x <= b
  PROVE  \E x \in S : \A y \in S : y <= x
<1> DEFINE T == {n \in Nat : \E x \in S : n = b - x}
           R == OpToRel(<, Nat)
<1>1. T # {} /\ T \subseteq Nat
  <2>1. PICK x \in S : TRUE
    OBVIOUS
  <2>2. b - x \in Nat
    OBVIOUS
  <2> QED
    BY <2>1, <2>2
<1>2. IsWellFoundedOn(R, Nat)
  BY NatLessThanWellFounded
<1>3. PICK n \in T : \A m \in T : <<m, n>> \notin R
  BY <1>1, <1>2, WFMin
<1>4. PICK x \in S : n = b - x
  BY <1>3
<1>5. \A y \in S : y <= x
  <2> SUFFICES ASSUME NEW y \in S PROVE y <= x
    OBVIOUS
  <2>1. b - y \in T
    OBVIOUS
  <2>2. ~((b - y) < n)
    BY <1>1, <1>3, <2>1 DEF OpToRel
  <2> QED
    BY <1>4, <2>2
<1> QED
  BY <1>5

\* The commits taken are those the deployment before does not have.
LEMMA SinceIs ==
  ASSUME DoraInv, NEW d \in Deploy
  PROVE  \/ Since(d) = {c \in Commit : c <= shipped[d]}
         \/ \E e \in counted : e < d /\ Since(d) = {c \in Commit : shipped[e] < c /\ c <= shipped[d]}
<1>0. d \in Nat /\ counted \subseteq Deploy /\ Deploy \subseteq Nat /\ Commit \subseteq Nat \ {0}
  BY DoraAssumption DEF DoraInv
<1>1. CASE Before(d) = {}
  <2>1. Since(d) = {c \in Commit : 0 < c /\ c <= shipped[d]}
    BY <1>1 DEF Since
  <2>2. \A c \in Commit : 0 < c
    BY <1>0
  <2> QED
    BY <2>1, <2>2
<1>2. CASE Before(d) # {}
  <2>0. \A x \in Before(d) : x \in counted /\ x < d
    BY DEF Before
  <2>1. Before(d) \in SUBSET Nat /\ \A x \in Before(d) : x <= d
    <3>1. \A x \in Before(d) : x \in Nat /\ x < d
      BY <1>0, <2>0
    <3> QED
      BY <1>0, <3>1
  <2>2. \E e \in Before(d) : \A f \in Before(d) : f <= e
    BY <1>0, <1>2, <2>1, LastOf
  <2> DEFINE e == CHOOSE e \in Before(d) : \A f \in Before(d) : f <= e
  <2>3. e \in Before(d)
    BY <2>2
  <2>4. Since(d) = {c \in Commit : shipped[e] < c /\ c <= shipped[d]}
    BY <1>2 DEF Since
  <2>5. e \in counted /\ e < d
    BY <2>3 DEF Before
  <2> QED
    BY <2>4, <2>5
<1> QED
  BY <1>1, <1>2

\* Credits and revisions are numbers.
LEMMA DoraNumbers ==
  ASSUME DoraInv, NEW c \in Commit, NEW d \in Deploy
  PROVE  credit[c] \in Nat /\ c \in Nat \ {0} /\ shipped[d] \in Nat
<1>1. /\ credit[c] \in Deploy \/ credit[c] = 0
      /\ shipped[d] \in Commit \/ shipped[d] = 0
  BY DEF DoraInv
<1>2. \A x \in Deploy \cup Commit : x \in Nat /\ x # 0
  BY DoraAssumption
<1> QED
  BY <1>1, <1>2

\* Counting a deployment credits what it shipped first, and takes over what
\* a later deployment was credited with.
LEMMA CountKeeps ==
  ASSUME DoraInv, NEW d \in uncounted,
         credit' = [c \in Commit |->
                     IF c \in Since(d) /\ (credit[c] = 0 \/ credit[c] > d) THEN d ELSE credit[c]],
         counted' = counted \cup {d}, UNCHANGED shipped
  PROVE  CreditedToFirst' /\ credit' \in [Commit -> Deploy \cup {0}]
<1>0. d \in Deploy /\ d \in Nat \ {0} /\ Deploy \subseteq Nat \ {0} /\ Commit \subseteq Nat \ {0}
      /\ counted \subseteq Deploy
  BY DoraAssumption DEF DoraInv
<1>1. credit' \in [Commit -> Deploy \cup {0}]
  BY <1>0 DEF DoraInv
<1>2. ASSUME NEW c \in Commit, NEW f \in counted', shipped[f] >= c
      PROVE  credit'[c] # 0 /\ credit'[c] <= f
  <2>0. credit[c] \in Nat /\ c \in Nat \ {0} /\ shipped[d] \in Nat
    BY <1>0, DoraNumbers
  <2>1. CASE f \in counted
    <3>1. credit[c] # 0 /\ credit[c] <= f /\ f \in Nat
      BY <1>0, <1>2, <2>1 DEF DoraInv, CreditedToFirst
    <3> QED
      BY <1>0, <2>0, <3>1
  <2>2. CASE f = d
    <3>1. CASE c \in Since(d)
      BY <1>0, <2>0, <2>2, <3>1
    <3>2. CASE c \notin Since(d)
      <4>1. PICK e \in counted : e < d /\ Since(d) = {k \in Commit : shipped[e] < k /\ k <= shipped[d]}
        BY <1>0, <1>2, <2>2, <3>2, SinceIs
      <4>2. shipped[e] \in Nat /\ e \in Nat
        BY <1>0 DEF DoraInv
      <4>3. shipped[e] >= c
        BY <1>2, <2>0, <2>2, <3>2, <4>1, <4>2
      <4>4. credit[c] # 0 /\ credit[c] <= e
        BY <4>3 DEF DoraInv, CreditedToFirst
      <4> QED
        BY <1>0, <2>0, <2>2, <3>2, <4>1, <4>2, <4>4
    <3> QED
      BY <3>1, <3>2
  <2> QED
    BY <1>2, <2>1, <2>2
<1> QED
  BY <1>1, <1>2 DEF CreditedToFirst

\* Every step of the collection keeps the invariant.
LEMMA DoraStep == DoraInv /\ [DoraNext]_doraVars => DoraInv'
<1> SUFFICES ASSUME DoraInv, [DoraNext]_doraVars PROVE DoraInv'
  OBVIOUS
<1>0. Deploy \subseteq Nat \ {0} /\ Commit \subseteq Nat \ {0}
  BY DoraAssumption
<1>f. UNCHANGED <<shipped, credit, counted>> => CreditedToFirst'
  BY DEF DoraInv, CreditedToFirst
<1>1. ASSUME NEW d \in Deploy, NEW c \in Commit, Ship(d, c) PROVE DoraInv'
  <2>1. d \notin listed
    BY <1>1 DEF Ship, DoraInv
  <2>2. CreditedToFirst'
    BY <1>1, <2>1 DEF Ship, DoraInv, CreditedToFirst
  <2> QED
    BY <1>0, <1>1, <2>1, <2>2 DEF Ship, DoraInv
<1>2. ASSUME NEW d \in Deploy, RunCompletes(d) \/ StoreDeployment(d) PROVE DoraInv'
  BY <1>f, <1>2 DEF RunCompletes, StoreDeployment, DoraInv
<1>3. CASE RequestFails \/ PauseEnds \/ CountBegins \/ CountFails
  BY <1>f, <1>3 DEF RequestFails, PauseEnds, CountBegins, CountFails, DoraInv
<1>4. CASE Count
  <2>1. PICK d \in uncounted :
          /\ credit' = [c \in Commit |->
                          IF c \in Since(d) /\ (credit[c] = 0 \/ credit[c] > d) THEN d ELSE credit[c]]
          /\ counted' = counted \cup {d} /\ uncounted' = uncounted \ {d}
          /\ UNCHANGED <<shipped, listed, deployed>>
    BY <1>4 DEF Count
  <2>2. CreditedToFirst' /\ credit' \in [Commit -> Deploy \cup {0}]
    BY <2>1, CountKeeps
  <2>3. counted' \subseteq deployed' /\ uncounted' \subseteq deployed'
    BY <2>1 DEF DoraInv
  <2> QED
    BY <2>1, <2>2, <2>3 DEF DoraInv
<1>5. CASE UNCHANGED doraVars
  BY <1>f, <1>5 DEF doraVars, DoraInv
<1> QED
  BY <1>1, <1>2, <1>3, <1>4, <1>5 DEF DoraNext

-----------------------------------------------------------------------------
(* Repositories, their worktrees and the gate.                             *)

NameSlot == Name \cup {0}
RepoOp == [kind : {"idle", "create", "rename", "delete"}, from : NameSlot, to : NameSlot]
RepoLaunch == [at : {"idle", "workspace", "row", "shell"}, repo : NameSlot,
               mode : {"main", "group", "isolated", "existing"}]
RepoTree == [repo : NameSlot, st : RowState, dir : BOOLEAN]
RepoSession == [st : {"none", "live", "ended"}, repo : NameSlot, at : {"main", "tree"}]

RepoTypes ==
  /\ dirs \subseteq Name /\ grouped \subseteq Name
  /\ known \in [Name -> {"none", "present", "absent"}] /\ main \in [Name -> RowState]
  /\ tree \in RepoTree /\ session \in RepoSession
  /\ op \in RepoOp /\ launch \in RepoLaunch
  /\ removal \in {"idle", "row"} /\ repoFaults \in Nat

\* What the gate keeps apart, and the directories that what is under way
\* stands on.
RepoGround ==
  /\ op # Quiet => launch.at = "idle" /\ removal = "idle" /\ poll = 0
  /\ op.kind = "create" => op.to \in dirs
  /\ op.kind = "rename" => /\ op.to \in dirs /\ op.from \in Name /\ op.from # op.to
                           /\ tree.repo = op.to => tree.st \in {"none", "deleted"}
  /\ op.kind = "delete" => op.from \in Name
  /\ launch.at # "idle" => launch.repo \in dirs
  /\ poll = Tree => tree.repo \in dirs
  /\ RepoOutlivesWorktrees

\* Rows name directories, but for the one an operation is about.
RowsFollow ==
  repoFaults = 0 =>
    /\ session.st = "live" => session.repo \in dirs
    /\ \A n \in Name : known[n] = "present" \/ main[n] = "active" =>
         n \in dirs \/ (op.kind \in {"rename", "delete"} /\ n = op.from)
    /\ op.kind = "rename" => /\ known[op.to] # "present" /\ main[op.to] # "active"
                             /\ session.st = "live" => session.repo # op.to

RepoInv == RepoTypes /\ RepoGround /\ RowsFollow

\* The node begins with an empty root.
LEMMA RepoStarts == RepoInit => RepoInv
<1> SUFFICES ASSUME RepoInit PROVE RepoInv
  OBVIOUS
<1>1. RepoTypes
  BY DEF RepoInit, RepoTypes, RepoTree, RepoSession, RepoOp, RepoLaunch,
     NameSlot, RowState, Quiet, NoLaunch
<1>2. RepoGround
  BY DEF RepoInit, RepoGround, RepoOutlivesWorktrees, Quiet, NoLaunch, Tree
<1>3. RowsFollow
  BY DEF RepoInit, RowsFollow, Quiet
<1> QED
  BY <1>1, <1>2, <1>3 DEF RepoInv

\* Every step of the repositories keeps the invariant.
LEMMA RepoStep == RepoInv /\ [RepoNext]_repoVars => RepoInv'
<1> SUFFICES ASSUME RepoInv, [RepoNext]_repoVars PROVE RepoInv'
  OBVIOUS
<1>0. RepoTypes /\ RepoGround /\ RowsFollow
  BY DEF RepoInv
<1>q. /\ Quiet \in RepoOp /\ Quiet.kind = "idle"
      /\ NoLaunch \in RepoLaunch /\ NoLaunch.at = "idle"
      /\ 0 \notin Name /\ Tree \notin Name /\ Tree # 0
  BY RepoAssumption DEF Quiet, NoLaunch, RepoOp, RepoLaunch, NameSlot, Tree
<1>1. ASSUME NEW n \in Name, CreateDir(n) PROVE RepoInv'
  <2>0. op' = Quiet \/ (op'.kind = "create" /\ op'.to = n)
    BY <1>q, <1>1 DEF CreateDir, RepoOp
  <2>1. RepoTypes'
    BY <1>0, <1>q, <1>1 DEF CreateDir, GateFree, RepoTypes, RepoOp, NameSlot
  <2>2. RepoGround'
    BY <1>0, <1>q, <1>1, <2>0 DEF CreateDir, GateFree, RepoTypes, RepoGround,
       RepoOutlivesWorktrees
  <2>3. RowsFollow'
    BY <1>0, <1>q, <1>1, <2>0 DEF CreateDir, GateFree, RepoTypes, RepoGround,
       RowsFollow
  <2> QED
    BY <2>1, <2>2, <2>3 DEF RepoInv
<1>2. ASSUME NEW n \in Name, DeleteDir(n) PROVE RepoInv'
  <2>1. RepoTypes'
    BY <1>0, <1>q, <1>2 DEF DeleteDir, GateFree, NoWorktree, NoLiveSession,
       RepoTypes, RepoOp, NameSlot
  <2>2. RepoGround'
    BY <1>0, <1>q, <1>2 DEF DeleteDir, GateFree, NoWorktree, NoLiveSession,
       RepoTypes, RepoGround, RepoOutlivesWorktrees, RepoOp, NameSlot,
       RepoTree, RowState
  <2>3. RowsFollow'
    BY <1>0, <1>q, <1>2 DEF DeleteDir, GateFree, NoWorktree, NoLiveSession,
       RepoTypes, RepoGround, RowsFollow, RepoOp, NameSlot
  <2> QED
    BY <2>1, <2>2, <2>3 DEF RepoInv
<1>3. ASSUME NEW a \in Name, NEW b \in Name, RenameDir(a, b) PROVE RepoInv'
  <2>1. RepoTypes'
    BY <1>0, <1>q, <1>3 DEF RenameDir, GateFree, NoWorktree, NoLiveSession,
       NameAvailable, RepoTypes, RepoOp, NameSlot
  <2>2. RepoGround'
    BY <1>0, <1>q, <1>3 DEF RenameDir, GateFree, NoWorktree, NoLiveSession,
       NameAvailable, RepoTypes, RepoGround, RepoOutlivesWorktrees, RepoOp,
       NameSlot, RepoTree, RowState
  <2>3. RowsFollow'
    BY <1>0, <1>q, <1>3 DEF RenameDir, GateFree, NoWorktree, NoLiveSession,
       NameAvailable, RepoTypes, RepoGround, RowsFollow, RepoOp, NameSlot,
       RepoSession
  <2> QED
    BY <2>1, <2>2, <2>3 DEF RepoInv
<1>4. ASSUME CreateRow PROVE RepoInv'
  <2>1. RepoTypes'
    BY <1>0, <1>q, <1>4 DEF CreateRow, RepoTypes
  <2>2. RepoGround'
    BY <1>0, <1>q, <1>4 DEF CreateRow, RepoTypes, RepoGround,
       RepoOutlivesWorktrees
  <2>3. RowsFollow'
    BY <1>0, <1>q, <1>4 DEF CreateRow, RepoTypes, RepoGround, RowsFollow
  <2> QED
    BY <2>1, <2>2, <2>3 DEF RepoInv
<1>5. ASSUME RenameRows PROVE RepoInv'
  <2>1. RepoTypes'
    <3>1. op.from \in Name /\ op.to \in Name
      BY <1>0, <1>5 DEF RenameRows, RepoTypes, RepoGround
    <3>2. known' \in [Name -> {"none", "present", "absent"}]
      BY <1>0, <1>5, <3>1 DEF RenameRows, RenamedKnown, RepoTypes
    <3>3. main' \in [Name -> RowState]
      BY <1>0, <1>5, <3>1 DEF RenameRows, RenamedMain, RepoTypes, RowState
    <3>4. session' \in RepoSession
      BY <1>0, <1>5, <3>1 DEF RenameRows, RenamedSession, RepoTypes,
         RepoSession, NameSlot
    <3>5. grouped' \subseteq Name
      BY <1>0, <1>5, <3>1 DEF RenameRows, RenamedGroup, RepoTypes
    <3> QED
      BY <1>0, <1>q, <1>5, <3>2, <3>3, <3>4, <3>5 DEF RenameRows, RepoTypes
  <2>2. RepoGround'
    BY <1>0, <1>q, <1>5 DEF RenameRows, RenamedKnown, RenamedMain,
       RenamedSession, RenamedGroup, RepoTypes, RepoGround,
       RepoOutlivesWorktrees
  <2>3. RowsFollow'
    BY <1>0, <1>q, <1>5 DEF RenameRows, RenamedKnown, RenamedMain,
       RenamedSession, RenamedGroup, RepoTypes, RepoGround, RowsFollow,
       RepoSession
  <2> QED
    BY <2>1, <2>2, <2>3 DEF RepoInv
<1>6. ASSUME RenameGivesUp PROVE RepoInv'
  <2>1. RepoTypes'
    BY <1>0, <1>q, <1>6 DEF RenameGivesUp, RepoTypes, RepoGround
  <2>2. RepoGround'
    BY <1>0, <1>q, <1>6 DEF RenameGivesUp, RepoTypes, RepoGround,
       RepoOutlivesWorktrees, RepoTree, RowState
  <2>3. RowsFollow'
    BY <1>0, <1>q, <1>6 DEF RenameGivesUp, RepoTypes, RepoGround, RowsFollow
  <2> QED
    BY <2>1, <2>2, <2>3 DEF RepoInv
<1>7. ASSUME DeleteRows PROVE RepoInv'
  <2>1. RepoTypes'
    BY <1>0, <1>q, <1>7 DEF DeleteRows, Ungrouped, RepoTypes, RowState
  <2>2. RepoGround'
    BY <1>0, <1>q, <1>7 DEF DeleteRows, Ungrouped, RepoTypes, RepoGround,
       RepoOutlivesWorktrees
  <2>3. RowsFollow'
    BY <1>0, <1>q, <1>7 DEF DeleteRows, Ungrouped, RepoTypes, RepoGround,
       RowsFollow
  <2> QED
    BY <2>1, <2>2, <2>3 DEF RepoInv
<1>8. ASSUME NEW s \in SUBSET Name, MetaSave(s) PROVE RepoInv'
  <2>1. RepoTypes'
    BY <1>0, <1>q, <1>8 DEF MetaSave, RepoTypes
  <2>2. RepoGround'
    BY <1>0, <1>q, <1>8 DEF MetaSave, RepoTypes, RepoGround,
       RepoOutlivesWorktrees
  <2>3. RowsFollow'
    BY <1>0, <1>q, <1>8 DEF MetaSave, RepoTypes, RepoGround, RowsFollow
  <2> QED
    BY <2>1, <2>2, <2>3 DEF RepoInv
<1>9. ASSUME SyncRepos PROVE RepoInv'
  <2>1. RepoTypes'
    BY <1>0, <1>q, <1>9 DEF SyncRepos, GateShared, RepoTypes
  <2>2. RepoGround'
    BY <1>0, <1>q, <1>9 DEF SyncRepos, GateShared, RepoTypes, RepoGround,
       RepoOutlivesWorktrees
  <2>3. RowsFollow'
    BY <1>0, <1>q, <1>9 DEF SyncRepos, GateShared, RepoTypes, RepoGround,
       RowsFollow
  <2> QED
    BY <2>1, <2>2, <2>3 DEF RepoInv
<1>10. ASSUME SyncMains PROVE RepoInv'
  <2>1. RepoTypes'
    BY <1>0, <1>q, <1>10 DEF SyncMains, GateShared, RepoTypes, RowState
  <2>2. RepoGround'
    BY <1>0, <1>q, <1>10 DEF SyncMains, GateShared, RepoTypes, RepoGround,
       RepoOutlivesWorktrees
  <2>3. RowsFollow'
    BY <1>0, <1>q, <1>10 DEF SyncMains, GateShared, RepoTypes, RepoGround,
       RowsFollow
  <2> QED
    BY <2>1, <2>2, <2>3 DEF RepoInv
<1>11. ASSUME NEW n \in Name, NEW mode \in {"main", "group", "isolated", "existing"},
             LaunchBegin(n, mode) PROVE RepoInv'
  <2>1. RepoTypes'
    BY <1>0, <1>q, <1>11 DEF LaunchBegin, GateShared, ScopeHolds, rows,
       RepoTypes, RepoLaunch, NameSlot
  <2>2. RepoGround'
    BY <1>0, <1>q, <1>11 DEF LaunchBegin, GateShared, ScopeHolds, rows,
       RepoTypes, RepoGround, RepoOutlivesWorktrees
  <2>3. RowsFollow'
    BY <1>0, <1>q, <1>11 DEF LaunchBegin, GateShared, ScopeHolds, rows,
       RepoTypes, RepoGround, RowsFollow
  <2> QED
    BY <2>1, <2>2, <2>3 DEF RepoInv
<1>12. ASSUME LaunchMain PROVE RepoInv'
  <2>1. RepoTypes'
    BY <1>0, <1>q, <1>12 DEF LaunchMain, RepoTypes, RepoLaunch, NameSlot,
       RowState
  <2>2. RepoGround'
    BY <1>0, <1>q, <1>12 DEF LaunchMain, RepoTypes, RepoGround,
       RepoOutlivesWorktrees, RepoLaunch
  <2>3. RowsFollow'
    BY <1>0, <1>q, <1>12 DEF LaunchMain, RepoTypes, RepoGround, RowsFollow,
       RepoLaunch
  <2> QED
    BY <2>1, <2>2, <2>3 DEF RepoInv
<1>13. ASSUME LaunchAdds PROVE RepoInv'
  <2>1. RepoTypes'
    BY <1>0, <1>q, <1>13 DEF LaunchAdds, RepoTypes, RepoTree, RowState,
       NameSlot, RepoLaunch
  <2>2. RepoGround'
    BY <1>0, <1>q, <1>13 DEF LaunchAdds, RepoTypes, RepoGround,
       RepoOutlivesWorktrees, RepoTree, RepoLaunch
  <2>3. RowsFollow'
    BY <1>0, <1>q, <1>13 DEF LaunchAdds, RepoTypes, RepoGround, RowsFollow
  <2> QED
    BY <2>1, <2>2, <2>3 DEF RepoInv
<1>14. ASSUME LaunchRow PROVE RepoInv'
  <2>1. RepoTypes'
    BY <1>0, <1>q, <1>14 DEF LaunchRow, RepoTypes, RepoTree, RowState,
       NameSlot, RepoLaunch
  <2>2. RepoGround'
    BY <1>0, <1>q, <1>14 DEF LaunchRow, RepoTypes, RepoGround,
       RepoOutlivesWorktrees, RepoTree, RepoLaunch
  <2>3. RowsFollow'
    BY <1>0, <1>q, <1>14 DEF LaunchRow, RepoTypes, RepoGround, RowsFollow
  <2> QED
    BY <2>1, <2>2, <2>3 DEF RepoInv
<1>15. ASSUME LaunchExisting PROVE RepoInv'
  <2>1. RepoTypes'
    BY <1>0, <1>q, <1>15 DEF LaunchExisting, rows, RepoTypes, RepoLaunch,
       NameSlot
  <2>2. RepoGround'
    BY <1>0, <1>q, <1>15 DEF LaunchExisting, rows, RepoTypes, RepoGround,
       RepoOutlivesWorktrees, RepoLaunch
  <2>3. RowsFollow'
    BY <1>0, <1>q, <1>15 DEF LaunchExisting, rows, RepoTypes, RepoGround,
       RowsFollow
  <2> QED
    BY <2>1, <2>2, <2>3 DEF RepoInv
<1>16. ASSUME LaunchShell PROVE RepoInv'
  <2>1. RepoTypes'
    BY <1>0, <1>q, <1>16 DEF LaunchShell, RepoTypes, RepoSession, NameSlot,
       RepoLaunch
  <2>2. RepoGround'
    BY <1>0, <1>q, <1>16 DEF LaunchShell, RepoTypes, RepoGround,
       RepoOutlivesWorktrees
  <2>3. RowsFollow'
    BY <1>0, <1>q, <1>16 DEF LaunchShell, RepoTypes, RepoGround, RowsFollow,
       RepoSession
  <2> QED
    BY <2>1, <2>2, <2>3 DEF RepoInv
<1>17. ASSUME LaunchRefused PROVE RepoInv'
  <2>1. RepoTypes'
    BY <1>0, <1>q, <1>17 DEF LaunchRefused, rows, RepoTypes
  <2>2. RepoGround'
    BY <1>0, <1>q, <1>17 DEF LaunchRefused, rows, RepoTypes, RepoGround,
       RepoOutlivesWorktrees
  <2>3. RowsFollow'
    BY <1>0, <1>q, <1>17 DEF LaunchRefused, rows, RepoTypes, RepoGround,
       RowsFollow
  <2> QED
    BY <2>1, <2>2, <2>3 DEF RepoInv
<1>18. ASSUME SessionEnds PROVE RepoInv'
  <2>1. RepoTypes'
    BY <1>0, <1>q, <1>18 DEF SessionEnds, shares, RepoTypes, RepoSession,
       NameSlot
  <2>2. RepoGround'
    BY <1>0, <1>q, <1>18 DEF SessionEnds, shares, RepoTypes, RepoGround,
       RepoOutlivesWorktrees
  <2>3. RowsFollow'
    BY <1>0, <1>q, <1>18 DEF SessionEnds, shares, RepoTypes, RepoGround,
       RowsFollow, RepoSession
  <2> QED
    BY <2>1, <2>2, <2>3 DEF RepoInv
<1>19. ASSUME RemoveTree PROVE RepoInv'
  <2>1. RepoTypes'
    BY <1>0, <1>q, <1>19 DEF RemoveTree, GateShared, RepoTypes, RepoTree,
       RowState, NameSlot
  <2>2. RepoGround'
    BY <1>0, <1>q, <1>19 DEF RemoveTree, GateShared, RepoTypes, RepoGround,
       RepoOutlivesWorktrees, RepoTree
  <2>3. RowsFollow'
    BY <1>0, <1>q, <1>19 DEF RemoveTree, GateShared, RepoTypes, RepoGround,
       RowsFollow
  <2> QED
    BY <2>1, <2>2, <2>3 DEF RepoInv
<1>20. ASSUME RemoveRow PROVE RepoInv'
  <2>1. RepoTypes'
    BY <1>0, <1>q, <1>20 DEF RemoveRow, RepoTypes, RepoTree, RowState,
       NameSlot
  <2>2. RepoGround'
    BY <1>0, <1>q, <1>20 DEF RemoveRow, RepoTypes, RepoGround,
       RepoOutlivesWorktrees, RepoTree
  <2>3. RowsFollow'
    BY <1>0, <1>q, <1>20 DEF RemoveRow, RepoTypes, RepoGround, RowsFollow
  <2> QED
    BY <2>1, <2>2, <2>3 DEF RepoInv
<1>21. ASSUME NEW w \in Name \cup {Tree}, PollRead(w) PROVE RepoInv'
  <2>1. RepoTypes'
    BY <1>0, <1>q, <1>21 DEF PollRead, GateShared, rows, RepoTypes
  <2>2. RepoGround'
    BY <1>0, <1>q, <1>21 DEF PollRead, GateShared, rows, RepoTypes,
       RepoGround, RepoOutlivesWorktrees, RepoTree, RowState
  <2>3. RowsFollow'
    BY <1>0, <1>q, <1>21 DEF PollRead, GateShared, rows, RepoTypes,
       RepoGround, RowsFollow
  <2> QED
    BY <2>1, <2>2, <2>3 DEF RepoInv
<1>22. ASSUME PollEnds PROVE RepoInv'
  <2>1. RepoTypes'
    BY <1>0, <1>q, <1>22 DEF PollEnds, RepoTypes, RepoTree, RowState, NameSlot
  <2>2. RepoGround'
    BY <1>0, <1>q, <1>22 DEF PollEnds, RepoTypes, RepoGround,
       RepoOutlivesWorktrees, RepoTree
  <2>3. RowsFollow'
    BY <1>0, <1>q, <1>22 DEF PollEnds, RepoTypes, RepoGround, RowsFollow
  <2> QED
    BY <2>1, <2>2, <2>3 DEF RepoInv
<1>23. ASSUME NodeStops PROVE RepoInv'
  <2>1. RepoTypes'
    BY <1>0, <1>q, <1>23 DEF NodeStops, rows, RepoTypes
  <2>2. RepoGround'
    BY <1>0, <1>q, <1>23 DEF NodeStops, rows, RepoTypes, RepoGround,
       RepoOutlivesWorktrees
  <2>3. RowsFollow'
    BY <1>0, <1>q, <1>23 DEF NodeStops, rows, RepoTypes, RepoGround,
       RowsFollow
  <2> QED
    BY <2>1, <2>2, <2>3 DEF RepoInv
<1>24. CASE UNCHANGED repoVars
  BY <1>0, <1>q, <1>24 DEF repoVars, RepoInv, RepoTypes, RepoGround,
     RepoOutlivesWorktrees, RowsFollow
<1> QED
  BY <1>1, <1>2, <1>3, <1>4, <1>5, <1>6, <1>7, <1>8, <1>9, <1>10, <1>11,
     <1>12, <1>13, <1>14, <1>15, <1>16, <1>17, <1>18, <1>19, <1>20, <1>21,
     <1>22, <1>23, <1>24 DEF RepoNext

\* While repositories are in focus, steps are theirs.
LEMMA RepoFocus ==
  ASSUME [Next]_workbenchVars, focus' = "repos"
  PROVE  focus = "repos" /\ [RepoNext]_repoVars
BY DEF Next, OthersRest, workbenchVars

\* While the status is in focus, steps are its own.
LEMMA StatusFocus ==
  ASSUME [Next]_workbenchVars, focus' = "status"
  PROVE  focus = "status" /\ [StatusNext]_statusVars
BY DEF Next, OthersRest, workbenchVars

\* While deployments are in focus, steps are theirs.
LEMMA DoraFocus ==
  ASSUME [Next]_workbenchVars, focus' = "dora"
  PROVE  focus = "dora" /\ [DoraNext]_doraVars
BY DEF Next, OthersRest, workbenchVars

\* A repository outlives its worktree, rows name directories while nothing
\* has failed, no client keeps a listing under a revision it is not of, and
\* commits are credited to the first deployment counted: for any number of
\* names, operations, crashes, revisions, commits and deployments.
THEOREM ReposAreConsistent == Spec => []ReposConsistent
<1> DEFINE Inv == /\ focus = "repos" => RepoInv
                  /\ focus = "status" => StatusInv
                  /\ focus = "dora" => DoraInv
<1>1. Init => Inv
  BY RepoStarts, StatusStarts, DoraStarts DEF Init
<1>2. Inv /\ [Next]_workbenchVars => Inv'
  <2> SUFFICES ASSUME Inv, [Next]_workbenchVars PROVE Inv'
    OBVIOUS
  <2>1. focus' = "repos" => RepoInv'
    BY RepoFocus, RepoStep
  <2>2. focus' = "status" => StatusInv'
    BY StatusFocus, StatusStep
  <2>3. focus' = "dora" => DoraInv'
    BY DoraFocus, DoraStep
  <2> QED
    BY <2>1, <2>2, <2>3
<1>3. Inv => ReposConsistent
  <2>1. RepoInv => RepoOutlivesWorktrees
    BY DEF RepoInv, RepoGround
  <2>2. RepoInv => RowsFollowTheDirectory
    BY DEF RepoInv, RowsFollow, RowsFollowTheDirectory, Quiet
  <2> QED
    BY <2>1, <2>2 DEF StatusInv, DoraInv, ReposConsistent
<1> QED
  BY <1>1, <1>2, <1>3, PTL DEF Spec

-----------------------------------------------------------------------------
(* The Postgres service.  The invariant is stated of the containers bx,    *)
(* the requests cl, and the counts rn and cn, so that a docker command and *)
(* what its caller does next can be looked at one after the other.         *)

Temp == 1..MaxCall
Shared == {"reuse", "restart"}

BoxSet == [st : {"none", "created", "running", "healthy", "exited"}, owner : BOOLEAN,
           key : Key \cup {"none"}, scope : {"none", "workspace", "temp"}, pass : Nat]
CallAt == {"free", "look", "remove", "kill", "run", "start", "conflict", "wait", "using", "clean"}
CallSet == [at : CallAt, mode : Shared \cup {"none", "temp", "clean", "docker"},
            key : Key \cup {"none"}, slot : Slot \cup {"none"}, left : 0..Attempts,
            pass : Nat, todo : SUBSET Slot]

PgTypes(bx, cl, rn, cn) ==
  /\ bx \in [Slot -> BoxSet] /\ cl \in [Caller -> CallSet]
  /\ rn \in 0..MaxRun /\ cn \in 0..MaxCall
  /\ \A s \in Slot : bx[s].pass <= rn

\* A container is nobody's, the squatter, or a service under its own name:
\* the workspace's under its key, a temp under its request.
BoxOk(b, s, cn) ==
  \/ b = NoBox
  \/ s = Taken /\ b = Squatter
  \/ /\ s # Taken /\ b.owner /\ b.pass # 0
     /\ s \in Key => b.key = s /\ b.scope = "workspace"
     /\ s \in Temp => b.scope = "temp" /\ s <= cn

\* What a request in progress knows by the place it is at, whatever others do.
Sane(r, cn) ==
  /\ r.at # "free" => r.slot \in Slot /\ r.mode # "none"
  /\ r.at # "free" /\ r.slot \in Temp => r.slot <= cn
  /\ \A s \in r.todo : s \in Temp => s <= cn
  /\ r.mode \in Shared => r.slot = r.key /\ r.key \in Key
  /\ r.mode = "temp" => r.slot \in Temp
  /\ r.at \in {"look", "conflict"} => r.mode \in Shared
  /\ r.at \in {"run", "start"} => r.mode \in Shared \cup {"temp"}
  /\ r.at = "clean" => r.mode = "clean"
  /\ r.at = "remove" => r.mode \in Shared \cup {"temp", "clean"}
  /\ r.at \in {"kill", "start", "wait"} => r.slot # Taken
  /\ r.at = "kill" /\ r.mode \in {"clean", "temp"} => r.slot \in Temp
  /\ r.at = "using" => r.pass # 0

\* What is to be removed is of the request's key.
Match(bx, r) == r.at = "kill" /\ r.mode # "docker" => bx[r.slot].key \in {r.key, "none"}

\* A temp that is about to be created is known to nobody else.
NewTemp(r) == r.at = "run" /\ r.mode = "temp"
Avoids(r, s) == r.at # "free" => r.slot # s /\ s \notin r.todo
RunFresh(bx, cl, c) ==
  NewTemp(cl[c]) =>
    /\ bx[cl[c].slot].st = "none"
    /\ \A d \in Caller \ {c} : Avoids(cl[d], cl[c].slot)

PgInvOf(bx, cl, rn, cn) ==
  /\ PgTypes(bx, cl, rn, cn)
  /\ \A s \in Slot : BoxOk(bx[s], s, cn)
  /\ Taken \in Key => bx[Taken] = Squatter
  /\ \A c \in Caller : Sane(cl[c], cn) /\ Match(bx, cl[c]) /\ RunFresh(bx, cl, c)

PgInv == PgInvOf(box, call, runs, calls)

\* The names of the slots.
LEMMA Slots ==
  /\ MaxCall \in Nat /\ MaxRun \in Nat /\ Attempts \in Nat
  /\ Slot = Key \cup Temp /\ \A s \in Slot : s \in Key <=> s \notin Temp
  /\ Taken \notin Temp
BY PgAssumption DEF Slot, Temp

\* A name without a container, and the one that is not Sulion's.
LEMMA EmptyBox == /\ NoBox \in BoxSet /\ NoBox.st = "none" /\ NoBox.key = "none"
                  /\ NoBox.scope = "none" /\ NoBox.pass = 0 /\ NoBox.owner = FALSE
                  /\ Squatter \in BoxSet /\ Squatter.st = "healthy" /\ Squatter.key = "none"
                  /\ Squatter.scope = "none" /\ Squatter.pass = 0 /\ Squatter.owner = FALSE
BY DEF NoBox, Squatter, BoxSet

\* A caller without a request.
LEMMA FreeCall == /\ Free \in CallSet /\ Free.at = "free" /\ Free.mode = "none" /\ Free.todo = {}
                  /\ Free.slot = "none" /\ Free.key = "none" /\ Free.pass = 0 /\ Free.left = 0
                  /\ \A n : Sane(Free, n)
BY Slots DEF Free, CallSet, CallAt, Sane, Shared

\* At first no request is made, and only the squatter runs.
LEMMA PgStarts == PgInit => PgInv
<1> SUFFICES ASSUME PgInit PROVE PgInv
  OBVIOUS
<1>1. PgTypes(box, call, runs, calls)
  BY Slots, EmptyBox, FreeCall DEF PgInit, PgTypes
<1>2. \A s \in Slot : BoxOk(box[s], s, calls)
  BY DEF PgInit, BoxOk
<1>3. Taken \in Key => box[Taken] = Squatter
  BY Slots DEF PgInit
<1>4. \A c \in Caller : Sane(call[c], calls) /\ Match(box, call[c]) /\ RunFresh(box, call, c)
  BY FreeCall DEF PgInit, Match, RunFresh, NewTemp
<1> QED
  BY <1>1, <1>2, <1>3, <1>4 DEF PgInv, PgInvOf

\* Requests that were sane stay sane as more are made.
LEMMA SaneLater ==
  ASSUME NEW r \in CallSet, NEW n \in Nat, NEW m \in Nat, n <= m, Sane(r, n)
  PROVE  Sane(r, m)
BY DEF Sane, Temp, CallSet

\* A request moves on and leaves the containers alone.
LEMMA CallMoves ==
  ASSUME NEW bx, NEW cl, NEW rn, NEW cn, NEW cm \in cn..MaxCall, PgInvOf(bx, cl, rn, cn),
         NEW c \in Caller, NEW r \in CallSet, Sane(r, cm), Match(bx, r),
         NewTemp(r) => /\ bx[r.slot].st = "none"
                       /\ \A d \in Caller \ {c} : Avoids(cl[d], r.slot),
         \A d \in Caller \ {c} : NewTemp(cl[d]) => Avoids(r, cl[d].slot)
  PROVE  PgInvOf(bx, [cl EXCEPT ![c] = r], rn, cm)
<1>0. /\ PgTypes(bx, cl, rn, cn) /\ (\A s \in Slot : BoxOk(bx[s], s, cn))
      /\ cn \in Nat /\ cm \in Nat /\ cn <= cm /\ cm \in 0..MaxCall
  BY Slots DEF PgInvOf, PgTypes
<1> DEFINE cl2 == [cl EXCEPT ![c] = r]
<1>1. cl2 \in [Caller -> CallSet] /\ cl2[c] = r /\ \A d \in Caller \ {c} : cl2[d] = cl[d]
  BY <1>0 DEF PgTypes
<1> HIDE DEF cl2
<1>2. PgTypes(bx, cl2, rn, cm)
  BY <1>0, <1>1 DEF PgTypes
<1>3. \A s \in Slot : BoxOk(bx[s], s, cm)
  BY <1>0, Slots DEF BoxOk, Temp
<1>4. Taken \in Key => bx[Taken] = Squatter
  BY DEF PgInvOf
<1>5. \A d \in Caller : Sane(cl2[d], cm)
  <2> SUFFICES ASSUME NEW d \in Caller, d # c PROVE Sane(cl2[d], cm)
    BY <1>1
  <2>1. Sane(cl[d], cn) /\ cl[d] \in CallSet
    BY <1>0 DEF PgInvOf, PgTypes
  <2> QED
    BY <1>0, <1>1, <2>1, SaneLater
<1>6. \A d \in Caller : Match(bx, cl2[d])
  <2> SUFFICES ASSUME NEW d \in Caller PROVE Match(bx, cl2[d])
    OBVIOUS
  <2>1. Match(bx, cl[d])
    BY DEF PgInvOf
  <2> QED
    BY <1>1, <2>1
<1>7. \A d \in Caller : RunFresh(bx, cl2, d)
  <2> SUFFICES ASSUME NEW d \in Caller, NewTemp(cl2[d])
               PROVE  /\ bx[cl2[d].slot].st = "none"
                      /\ \A e \in Caller \ {d} : Avoids(cl2[e], cl2[d].slot)
    BY DEF RunFresh
  <2>1. CASE d = c
    BY <1>1, <2>1
  <2>2. CASE d # c
    <3>1. NewTemp(cl[d]) /\ cl2[d] = cl[d]
      BY <1>1, <2>2
    <3>2. /\ bx[cl[d].slot].st = "none"
          /\ \A e \in Caller \ {d} : Avoids(cl[e], cl[d].slot)
      BY <3>1 DEF PgInvOf, RunFresh
    <3> QED
      BY <1>1, <2>2, <3>1, <3>2
  <2> QED
    BY <2>1, <2>2
<1>8. PgInvOf(bx, cl2, rn, cm)
  BY <1>2, <1>3, <1>4, <1>5, <1>6, <1>7 DEF PgInvOf
<1> QED
  BY <1>8 DEF cl2

\* The usual move: the name is the same, or one of those to be cleaned.
LEMMA CallGoesOn ==
  ASSUME NEW bx, NEW cl, NEW rn, NEW cn, PgInvOf(bx, cl, rn, cn),
         NEW c \in Caller, NEW r \in CallSet, cl[c].at # "free",
         Sane(r, cn), Match(bx, r), ~NewTemp(r),
         r.at # "free" => r.slot \in {cl[c].slot} \cup cl[c].todo /\ r.todo \subseteq cl[c].todo
  PROVE  PgInvOf(bx, [cl EXCEPT ![c] = r], rn, cn)
<1>1. cn \in cn..MaxCall
  BY Slots DEF PgInvOf, PgTypes
<1>2. \A d \in Caller \ {c} : NewTemp(cl[d]) => Avoids(r, cl[d].slot)
  <2> SUFFICES ASSUME NEW d \in Caller \ {c}, NewTemp(cl[d]) PROVE Avoids(r, cl[d].slot)
    OBVIOUS
  <2>1. Avoids(cl[c], cl[d].slot)
    BY DEF PgInvOf, RunFresh
  <2> QED
    BY <2>1 DEF Avoids
<1> QED
  BY <1>1, <1>2, CallMoves

\* A request that is answered or refused is over.
LEMMA CallFails ==
  ASSUME NEW bx, NEW cl, NEW rn, NEW cn, PgInvOf(bx, cl, rn, cn), NEW c \in Caller
  PROVE  PgInvOf(bx, [cl EXCEPT ![c] = Free], rn, cn)
<1>1. cn \in cn..MaxCall
  BY Slots DEF PgInvOf, PgTypes
<1>2. \A d \in Caller \ {c} : Avoids(Free, cl[d].slot)
  BY FreeCall DEF Avoids
<1>3. Free \in CallSet /\ Sane(Free, cn) /\ Match(bx, Free) /\ ~NewTemp(Free)
  BY FreeCall DEF Match, NewTemp
<1> QED
  BY <1>1, <1>2, <1>3, CallMoves

\* A container changes under its name: it goes, it stays what it is, or it
\* is one that nobody else knows of, or the workspace's own.
LEMMA BoxMoves ==
  ASSUME NEW bx, NEW cl, NEW rn, NEW cn, NEW rm \in rn..MaxRun, PgInvOf(bx, cl, rn, cn),
         NEW s \in Slot, NEW b \in BoxSet, s # Taken,
         BoxOk(b, s, cn), b.pass <= rm,
         \A c \in Caller : NewTemp(cl[c]) /\ cl[c].slot = s => b.st = "none",
         \A c \in Caller : cl[c].slot = s /\ cl[c].at = "kill" /\ cl[c].mode # "docker"
                              => b.key \in {cl[c].key, "none"}
  PROVE  PgInvOf([bx EXCEPT ![s] = b], cl, rm, cn)
<1> DEFINE bx2 == [bx EXCEPT ![s] = b]
<1>0. /\ PgTypes(bx, cl, rn, cn) /\ bx2[s] = b /\ (\A t \in Slot \ {s} : bx2[t] = bx[t])
      /\ bx2 \in [Slot -> BoxSet]
  BY DEF PgInvOf, PgTypes
<1> HIDE DEF bx2
<1>1. PgTypes(bx2, cl, rm, cn)
  <2>1. rn \in Nat /\ rm \in Nat /\ rm \in 0..MaxRun /\ rn <= rm
    BY <1>0, Slots DEF PgTypes
  <2>2. \A t \in Slot : bx[t].pass \in Nat
    BY <1>0 DEF PgTypes, BoxSet
  <2>3. \A t \in Slot : bx2[t].pass <= rm
    BY <1>0, <2>1, <2>2 DEF PgTypes
  <2> QED
    BY <1>0, <2>1, <2>3 DEF PgTypes
<1>2. \A t \in Slot : BoxOk(bx2[t], t, cn)
  BY <1>0 DEF PgInvOf
<1>3. Taken \in Key => bx2[Taken] = Squatter
  BY <1>0, Slots DEF PgInvOf
<1>4. \A c \in Caller : Sane(cl[c], cn)
  BY DEF PgInvOf
<1>5. ASSUME NEW c \in Caller PROVE Match(bx2, cl[c])
  <2>1. Match(bx, cl[c]) /\ (cl[c].at = "kill" => cl[c].slot \in Slot)
    BY DEF PgInvOf, Sane
  <2>2. CASE cl[c].slot = s
    BY <1>0, <2>2 DEF Match
  <2>3. CASE cl[c].slot # s
    BY <1>0, <2>1, <2>3 DEF Match
  <2> QED
    BY <2>2, <2>3
<1>6. ASSUME NEW c \in Caller PROVE RunFresh(bx2, cl, c)
  <2>1. RunFresh(bx, cl, c) /\ (NewTemp(cl[c]) => cl[c].slot \in Slot)
    BY DEF PgInvOf, Sane, NewTemp
  <2>2. NewTemp(cl[c]) => bx2[cl[c].slot].st = "none"
    <3>1. CASE cl[c].slot = s
      BY <1>0, <3>1
    <3>2. CASE cl[c].slot # s
      BY <1>0, <2>1, <3>2 DEF RunFresh
    <3> QED
      BY <3>1, <3>2
  <2> QED
    BY <2>1, <2>2 DEF RunFresh
<1>7. PgInvOf(bx2, cl, rm, cn)
  BY <1>1, <1>2, <1>3, <1>4, <1>5, <1>6 DEF PgInvOf
<1> QED
  BY <1>7 DEF bx2

\* A request at another place is the same otherwise.
LEMMA AtMoved ==
  ASSUME NEW x \in CallSet, NEW a \in CallAt
  PROVE  LET r == [x EXCEPT !.at = a] IN
         /\ r \in CallSet /\ r.at = a /\ r.mode = x.mode /\ r.key = x.key /\ r.slot = x.slot
         /\ r.pass = x.pass /\ r.todo = x.todo
BY DEF CallSet

\* A request that starts to wait, too.
LEMMA WaitMoved ==
  ASSUME NEW x \in CallSet
  PROVE  LET r == [x EXCEPT !.at = "wait", !.left = Attempts] IN
         /\ r \in CallSet /\ r.at = "wait" /\ r.mode = x.mode /\ r.key = x.key /\ r.slot = x.slot
         /\ r.pass = x.pass /\ r.todo = x.todo
<1>1. "wait" \in CallAt /\ Attempts \in 0..Attempts
  BY Slots DEF CallAt
<1> QED
  BY <1>1 DEF CallSet

\* The same name and place in turn.
LEMMA GoKeeps ==
  ASSUME NEW bx, PgInvOf(bx, call, runs, calls), NEW c \in Caller, NEW a \in CallAt, Go(c, a),
         call[c].at # "free", a # "free",
         Sane([call[c] EXCEPT !.at = a], calls), Match(bx, [call[c] EXCEPT !.at = a]),
         a = "run" => call[c].mode # "temp"
  PROVE  PgInvOf(bx, call', runs, calls)
<1>1. call[c] \in CallSet
  BY DEF PgInvOf, PgTypes
<1> DEFINE r == [call[c] EXCEPT !.at = a]
<1>2. /\ r \in CallSet /\ r.at = a /\ r.mode = call[c].mode /\ r.slot = call[c].slot
      /\ r.todo = call[c].todo
  BY <1>1, AtMoved
<1>3. call' = [call EXCEPT ![c] = r] /\ Sane(r, calls) /\ Match(bx, r)
  BY DEF Go, Step
<1> HIDE DEF r
<1>4. ~NewTemp(r)
  BY <1>2 DEF NewTemp
<1>5. PgInvOf(bx, [call EXCEPT ![c] = r], runs, calls)
  BY <1>2, <1>3, <1>4, CallGoesOn
<1> QED
  BY <1>3, <1>5

\* It waits for the container of its name.
LEMMA WaitKeeps ==
  ASSUME NEW bx, PgInvOf(bx, call, runs, calls), NEW c \in Caller,
         Step(c, [call[c] EXCEPT !.at = "wait", !.left = Attempts]),
         call[c].at # "free", call[c].slot # Taken
  PROVE  PgInvOf(bx, call', runs, calls)
<1>1. call[c] \in CallSet /\ Sane(call[c], calls)
  BY DEF PgInvOf, PgTypes
<1> DEFINE r == [call[c] EXCEPT !.at = "wait", !.left = Attempts]
<1>2. /\ r \in CallSet /\ r.at = "wait" /\ r.mode = call[c].mode /\ r.slot = call[c].slot
      /\ r.key = call[c].key /\ r.todo = call[c].todo
  BY <1>1, WaitMoved
<1>3. call' = [call EXCEPT ![c] = r]
  BY DEF Step
<1> HIDE DEF r
<1>4. Sane(r, calls) /\ Match(bx, r) /\ ~NewTemp(r)
  BY <1>1, <1>2 DEF Sane, Match, NewTemp
<1>5. PgInvOf(bx, [call EXCEPT ![c] = r], runs, calls)
  BY <1>2, <1>4, CallGoesOn
<1> QED
  BY <1>3, <1>5

\* After a removal a shared request starts a container, a clean goes on.
LEMMA ContinueKeeps ==
  ASSUME NEW bx, PgInvOf(bx, call, runs, calls), NEW c \in Caller, Continue(c),
         call[c].at \in {"remove", "kill"}
  PROVE  PgInvOf(bx, call', runs, calls)
<1>1. call[c] \in CallSet /\ Sane(call[c], calls)
  BY DEF PgInvOf, PgTypes
<1>2. CASE call[c].mode \in Shared
  <2>1. Go(c, "run") /\ "run" \in CallAt /\ call[c].mode # "temp"
    BY <1>2 DEF Continue, After, Shared, CallAt
  <2>2. Sane([call[c] EXCEPT !.at = "run"], calls)
    BY <1>1, <1>2, <2>1, AtMoved DEF Sane, Shared
  <2>3. Match(bx, [call[c] EXCEPT !.at = "run"])
    BY <1>1, <2>1, AtMoved DEF Match
  <2> QED
    BY <2>1, <2>2, <2>3, GoKeeps
<1>3. CASE call[c].mode = "clean"
  <2>1. Go(c, "clean") /\ "clean" \in CallAt
    BY <1>3 DEF Continue, After, CallAt
  <2>2. Sane([call[c] EXCEPT !.at = "clean"], calls)
    BY <1>1, <1>3, <2>1, AtMoved DEF Sane, Shared
  <2>3. Match(bx, [call[c] EXCEPT !.at = "clean"])
    BY <1>1, <2>1, AtMoved DEF Match
  <2> QED
    BY <2>1, <2>2, <2>3, GoKeeps
<1>4. CASE call[c].mode \notin Shared \cup {"clean"}
  <2>1. Fails(c)
    BY <1>4 DEF Continue, After, Shared
  <2> QED
    BY <2>1, CallFails DEF Fails, Step
<1> QED
  BY <1>2, <1>3, <1>4

\* A valid container is Sulion's.
LEMMA ValidIsOwn ==
  ASSUME PgInv, NEW s \in Slot, NEW k, Valid(box[s], k)
  PROVE  s # Taken /\ box[s].key = k
BY EmptyBox DEF PgInv, PgInvOf, BoxOk, Valid

\* The first inspect.
LEMMA LookKeeps ==
  ASSUME PgInv, NEW c \in Caller, Look(c)
  PROVE  PgInv'
<1>0. /\ PgInvOf(box, call, runs, calls) /\ call[c] \in CallSet /\ Sane(call[c], calls)
      /\ call[c].at = "look" /\ call[c].slot \in Slot /\ call[c].mode \in Shared
      /\ box' = box /\ runs' = runs /\ calls' = calls
  BY DEF PgInv, PgInvOf, PgTypes, Sane, Look
<1> DEFINE b == box[call[c].slot]
<1>1. CASE b.st = "none"
  <2>0. Go(c, "run")
    BY <1>1 DEF Look, Valid
  <2>1. Go(c, "run") /\ "run" \in CallAt /\ call[c].mode # "temp"
    BY <1>0, <2>0 DEF CallAt, Shared
  <2>2. Sane([call[c] EXCEPT !.at = "run"], calls)
    BY <1>0, <2>1, AtMoved DEF Sane, Shared
  <2>3. Match(box, [call[c] EXCEPT !.at = "run"])
    BY <1>0, <2>1, AtMoved DEF Match
  <2>4. PgInvOf(box, call', runs, calls)
    BY <1>0, <2>1, <2>2, <2>3, GoKeeps
  <2> QED
    BY <1>0, <2>4 DEF PgInv
<1>2. CASE b.st # "none" /\ ~Valid(b, call[c].key)
  <2>1. Fails(c)
    BY <1>2 DEF Look
  <2> QED
    BY <1>0, <2>1, CallFails DEF Fails, Step, PgInv
<1>3. CASE Valid(b, call[c].key) /\ Running(b)
  <2>1. Step(c, [call[c] EXCEPT !.at = "wait", !.left = Attempts])
    BY <1>3 DEF Look, Valid
  <2>2. call[c].slot # Taken
    BY <1>0, <1>3, ValidIsOwn
  <2> QED
    BY <1>0, <2>1, <2>2, WaitKeeps DEF PgInv
<1>4. CASE b.st # "none" /\ Valid(b, call[c].key) /\ ~Running(b)
  <2>1. Go(c, "remove") /\ "remove" \in CallAt
    BY <1>4 DEF Look, CallAt
  <2>2. Sane([call[c] EXCEPT !.at = "remove"], calls)
    BY <1>0, <2>1, AtMoved DEF Sane, Shared
  <2>3. Match(box, [call[c] EXCEPT !.at = "remove"])
    BY <1>0, <2>1, AtMoved DEF Match
  <2>4. PgInvOf(box, call', runs, calls)
    BY <1>0, <2>1, <2>2, <2>3, GoKeeps
  <2> QED
    BY <1>0, <2>4 DEF PgInv
<1> QED
  BY <1>1, <1>2, <1>3, <1>4

\* The inspect before a removal: only a container of the key, and never a
\* workspace's in a clean.
LEMMA RemoveKeeps ==
  ASSUME PgInv, NEW c \in Caller, Remove(c)
  PROVE  PgInv'
<1>0. /\ PgInvOf(box, call, runs, calls) /\ call[c] \in CallSet /\ Sane(call[c], calls)
      /\ call[c].at = "remove" /\ call[c].slot \in Slot
      /\ call[c].mode \in Shared \cup {"temp", "clean"}
      /\ box' = box /\ runs' = runs /\ calls' = calls
  BY DEF PgInv, PgInvOf, PgTypes, Sane, Remove
<1> DEFINE b == box[call[c].slot]
<1>1. CASE b.st = "none"
  <2>1. Continue(c)
    BY <1>1 DEF Remove
  <2> QED
    BY <1>0, <2>1, ContinueKeeps DEF PgInv
<1>2. CASE b.st # "none" /\ ~(Valid(b, call[c].key) /\ ScopeAllowed(c))
  <2>1. Fails(c)
    BY <1>2 DEF Remove
  <2> QED
    BY <1>0, <2>1, CallFails DEF Fails, Step, PgInv
<1>3. CASE b.st # "none" /\ Valid(b, call[c].key) /\ ScopeAllowed(c)
  <2>1. Go(c, "kill") /\ "kill" \in CallAt
    BY <1>3 DEF Remove, CallAt
  <2>2. call[c].slot # Taken /\ b.key = call[c].key
    BY <1>0, <1>3, ValidIsOwn
  <2>3. call[c].mode \in {"clean", "temp"} => call[c].slot \in Temp
    <3>1. BoxOk(b, call[c].slot, calls)
      BY <1>0 DEF PgInvOf
    <3> QED
      BY <1>0, <1>3, <2>2, <3>1, Slots, EmptyBox DEF BoxOk, ScopeAllowed,
         Shared
  <2>4. Sane([call[c] EXCEPT !.at = "kill"], calls)
    BY <1>0, <2>1, <2>2, <2>3, AtMoved DEF Sane, Shared
  <2>5. Match(box, [call[c] EXCEPT !.at = "kill"])
    BY <1>0, <2>1, <2>2, AtMoved DEF Match
  <2>6. PgInvOf(box, call', runs, calls)
    BY <1>0, <2>1, <2>4, <2>5, GoKeeps
  <2> QED
    BY <1>0, <2>6 DEF PgInv
<1> QED
  BY <1>1, <1>2, <1>3

\* The removal itself, of whatever now has the name.
LEMMA KillKeeps ==
  ASSUME PgInv, NEW c \in Caller, Kill(c)
  PROVE  PgInv'
<1>0. /\ PgInvOf(box, call, runs, calls) /\ call[c] \in CallSet /\ Sane(call[c], calls)
      /\ call[c].at = "kill" /\ call[c].slot \in Slot /\ call[c].slot # Taken
      /\ runs' = runs /\ calls' = calls
  BY DEF PgInv, PgInvOf, PgTypes, Sane, Kill
<1>1. runs \in runs..MaxRun /\ NoBox.pass <= runs
  BY <1>0, Slots, EmptyBox DEF PgInvOf, PgTypes
<1>2. BoxOk(NoBox, call[c].slot, calls)
  BY DEF BoxOk
<1>3. PgInvOf([box EXCEPT ![call[c].slot] = NoBox], call, runs, calls)
  BY <1>0, <1>1, <1>2, EmptyBox, BoxMoves
<1>4. PgInvOf(box', call, runs, calls)
  BY <1>3 DEF Kill
<1>5. CASE Continue(c)
  BY <1>0, <1>4, <1>5, ContinueKeeps DEF PgInv
<1>6. CASE Fails(c)
  BY <1>0, <1>4, <1>6, CallFails DEF Fails, Step, PgInv
<1> QED
  BY <1>5, <1>6 DEF Kill

\* A start that failed: a temp gives up, a shared request looks again.
LEMMA ConflictKeeps ==
  ASSUME NEW bx, PgInvOf(bx, call, runs, calls), NEW c \in Caller, Conflict(c),
         call[c].at \in {"run", "start"}
  PROVE  PgInvOf(bx, call', runs, calls)
<1>1. /\ call[c] \in CallSet /\ Sane(call[c], calls)
      /\ call[c].mode \in Shared \cup {"temp"}
  BY DEF PgInvOf, PgTypes, Sane
<1>2. CASE call[c].mode = "temp"
  <2>1. Fails(c)
    BY <1>2 DEF Conflict
  <2> QED
    BY <2>1, CallFails DEF Fails, Step
<1>3. CASE call[c].mode # "temp"
  <2>1. Go(c, "conflict") /\ "conflict" \in CallAt
    BY <1>3 DEF Conflict, CallAt
  <2>2. Sane([call[c] EXCEPT !.at = "conflict"], calls)
    BY <1>1, <1>3, <2>1, AtMoved DEF Sane, Shared
  <2>3. Match(bx, [call[c] EXCEPT !.at = "conflict"])
    BY <1>1, <2>1, AtMoved DEF Match
  <2> QED
    BY <2>1, <2>2, <2>3, GoKeeps
<1> QED
  BY <1>2, <1>3

\* docker run: the container of the request comes up under its name, which
\* nobody else has for a temp, and which is the key for a workspace.
LEMMA CreateKeeps ==
  ASSUME PgInv, NEW c \in Caller, RunCreates(c)
  PROVE  PgInv'
<1>0. /\ PgInvOf(box, call, runs, calls) /\ call[c] \in CallSet /\ Sane(call[c], calls)
      /\ call[c].at = "run" /\ call[c].slot \in Slot /\ call[c].mode \in Shared \cup {"temp"}
      /\ calls' = calls /\ runs \in Nat /\ runs <= MaxRun
  BY Slots DEF PgInv, PgInvOf, PgTypes, Sane, RunCreates
<1> DEFINE s == call[c].slot
           b == [st |-> "created", owner |-> TRUE, key |-> call[c].key, pass |-> runs + 1,
                 scope |-> IF call[c].mode = "temp" THEN "temp" ELSE "workspace"]
           r == [call[c] EXCEPT !.at = "start", !.pass = runs + 1]
<1>1. CASE /\ box[s].st = "none" /\ runs < MaxRun /\ runs' = runs + 1
           /\ box' = [box EXCEPT ![s] = b] /\ Step(c, r)
  <2>1. /\ r \in CallSet /\ r.at = "start" /\ r.mode = call[c].mode /\ r.key = call[c].key
        /\ r.slot = s /\ r.todo = call[c].todo
    <3>1. "start" \in CallAt /\ runs + 1 \in Nat
      BY <1>0 DEF CallAt
    <3> QED
      BY <1>0, <3>1 DEF CallSet
  <2>2. b \in BoxSet /\ b.st = "created" /\ b.owner = TRUE /\ b.key = call[c].key
        /\ b.pass = runs + 1
        /\ b.scope = IF call[c].mode = "temp" THEN "temp" ELSE "workspace"
    BY <1>0 DEF BoxSet, CallSet
  <2>3. s # Taken
    <3>1. BoxOk(box[s], s, calls)
      BY <1>0 DEF PgInvOf
    <3>2. Taken \in Key => s # Taken
      BY <1>0, <1>1, EmptyBox DEF PgInvOf
    <3> QED
      BY <1>0, <3>2, Slots
  <2>4. r.at # "kill" /\ r.at # "free"
    BY <2>1
  <2> HIDE DEF r, b
  <2>5. Sane(r, calls) /\ Match(box, r) /\ ~NewTemp(r)
    BY <1>0, <2>1, <2>3 DEF Sane, Match, NewTemp, Shared
  <2>6. PgInvOf(box, [call EXCEPT ![c] = r], runs, calls)
    BY <1>0, <2>1, <2>5, CallGoesOn
  <2>7. call' = [call EXCEPT ![c] = r]
    BY <1>1 DEF Step
  <2>8. PgInvOf(box, call', runs, calls)
    BY <2>6, <2>7
  <2>9. call'[c] = r /\ \A d \in Caller \ {c} : call'[d] = call[d]
    BY <1>0, <2>7 DEF PgInvOf, PgTypes
  <2>10. BoxOk(b, s, calls)
    <3>1. call[c].mode = "temp" => s \in Temp /\ s <= calls
      BY <1>0 DEF Sane
    <3>2. call[c].mode \in Shared => s = call[c].key /\ s \in Key
      BY <1>0 DEF Sane
    <3> QED
      BY <1>0, <2>2, <2>3, <3>1, <3>2, Slots DEF BoxOk, Shared
  <2>11. ASSUME NEW d \in Caller, NewTemp(call'[d]), call'[d].slot = s
         PROVE  b.st = "none"
    <3>1. d # c
      BY <2>4, <2>5, <2>9, <2>11
    <3>2. NewTemp(call[d]) /\ call[d].slot = s
      BY <2>9, <2>11, <3>1
    <3>3. Avoids(call[c], s)
      BY <1>0, <3>1, <3>2 DEF PgInvOf, RunFresh
    <3> QED
      BY <1>0, <3>3 DEF Avoids
  <2>12. ASSUME NEW d \in Caller, call'[d].slot = s, call'[d].at = "kill", call'[d].mode # "docker"
         PROVE  b.key \in {call'[d].key, "none"}
    <3>1. d # c
      BY <2>4, <2>9, <2>12
    <3>2. call'[d] = call[d] /\ Sane(call[d], calls) /\ call[d] \in CallSet
      BY <1>0, <2>9, <3>1 DEF PgInvOf, PgTypes
    <3>3. CASE call[c].mode = "temp"
      <4>1. Avoids(call[d], s)
        BY <1>0, <3>1, <3>3 DEF PgInvOf, RunFresh, NewTemp
      <4> QED
        BY <2>12, <3>2, <4>1 DEF Avoids
    <3>4. CASE call[c].mode \in Shared
      <4>1. s = call[c].key /\ s \in Key
        BY <1>0, <3>4 DEF Sane
      <4>2. s \notin Temp
        BY <1>0, <4>1, Slots
      <4>3. call[d].mode \in Shared
        BY <2>12, <3>2, <4>2 DEF Sane, CallSet
      <4>4. call[d].mode \in Shared => call[d].key = s
        BY <2>12, <3>2 DEF Sane
      <4> QED
        BY <2>2, <3>2, <4>1, <4>3, <4>4
    <3> QED
      BY <1>0, <3>3, <3>4
  <2>13. runs + 1 \in runs..MaxRun /\ b.pass <= runs + 1
    BY <1>0, <1>1, <2>2, Slots
  <2>14. PgInvOf([box EXCEPT ![s] = b], call', runs + 1, calls)
    BY <1>0, <2>2, <2>3, <2>8, <2>10, <2>11, <2>12, <2>13, BoxMoves
  <2> QED
    BY <1>0, <1>1, <2>14 DEF PgInv
<1>2. CASE Conflict(c) /\ UNCHANGED <<box, runs>>
  <2>1. PgInvOf(box, call', runs, calls)
    BY <1>0, <1>2, ConflictKeeps
  <2> QED
    BY <1>0, <1>2, <2>1 DEF PgInv
<1> QED
  BY <1>1, <1>2 DEF RunCreates

\* A container that runs, becomes healthy or exits stays what it is.
LEMMA BoxLives ==
  ASSUME NEW bx, NEW cl, NEW rn, NEW cn, PgInvOf(bx, cl, rn, cn), NEW s \in Slot, s # Taken,
         bx[s].st # "none", NEW a \in {"running", "healthy", "exited"}
  PROVE  PgInvOf([bx EXCEPT ![s] = [bx[s] EXCEPT !.st = a]], cl, rn, cn)
<1> DEFINE b == [bx[s] EXCEPT !.st = a]
<1>0. bx[s] \in BoxSet /\ BoxOk(bx[s], s, cn) /\ rn \in rn..MaxRun /\ bx[s].pass <= rn
  BY Slots DEF PgInvOf, PgTypes
<1>1. /\ b \in BoxSet /\ b.st = a /\ b.owner = bx[s].owner /\ b.key = bx[s].key
      /\ b.scope = bx[s].scope /\ b.pass = bx[s].pass
  BY <1>0 DEF BoxSet
<1> HIDE DEF b
<1>2. BoxOk(b, s, cn)
  BY <1>0, <1>1, EmptyBox DEF BoxOk
<1>3. ASSUME NEW c \in Caller, NewTemp(cl[c]), cl[c].slot = s PROVE b.st = "none"
  BY <1>3 DEF PgInvOf, RunFresh
<1>4. ASSUME NEW c \in Caller, cl[c].slot = s, cl[c].at = "kill", cl[c].mode # "docker"
      PROVE  b.key \in {cl[c].key, "none"}
  BY <1>1, <1>4 DEF PgInvOf, Match
<1>5. PgInvOf([bx EXCEPT ![s] = b], cl, rn, cn)
  BY <1>0, <1>1, <1>2, <1>3, <1>4, BoxMoves
<1> QED
  BY <1>5 DEF b

\* docker run starts what it created, if that is still there.
LEMMA StartKeeps ==
  ASSUME PgInv, NEW c \in Caller, RunStarts(c)
  PROVE  PgInv'
<1>0. /\ PgInvOf(box, call, runs, calls) /\ call[c] \in CallSet /\ Sane(call[c], calls)
      /\ call[c].at = "start" /\ call[c].slot \in Slot /\ call[c].slot # Taken
      /\ calls' = calls /\ runs' = runs
  BY DEF PgInv, PgInvOf, PgTypes, Sane, RunStarts
<1> DEFINE s == call[c].slot
           b == [box[s] EXCEPT !.st = "running"]
<1>1. CASE box[s].pass = call[c].pass /\ box[s].st = "created"
  <2>1. box' = [box EXCEPT ![s].st = "running"]
        /\ Step(c, [call[c] EXCEPT !.at = "wait", !.left = Attempts])
    BY <1>1 DEF RunStarts
  <2>2. PgInvOf([box EXCEPT ![s] = b], call, runs, calls)
    BY <1>0, <1>1, BoxLives
  <2>3. box' = [box EXCEPT ![s] = b]
    BY <2>1
  <2>4. PgInvOf(box', call', runs, calls)
    BY <1>0, <2>1, <2>2, <2>3, WaitKeeps
  <2> QED
    BY <1>0, <2>4 DEF PgInv
<1>2. CASE ~(box[s].pass = call[c].pass /\ box[s].st = "created")
  <2>1. box' = box /\ Conflict(c)
    BY <1>2 DEF RunStarts
  <2>2. PgInvOf(box, call', runs, calls)
    BY <1>0, <2>1, ConflictKeeps
  <2> QED
    BY <1>0, <2>1, <2>2 DEF PgInv
<1> QED
  BY <1>1, <1>2

\* Somebody else's start of the same workspace's container is as good.
LEMMA AdoptKeeps ==
  ASSUME PgInv, NEW c \in Caller, Adopt(c)
  PROVE  PgInv'
<1>0. /\ PgInvOf(box, call, runs, calls) /\ call[c] \in CallSet /\ Sane(call[c], calls)
      /\ call[c].at = "conflict" /\ call[c].slot \in Slot
      /\ box' = box /\ calls' = calls /\ runs' = runs
  BY DEF PgInv, PgInvOf, PgTypes, Sane, Adopt
<1>1. CASE Valid(box[call[c].slot], call[c].key)
  <2>1. Step(c, [call[c] EXCEPT !.at = "wait", !.left = Attempts]) /\ call[c].slot # Taken
    BY <1>0, <1>1, ValidIsOwn DEF Adopt
  <2> QED
    BY <1>0, <2>1, WaitKeeps DEF PgInv
<1>2. CASE ~Valid(box[call[c].slot], call[c].key)
  <2>1. Fails(c)
    BY <1>2 DEF Adopt
  <2> QED
    BY <1>0, <2>1, CallFails DEF Fails, Step, PgInv
<1> QED
  BY <1>1, <1>2

\* The answer carries the password of a container that is Sulion's.
LEMMA WaitStepKeeps ==
  ASSUME PgInv, NEW c \in Caller, Wait(c)
  PROVE  PgInv'
<1>0. /\ PgInvOf(box, call, runs, calls) /\ call[c] \in CallSet /\ Sane(call[c], calls)
      /\ call[c].at = "wait" /\ call[c].slot \in Slot /\ call[c].slot # Taken
      /\ box' = box /\ calls' = calls /\ runs' = runs
  BY DEF PgInv, PgInvOf, PgTypes, Sane, Wait
<1> DEFINE b == box[call[c].slot]
<1>1. CASE b.st = "healthy" /\ Answered(c, b)
  <2> DEFINE r == [call[c] EXCEPT !.at = "using", !.pass = b.pass, !.left = 0]
  <2>1. b.pass \in Nat /\ b.pass # 0
    <3>1. b \in BoxSet /\ BoxOk(b, call[c].slot, calls)
      BY <1>0 DEF PgInvOf, PgTypes
    <3>2. b.pass # 0
      BY <1>0, <1>1, <3>1, EmptyBox DEF BoxOk
    <3> QED
      BY <3>1, <3>2 DEF BoxSet
  <2>2. /\ r \in CallSet /\ r.at = "using" /\ r.mode = call[c].mode /\ r.slot = call[c].slot
        /\ r.key = call[c].key /\ r.todo = call[c].todo /\ r.pass = b.pass
    <3>1. "using" \in CallAt /\ 0 \in 0..Attempts
      BY Slots DEF CallAt
    <3> QED
      BY <1>0, <2>1, <3>1 DEF CallSet
  <2>3. call' = [call EXCEPT ![c] = r]
    BY <1>1 DEF Answered, Step
  <2> HIDE DEF r
  <2>4. Sane(r, calls) /\ Match(box, r) /\ ~NewTemp(r)
    BY <1>0, <2>1, <2>2 DEF Sane, Match, NewTemp
  <2>5. PgInvOf(box, [call EXCEPT ![c] = r], runs, calls)
    BY <1>0, <2>2, <2>4, CallGoesOn
  <2> QED
    BY <1>0, <2>3, <2>5 DEF PgInv
<1>2. CASE Fails(c)
  BY <1>0, <1>2, CallFails DEF Fails, Step, PgInv
<1>3. CASE call[c].left # 0 /\ Step(c, [call[c] EXCEPT !.left = @ - 1])
  <2> DEFINE r == [call[c] EXCEPT !.left = call[c].left - 1]
  <2>1. call[c].left - 1 \in 0..Attempts
    BY <1>0, <1>3, Slots DEF CallSet
  <2>2. /\ r \in CallSet /\ r.at = "wait" /\ r.mode = call[c].mode /\ r.slot = call[c].slot
        /\ r.key = call[c].key /\ r.todo = call[c].todo
    BY <1>0, <2>1 DEF CallSet
  <2>3. call' = [call EXCEPT ![c] = r]
    BY <1>3 DEF Step
  <2> HIDE DEF r
  <2>4. Sane(r, calls) /\ Match(box, r) /\ ~NewTemp(r)
    BY <1>0, <2>2 DEF Sane, Match, NewTemp
  <2>5. PgInvOf(box, [call EXCEPT ![c] = r], runs, calls)
    BY <1>0, <2>2, <2>4, CallGoesOn
  <2> QED
    BY <1>0, <2>3, <2>5 DEF PgInv
<1>4. \/ b.st = "healthy" /\ Answered(c, b)
      \/ Fails(c)
      \/ call[c].left # 0 /\ Step(c, [call[c] EXCEPT !.left = @ - 1])
  BY DEF Wait
<1> QED
  BY <1>1, <1>2, <1>3, <1>4

\* A command that is over: a temp is cleaned up.
LEMMA UseEndsKeeps ==
  ASSUME PgInv, NEW c \in Caller, UseEnds(c)
  PROVE  PgInv'
<1>0. /\ PgInvOf(box, call, runs, calls) /\ call[c] \in CallSet /\ Sane(call[c], calls)
      /\ call[c].at = "using" /\ box' = box /\ calls' = calls /\ runs' = runs
  BY DEF PgInv, PgInvOf, PgTypes, UseEnds
<1>1. CASE Cleanup(c)
  <2>1. Go(c, "remove") /\ "remove" \in CallAt /\ call[c].mode = "temp"
    BY <1>1 DEF Cleanup, CallAt
  <2>2. Sane([call[c] EXCEPT !.at = "remove"], calls)
    BY <1>0, <2>1, AtMoved DEF Sane, Shared
  <2>3. Match(box, [call[c] EXCEPT !.at = "remove"])
    BY <1>0, <2>1, AtMoved DEF Match
  <2>4. PgInvOf(box, call', runs, calls)
    BY <1>0, <2>1, <2>2, <2>3, GoKeeps
  <2> QED
    BY <1>0, <2>4 DEF PgInv
<1>2. CASE Fails(c)
  BY <1>0, <1>2, CallFails DEF Fails, Step, PgInv
<1> QED
  BY <1>1, <1>2 DEF UseEnds

\* What a new request asks for.
LEMMA ContextIs ==
  ASSUME NEW mode \in Shared \cup {"temp", "clean"}, NEW k \in Key,
         NEW s, s = IF mode = "temp" THEN calls + 1 ELSE k, s \in Slot
  PROVE  LET x == Context(mode, k) IN
         /\ x \in CallSet /\ x.at = "free" /\ x.mode = mode /\ x.key = k /\ x.slot = s
         /\ x.todo = {}
<1>1. Free \in CallSet /\ Free.at = "free" /\ Free.todo = {}
  BY FreeCall
<1>2. Context(mode, k) = [Free EXCEPT !.mode = mode, !.key = k, !.slot = s]
  BY DEF Context
<1> QED
  BY <1>1, <1>2 DEF CallSet

\* A new request names its key's container, or one of its own.
LEMMA EnsureKeeps ==
  ASSUME PgInv, NEW c \in Caller, NEW k \in Key, NEW mode \in Shared \cup {"temp"}, Ensure(c, mode, k)
  PROVE  PgInv'
<1>0. /\ PgInvOf(box, call, runs, calls) /\ calls \in Nat /\ calls < MaxCall
      /\ calls' = calls + 1 /\ box' = box /\ runs' = runs /\ calls + 1 \in calls..MaxCall
      /\ calls + 1 \in Temp /\ calls + 1 \in Slot /\ k \in Slot /\ k \notin Temp
  BY Slots DEF PgInv, PgInvOf, PgTypes, Ensure, Temp
<1> DEFINE s == IF mode = "temp" THEN calls + 1 ELSE k
           a == CASE mode = "temp" -> "run" [] mode = "restart" -> "remove" [] OTHER -> "look"
           r == [Context(mode, k) EXCEPT !.at = a]
<1>1. call' = [call EXCEPT ![c] = r]
  BY DEF Ensure, Step
<1>2. a \in {"run", "remove", "look"} /\ a \in CallAt /\ (a = "run" <=> mode = "temp")
      /\ (a = "look" => mode \in Shared)
  BY DEF CallAt, Shared
<1> HIDE DEF a
<1>3. /\ r \in CallSet /\ r.at = a /\ r.mode = mode /\ r.key = k /\ r.slot = s /\ r.todo = {}
  <2> DEFINE x == Context(mode, k)
  <2>1. s \in Slot
    BY <1>0
  <2>2. x \in CallSet /\ x.mode = mode /\ x.key = k /\ x.slot = s /\ x.todo = {}
    BY <2>1, ContextIs
  <2> HIDE DEF x, s
  <2>3. LET y == [x EXCEPT !.at = a] IN
        /\ y \in CallSet /\ y.at = a /\ y.mode = x.mode /\ y.key = x.key /\ y.slot = x.slot
        /\ y.todo = x.todo
    BY <1>2, <2>2, AtMoved
  <2> QED
    BY <2>2, <2>3 DEF x
<1> HIDE DEF r
<1>4. Sane(r, calls + 1)
  <2>1. s \in Slot /\ (s \in Temp => s <= calls + 1) /\ (mode = "temp" => s \in Temp)
        /\ (mode # "temp" => s = k)
    <3>1. CASE mode = "temp"
      BY <1>0, <3>1
    <3>2. CASE mode # "temp"
      BY <1>0, <3>2
    <3> QED
      BY <3>1, <3>2
  <2> HIDE DEF s
  <2> QED
    BY <1>0, <1>2, <1>3, <2>1 DEF Sane, Shared
<1>5. Match(box, r)
  BY <1>2, <1>3 DEF Match
<1>6. ASSUME NewTemp(r)
      PROVE  box[r.slot].st = "none" /\ \A d \in Caller \ {c} : Avoids(call[d], r.slot)
  <2>1. r.slot = calls + 1
    BY <1>3, <1>6 DEF NewTemp
  <2>2. box[calls + 1].st = "none"
    <3>1. BoxOk(box[calls + 1], calls + 1, calls)
      BY <1>0 DEF PgInvOf
    <3> QED
      BY <1>0, <3>1, EmptyBox, Slots DEF BoxOk
  <2>3. ASSUME NEW d \in Caller PROVE Avoids(call[d], calls + 1)
    <3>1. Sane(call[d], calls)
      BY <1>0 DEF PgInvOf
    <3> QED
      BY <1>0, <3>1 DEF Sane, Avoids
  <2> QED
    BY <2>1, <2>2, <2>3
<1>7. ASSUME NEW d \in Caller, NewTemp(call[d]) PROVE Avoids(r, call[d].slot)
  <2>1. call[d].slot \in Temp /\ call[d].slot <= calls
    BY <1>0, <1>7 DEF PgInvOf, Sane, NewTemp
  <2>2. call[d].slot # calls + 1 /\ call[d].slot # k
    BY <1>0, <2>1 DEF Temp
  <2> QED
    BY <1>3, <2>2 DEF Avoids
<1>8. PgInvOf(box, [call EXCEPT ![c] = r], runs, calls + 1)
  BY <1>0, <1>3, <1>4, <1>5, <1>6, <1>7, CallMoves
<1> QED
  BY <1>0, <1>1, <1>8 DEF PgInv

\* A clean lists what is there of its key.
LEMMA CleanKeeps ==
  ASSUME PgInv, NEW c \in Caller, NEW k \in Key, Clean(c, k)
  PROVE  PgInv'
<1>0. /\ PgInvOf(box, call, runs, calls) /\ calls \in Nat /\ calls < MaxCall
      /\ calls' = calls + 1 /\ box' = box /\ runs' = runs /\ calls + 1 \in calls..MaxCall
      /\ k \in Slot /\ k \notin Temp
  BY Slots DEF PgInv, PgInvOf, PgTypes, Clean
<1> DEFINE T == {s \in Slot : Valid(box[s], k)}
           r == [Context("clean", k) EXCEPT !.at = "clean", !.todo = T]
<1>1. call' = [call EXCEPT ![c] = r]
  BY DEF Clean, Step
<1>2. \A s \in T : s \in Slot /\ box[s].st # "none" /\ (s \in Temp => s <= calls)
  <2> SUFFICES ASSUME NEW s \in T PROVE box[s].st # "none" /\ (s \in Temp => s <= calls)
    OBVIOUS
  <2>1. BoxOk(box[s], s, calls) /\ Valid(box[s], k)
    BY <1>0 DEF PgInvOf
  <2> QED
    BY <2>1, EmptyBox, Slots DEF BoxOk, Valid
<1>3. /\ r \in CallSet /\ r.at = "clean" /\ r.mode = "clean" /\ r.key = k /\ r.slot = k /\ r.todo = T
  <2> DEFINE x == Context("clean", k)
  <2>1. x \in CallSet /\ x.mode = "clean" /\ x.key = k /\ x.slot = k
    BY <1>0, ContextIs
  <2>2. "clean" \in CallAt /\ T \subseteq Slot
    BY DEF CallAt
  <2> HIDE DEF T, x
  <2>3. LET y == [x EXCEPT !.at = "clean", !.todo = T] IN
        /\ y \in CallSet /\ y.at = "clean" /\ y.mode = x.mode /\ y.key = x.key /\ y.slot = x.slot
        /\ y.todo = T
    BY <2>1, <2>2 DEF CallSet
  <2> QED
    BY <2>1, <2>3 DEF x
<1> HIDE DEF r, T
<1>4. Sane(r, calls + 1)
  <2>1. \A s \in T : s \in Temp => s <= calls + 1
    BY <1>0, <1>2 DEF Temp
  <2> QED
    BY <1>0, <1>3, <2>1 DEF Sane, Shared
<1>5. Match(box, r) /\ ~NewTemp(r)
  BY <1>3 DEF Match, NewTemp
<1>6. ASSUME NEW d \in Caller, NewTemp(call[d]) PROVE Avoids(r, call[d].slot)
  <2>1. call[d].slot \in Temp /\ box[call[d].slot].st = "none"
    BY <1>0, <1>6 DEF PgInvOf, Sane, NewTemp, RunFresh
  <2> QED
    BY <1>0, <1>2, <1>3, <2>1 DEF Avoids
<1>7. PgInvOf(box, [call EXCEPT ![c] = r], runs, calls + 1)
  BY <1>0, <1>3, <1>4, <1>5, <1>6, CallMoves
<1> QED
  BY <1>0, <1>1, <1>7 DEF PgInv

\* A clean takes the next name.
LEMMA CleanNextKeeps ==
  ASSUME PgInv, NEW c \in Caller, CleanNext(c)
  PROVE  PgInv'
<1>0. /\ PgInvOf(box, call, runs, calls) /\ call[c] \in CallSet /\ Sane(call[c], calls)
      /\ call[c].at = "clean" /\ call[c].mode = "clean"
      /\ box' = box /\ calls' = calls /\ runs' = runs
  BY DEF PgInv, PgInvOf, PgTypes, Sane, CleanNext
<1>1. CASE Fails(c)
  BY <1>0, <1>1, CallFails DEF Fails, Step, PgInv
<1>2. ASSUME NEW s \in call[c].todo, NEW a \in {"clean", "remove"},
             Step(c, [[call[c] EXCEPT !.slot = s, !.todo = call[c].todo \ {s}] EXCEPT !.at = a])
      PROVE  PgInv'
  <2> DEFINE T == call[c].todo \ {s}
             r == [[call[c] EXCEPT !.slot = s, !.todo = T] EXCEPT !.at = a]
  <2>1. s \in Slot /\ T \subseteq Slot /\ a \in CallAt /\ (s \in Temp => s <= calls)
    BY <1>0 DEF CallSet, CallAt, Sane
  <2>2. /\ r \in CallSet /\ r.at = a /\ r.mode = "clean" /\ r.slot = s /\ r.todo = T
    BY <1>0, <2>1 DEF CallSet
  <2>3. call' = [call EXCEPT ![c] = r]
    BY <1>2 DEF Step
  <2> HIDE DEF r
  <2>4. Sane(r, calls) /\ Match(box, r) /\ ~NewTemp(r)
    BY <1>0, <2>1, <2>2 DEF Sane, Match, NewTemp, Shared
  <2>5. PgInvOf(box, [call EXCEPT ![c] = r], runs, calls)
    BY <1>0, <2>2, <2>4, CallGoesOn
  <2> QED
    BY <1>0, <2>3, <2>5 DEF PgInv
<1>3. ASSUME NEW s \in call[c].todo, ~Fails(c),
             LET on == [call[c] EXCEPT !.slot = s, !.todo = @ \ {s}]
                 b == box[s]
             IN CASE b.st = "none" -> Step(c, on)
                  [] b.st # "none" /\ ~Valid(b, call[c].key) -> Fails(c)
                  [] OTHER -> Step(c, IF b.scope = "temp" \/ ~Running(b)
                                      THEN [on EXCEPT !.at = "remove"] ELSE on)
      PROVE  PgInv'
  <2> DEFINE on == [call[c] EXCEPT !.slot = s, !.todo = call[c].todo \ {s}]
  <2>1. Step(c, on) \/ Step(c, [on EXCEPT !.at = "remove"])
    BY <1>3
  <2>2. [on EXCEPT !.at = "clean"] = on
    BY <1>0 DEF CallSet
  <2> QED
    BY <1>2, <2>1, <2>2
<1> QED
  BY <1>1, <1>3 DEF CleanNext

\* `docker rm` of a container that is Sulion's.
LEMMA DockerKeeps ==
  ASSUME PgInv, NEW c \in Caller, NEW s \in Slot, DockerChecks(c, s)
  PROVE  PgInv'
<1>0. /\ PgInvOf(box, call, runs, calls) /\ calls \in Nat /\ calls < MaxCall
      /\ calls' = calls + 1 /\ box' = box /\ runs' = runs /\ calls + 1 \in calls..MaxCall
      /\ box[s].st # "none" /\ box[s].owner /\ BoxOk(box[s], s, calls)
  BY Slots DEF PgInv, PgInvOf, PgTypes, DockerChecks, OwnedTarget
<1> DEFINE r == [Free EXCEPT !.at = "kill", !.mode = "docker", !.slot = s]
<1>1. call' = [call EXCEPT ![c] = r]
  BY DEF DockerChecks, Step
<1>2. s # Taken /\ (s \in Temp => s <= calls)
  BY <1>0, EmptyBox DEF BoxOk
<1>3. r \in CallSet /\ r.at = "kill" /\ r.mode = "docker" /\ r.slot = s /\ r.todo = {}
  <2>1. "kill" \in CallAt
    BY DEF CallAt
  <2> QED
    BY <2>1, FreeCall DEF CallSet
<1> HIDE DEF r
<1>4. Sane(r, calls + 1)
  <2>1. s \in Temp => s <= calls + 1
    BY <1>0, <1>2 DEF Temp
  <2> QED
    BY <1>0, <1>2, <1>3, <2>1 DEF Sane, Shared
<1>5. Match(box, r) /\ ~NewTemp(r)
  BY <1>3 DEF Match, NewTemp
<1>6. ASSUME NEW d \in Caller, NewTemp(call[d]) PROVE Avoids(r, call[d].slot)
  <2>1. box[call[d].slot].st = "none"
    BY <1>0, <1>6 DEF PgInvOf, RunFresh
  <2> QED
    BY <1>0, <1>3, <2>1 DEF Avoids
<1>7. PgInvOf(box, [call EXCEPT ![c] = r], runs, calls + 1)
  BY <1>0, <1>3, <1>4, <1>5, <1>6, CallMoves
<1> QED
  BY <1>0, <1>1, <1>7 DEF PgInv

\* Containers become healthy, exit and go by themselves.
LEMMA DockerDaemonKeeps ==
  ASSUME PgInv, NEW s \in Slot, BoxHealthy(s) \/ BoxExits(s) \/ BoxGoes(s)
  PROVE  PgInv'
<1>0. /\ PgInvOf(box, call, runs, calls) /\ call' = call /\ calls' = calls /\ runs' = runs
      /\ box \in [Slot -> BoxSet]
  BY DEF PgInv, PgInvOf, PgTypes, BoxHealthy, BoxExits, BoxGoes
<1>1. CASE BoxHealthy(s)
  <2>1. s # Taken /\ box[s].st # "none"
        /\ box' = [box EXCEPT ![s] = [box[s] EXCEPT !.st = "healthy"]]
    BY <1>0, <1>1 DEF BoxHealthy
  <2>2. PgInvOf([box EXCEPT ![s] = [box[s] EXCEPT !.st = "healthy"]], call, runs, calls)
    BY <1>0, <2>1, BoxLives
  <2> QED
    BY <1>0, <2>1, <2>2 DEF PgInv
<1>2. CASE BoxExits(s)
  <2>1. s # Taken /\ box[s].st # "none"
        /\ box' = [box EXCEPT ![s] = [box[s] EXCEPT !.st = "exited"]]
    BY <1>0, <1>2 DEF BoxExits, Running
  <2>2. PgInvOf([box EXCEPT ![s] = [box[s] EXCEPT !.st = "exited"]], call, runs, calls)
    BY <1>0, <2>1, BoxLives
  <2> QED
    BY <1>0, <2>1, <2>2 DEF PgInv
<1>3. CASE BoxGoes(s)
  <2>1. box[s].st = "exited" /\ box' = [box EXCEPT ![s] = NoBox]
    BY <1>3 DEF BoxGoes
  <2>2. s # Taken
    BY <1>0, <2>1, EmptyBox, Slots DEF PgInvOf
  <2>3. BoxOk(NoBox, s, calls) /\ runs \in runs..MaxRun /\ NoBox.pass <= runs
    BY <1>0, EmptyBox, Slots DEF BoxOk, PgInvOf, PgTypes
  <2>4. PgInvOf([box EXCEPT ![s] = NoBox], call, runs, calls)
    BY <1>0, <2>2, <2>3, EmptyBox, BoxMoves
  <2> QED
    BY <1>0, <2>1, <2>4 DEF PgInv
<1> QED
  BY <1>1, <1>2, <1>3

\* Every step of the service keeps its invariant.
LEMMA PgStepKeeps == PgInv /\ [PgNext]_pgVars => PgInv'
<1> SUFFICES ASSUME PgInv, [PgNext]_pgVars PROVE PgInv'
  OBVIOUS
<1>1. ASSUME NEW c \in Caller, NEW k \in Key,
             Clean(c, k) \/ \E mode \in {"reuse", "restart", "temp"} : Ensure(c, mode, k)
      PROVE  PgInv'
  BY <1>1, CleanKeeps, EnsureKeeps DEF Shared
<1>2. ASSUME NEW c \in Caller, PgStep(c) PROVE PgInv'
  BY <1>2, LookKeeps, RemoveKeeps, KillKeeps, CreateKeeps, StartKeeps,
     AdoptKeeps, WaitStepKeeps,
     CleanNextKeeps DEF PgStep
<1>3. ASSUME NEW c \in Caller, UseEnds(c) PROVE PgInv'
  BY <1>3, UseEndsKeeps
<1>4. ASSUME NEW c \in Caller, NEW s \in Slot, DockerChecks(c, s) PROVE PgInv'
  BY <1>4, DockerKeeps
<1>5. ASSUME NEW s \in Slot, BoxHealthy(s) \/ BoxExits(s) \/ BoxGoes(s) PROVE PgInv'
  BY <1>5, DockerDaemonKeeps
<1>6. CASE UNCHANGED pgVars
  BY <1>6 DEF pgVars, PgInv
<1> QED
  BY <1>1, <1>2, <1>3, <1>4, <1>5, <1>6 DEF PgNext

\* While the service is not in focus it rests.
LEMMA PgFocus ==
  ASSUME [Next]_workbenchVars
  PROVE  [PgNext]_pgVars
BY DEF Next, OthersRest, workbenchVars

\* For any callers, workspaces and containers: nobody is handed a container
\* that is not the workspace's own, the one that is not Sulion's is never
\* touched, and no clean removes a workspace's database, though every
\* decision rests on an inspect that others may have outdated.
THEOREM ServicesAreSpared == Spec => ServicesSpared
<1>1. Init => PgInv
  BY PgStarts DEF Init
<1>2. PgInv /\ [Next]_workbenchVars => PgInv'
  BY PgFocus, PgStepKeeps
<1>3. PgInv => OnlyOwnServices
  BY DEF PgInv, PgInvOf, OnlyOwnServices, Sane, Match
<1>4. PgInv /\ [Next]_workbenchVars =>
        [\A c \in Caller :
           call[c].at = "kill" /\ call[c].mode \in {"clean", "temp"} /\ call'[c].at # "kill"
             => box[call[c].slot].scope # "workspace"]_pgVars
  <2> SUFFICES ASSUME PgInv, NEW c \in Caller, call[c].at = "kill",
                      call[c].mode \in {"clean", "temp"}
               PROVE  box[call[c].slot].scope # "workspace"
    OBVIOUS
  <2>1. call[c].slot \in Temp /\ call[c].slot \in Slot
    BY DEF PgInv, PgInvOf, Sane
  <2>2. BoxOk(box[call[c].slot], call[c].slot, calls)
    BY <2>1 DEF PgInv, PgInvOf
  <2> QED
    BY <2>1, <2>2, EmptyBox, Slots DEF BoxOk
<1> QED
  BY <1>1, <1>2, <1>3, <1>4, PTL DEF Spec, ServicesSpared,
     CleanSparesWorkspace

=============================================================================
