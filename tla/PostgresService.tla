--------------------------- MODULE PostgresService ---------------------------
(***************************************************************************)
(* The container runner's Postgres service (container_runner.rs and        *)
(* container_runner/postgres.rs): callers ask for a database that their    *)
(* workspace shares (reuse), for a new one in its place (restart) or for   *)
(* one of their own (temp), use it, and clean up.  The runner keeps no     *)
(* state and takes no lock: every decision is made on a docker inspect     *)
(* that another request may have outdated by the time docker is called.    *)
(*                                                                         *)
(* A container name is a slot: one per workspace key and one for the       *)
(* temporary container of a request.  The password is the number of the    *)
(* run that started the container.  Containers are started with --rm, so   *)
(* an exited one is soon gone.  The name of key Taken belongs to a         *)
(* container that is not Sulion's.                                         *)
(***************************************************************************)
EXTENDS Integers, FiniteSets

CONSTANTS Caller,       \* processes of `sulion postgres` and `docker`
          Key, Taken,   \* workspace keys; the one whose name is not ours
          MaxRun,       \* bound on the containers started
          MaxCall,      \* bound on the requests
          Attempts      \* HEALTH_ATTEMPTS

ASSUME PgAssumption ==
  /\ {MaxRun, MaxCall, Attempts} \subseteq Nat
  /\ Key \cap 1..MaxCall = {} /\ Taken \notin 1..MaxCall

VARIABLES box,          \* the container of each name
          call,         \* each caller's request
          runs, calls

pgVars == <<box, call, runs, calls>>

Slot == Key \cup 1..MaxCall     \* a temp is named by its request
NoBox == [st |-> "none", owner |-> FALSE, key |-> "none", scope |-> "none", pass |-> 0]
Squatter == [NoBox EXCEPT !.st = "healthy"]
Free == [at |-> "free", mode |-> "none", key |-> "none", slot |-> "none",
         left |-> 0, pass |-> 0, todo |-> {}]

PgInit ==
  /\ box = [s \in Slot |-> IF s = Taken THEN Squatter ELSE NoBox]
  /\ call = [c \in Caller |-> Free] /\ runs = 0 /\ calls = 0

Running(b) == b.st \in {"running", "healthy"}
Step(c, r) == call' = [call EXCEPT ![c] = r]
Go(c, a) == Step(c, [call[c] EXCEPT !.at = a])
Fails(c) == Step(c, Free)

\* validate_postgres_container: the owner, service and key labels.
Valid(b, k) == b.st # "none" /\ b.owner /\ b.key = k

-----------------------------------------------------------------------------
\* postgres_context: the name is the key's, or a new one for a temp.
Context(mode, k) ==
  [Free EXCEPT !.mode = mode, !.key = k, !.slot = IF mode = "temp" THEN calls + 1 ELSE k]

\* ensure_postgres_service.
Ensure(c, mode, k) ==
  /\ call[c] = Free /\ calls < MaxCall /\ calls' = calls + 1
  /\ Step(c, [Context(mode, k) EXCEPT
                !.at = CASE mode = "temp" -> "run" [] mode = "restart" -> "remove" [] OTHER -> "look"])
  /\ UNCHANGED <<box, runs>>

\* ensure_reusable_postgres: the first inspect.
Look(c) ==
  /\ call[c].at = "look"
  /\ LET b == box[call[c].slot] IN
       CASE b.st = "none" -> Go(c, "run")
         [] b.st # "none" /\ ~Valid(b, call[c].key) -> Fails(c)
         [] Valid(b, call[c].key) /\ Running(b) ->
              Step(c, [call[c] EXCEPT !.at = "wait", !.left = Attempts])
         [] OTHER -> Go(c, "remove")
  /\ UNCHANGED <<box, runs, calls>>

\* What follows a removal: a start, the next name of a clean, or the end.
After(c) ==
  CASE call[c].mode \in {"reuse", "restart"} -> "run"
    [] call[c].mode = "clean" -> "clean"
    [] OTHER -> "free"

Continue(c) == IF After(c) = "free" THEN Fails(c) ELSE Go(c, After(c))

\* Mutant: the scope label is not looked at before the removal.
ScopeAny(c) == TRUE

\* remove_matching_postgres_container: an inspect of its own, then rm -f.
ScopeAllowed(c) == call[c].mode \in {"reuse", "restart"} \/ box[call[c].slot].scope # "workspace"

Remove(c) ==
  /\ call[c].at = "remove"
  /\ LET b == box[call[c].slot] IN
       CASE b.st = "none" -> Continue(c)
         [] b.st # "none" /\ ~(Valid(b, call[c].key) /\ ScopeAllowed(c)) -> Fails(c)
         [] OTHER -> Go(c, "kill")
  /\ UNCHANGED <<box, runs, calls>>

\* docker rm -f; of a name that is gone it succeeds or fails by version.
Kill(c) ==
  /\ call[c].at = "kill"
  /\ box' = [box EXCEPT ![call[c].slot] = NoBox]
  /\ Continue(c) \/ (box[call[c].slot].st = "none" /\ Fails(c))
  /\ UNCHANGED <<runs, calls>>

-----------------------------------------------------------------------------
\* start_postgres_container: docker run creates the container under its name
\* and then starts it; it fails when the name is taken, when the container
\* is removed under it, and for reasons of its own.
Conflict(c) == IF call[c].mode = "temp" THEN Fails(c) ELSE Go(c, "conflict")

RunCreates(c) ==
  /\ call[c].at = "run"
  /\ \/ /\ box[call[c].slot].st = "none" /\ runs < MaxRun /\ runs' = runs + 1
        /\ box' = [box EXCEPT ![call[c].slot] =
                     [st |-> "created", owner |-> TRUE, key |-> call[c].key, pass |-> runs + 1,
                      scope |-> IF call[c].mode = "temp" THEN "temp" ELSE "workspace"]]
        /\ Step(c, [call[c] EXCEPT !.at = "start", !.pass = runs + 1])
     \/ Conflict(c) /\ UNCHANGED <<box, runs>>
  /\ UNCHANGED calls

RunStarts(c) ==
  /\ call[c].at = "start"
  /\ IF box[call[c].slot].pass = call[c].pass /\ box[call[c].slot].st = "created"
     THEN /\ box' = [box EXCEPT ![call[c].slot].st = "running"]
          /\ Step(c, [call[c] EXCEPT !.at = "wait", !.left = Attempts])
     ELSE box' = box /\ Conflict(c)
  /\ UNCHANGED <<runs, calls>>

\* start_postgres_and_wait, after a failure: the workspace's container may
\* have been started by somebody else.
Adopt(c) ==
  /\ call[c].at = "conflict"
  /\ IF Valid(box[call[c].slot], call[c].key)
     THEN Step(c, [call[c] EXCEPT !.at = "wait", !.left = Attempts]) ELSE Fails(c)
  /\ UNCHANGED <<box, runs, calls>>

\* wait_for_postgres: an inspect by name every half second, so many times;
\* the answer has the password found in that inspect.
Answered(c, b) == Step(c, [call[c] EXCEPT !.at = "using", !.pass = b.pass, !.left = 0])

Wait(c) ==
  /\ call[c].at = "wait"
  /\ LET b == box[call[c].slot] IN
       CASE b.st = "healthy" -> Answered(c, b)
         [] b.st = "exited" \/ (b.st # "healthy" /\ call[c].left = 0) -> Fails(c)
         [] OTHER -> Step(c, [call[c] EXCEPT !.left = @ - 1])
  /\ UNCHANGED <<box, runs, calls>>

\* run_with_postgres: the command ends, and a temp is cleaned up; or the
\* client is killed and nothing is.
Cleanup(c) == call[c].mode = "temp" /\ Go(c, "remove")

UseEnds(c) ==
  /\ call[c].at = "using"
  /\ Cleanup(c) \/ Fails(c)
  /\ UNCHANGED <<box, runs, calls>>

-----------------------------------------------------------------------------
\* clean_postgres_service: the names of the key, then one after the other; a
\* temp, or anything that is not running, is to go.  A refusal ends it.
Clean(c, k) ==
  /\ call[c] = Free /\ calls < MaxCall /\ calls' = calls + 1
  /\ Step(c, [Context("clean", k) EXCEPT !.at = "clean",
                !.todo = {s \in Slot : Valid(box[s], k)}])
  /\ UNCHANGED <<box, runs>>

CleanNext(c) ==
  /\ call[c].at = "clean"
  /\ IF call[c].todo = {} THEN Fails(c)
     ELSE \E s \in call[c].todo :
       LET on == [call[c] EXCEPT !.slot = s, !.todo = @ \ {s}]
           b == box[s]
       IN CASE b.st = "none" -> Step(c, on)
            [] b.st # "none" /\ ~Valid(b, call[c].key) -> Fails(c)
            [] OTHER -> Step(c, IF b.scope = "temp" \/ ~Running(b) THEN [on EXCEPT !.at = "remove"] ELSE on)
  /\ UNCHANGED <<box, runs, calls>>

OwnedTarget(s) == box[s].st # "none" /\ box[s].owner

DockerChecks(c, s) ==
  /\ call[c] = Free /\ calls < MaxCall /\ calls' = calls + 1 /\ OwnedTarget(s)
  /\ Step(c, [Free EXCEPT !.at = "kill", !.mode = "docker", !.slot = s])
  /\ UNCHANGED <<box, runs>>

\* Docker: a container becomes healthy, exits, and is removed (external).
BoxHealthy(s) ==
  /\ s # Taken /\ box[s].st = "running" /\ box' = [box EXCEPT ![s].st = "healthy"]
  /\ UNCHANGED <<call, runs, calls>>

BoxExits(s) ==
  /\ s # Taken /\ Running(box[s]) /\ box' = [box EXCEPT ![s].st = "exited"]
  /\ UNCHANGED <<call, runs, calls>>

BoxGoes(s) ==
  /\ box[s].st = "exited" /\ box' = [box EXCEPT ![s] = NoBox]
  /\ UNCHANGED <<call, runs, calls>>

PgStep(c) ==
  \/ Look(c) \/ Remove(c) \/ Kill(c) \/ RunCreates(c) \/ RunStarts(c) \/ Adopt(c)
  \/ Wait(c) \/ CleanNext(c)

PgNext ==
  \/ \E c \in Caller, k \in Key :
       Clean(c, k) \/ \E mode \in {"reuse", "restart", "temp"} : Ensure(c, mode, k)
  \/ \E c \in Caller : PgStep(c) \/ UseEnds(c) \/ \E s \in Slot : DockerChecks(c, s)
  \/ \E s \in Slot : BoxHealthy(s) \/ BoxExits(s) \/ BoxGoes(s)

\* A request goes on by itself; docker answers every command.
PgFairness == \A c \in Caller : WF_pgVars(PgStep(c))
-----------------------------------------------------------------------------
PgTypeOK ==
  /\ runs \in 0..MaxRun /\ calls \in 0..MaxCall
  /\ \A s \in Slot : box[s].pass \in 0..runs
  /\ \A c \in Caller : call[c].left \in 0..Attempts /\ call[c].todo \subseteq Slot

\* A container that is not the workspace's own service is neither handed out
\* nor removed, whatever the requests do to each other's containers between
\* an inspect and the docker command that follows it.
OnlyOwnServices ==
  /\ Taken \in Key => box[Taken] = Squatter
  /\ \A c \in Caller :
       /\ call[c].at = "using" => call[c].pass # 0
       /\ call[c].at = "kill" /\ call[c].mode # "docker" =>
            box[call[c].slot].key \in {call[c].key, "none"}

\* A clean or the cleanup of a temp never removes a workspace's database,
\* even one that was not running when it was listed.
CleanSparesWorkspace ==
  [][\A c \in Caller :
       call[c].at = "kill" /\ call[c].mode \in {"clean", "temp"} /\ call'[c].at # "kill"
         => box[call[c].slot].scope # "workspace"]_pgVars

\* Every request is answered or refused, though the container it waits for
\* may be removed and replaced by others.
EnsureReturns == \A c \in Caller : call[c].at # "free" ~> call[c].at \in {"using", "free"}
=============================================================================
