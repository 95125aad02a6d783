---------------------------- MODULE DemoSessions ----------------------------
(***************************************************************************)
(* Demonstration sessions: they are prepared, restarted and read, and their *)
(* documents are drawn up. A command that writes runs transactions of      *)
(* several statements; the database has unique indexes on the CNPJ of      *)
(* companies, on demo_document_keys and, for active sessions only, on the  *)
(* owner. An insert waits for an open transaction that holds the same      *)
(* index entry and fails with P2002 if the entry is committed.             *)
(*                                                                         *)
(* An operator called X_Faulty... is X with a plausible mistake in it: no   *)
(* definition uses it, the mutation runs put it in X's place.              *)
(***************************************************************************)
EXTENDS Cnpj, FiniteSets

CONSTANTS
  Owners,         (* Users who ask for a demonstration.                    *)
  Commands,       (* Requests about sessions, numbered as they come.       *)
  OwnersOf,       (* Bound: whose each command may be.                     *)
  Seeds,          (* Random bytes CNPJs are made from.                     *)
  TakenCnpjs,     (* CNPJs of companies that are no demonstration.         *)
  Keys,           (* Access keys of a document a session may be given.     *)
  ProcessedKeys,  (* Access keys found in processed_invoices.              *)
  Identities,     (* Bound: the identities that may be drawn.              *)
  MaxIdentityAttempts,
  None            (* No session, or a NULL column.                         *)

Cnpjs == TakenCnpjs \cup {identity.cnpj : identity \in Identities}

\* What the registration of companies takes for a CNPJ.
Valid == {cnpj \in Cnpjs : IsValidCnpj(cnpj)}

\* newDemoIdentity: a CNPJ from random bytes, and a key derived from the session's UUID.
NewDemoIdentity(seed, key) == [cnpj |-> GenerateSyntheticCnpj(seed), key |-> key]

\* A session is named for the command and the attempt that draw its UUID.
Ids == Commands \X (1 .. MaxIdentityAttempts)

Session == [owner : Owners, state : {"ACTIVE", "ARCHIVED"}, successor : Ids \cup {None},
            cnpj : Cnpjs, key : Keys]

ASSUME DemoAssumption ==
  /\ Commands \subseteq Nat
  /\ MaxIdentityAttempts \in Nat \ {0}
  /\ OwnersOf \in [Commands -> SUBSET Owners]
  /\ ProcessedKeys \subseteq Keys
  /\ \A seed \in Seeds : DOMAIN seed = 1 .. 8 /\ \A i \in 1 .. 8 : seed[i] \in 0 .. 255
  /\ Identities \subseteq {NewDemoIdentity(seed, key) : seed \in Seeds, key \in Keys}
  /\ Invalid \notin Cnpjs
  /\ None \notin Ids \cup Session \cup Cnpjs \cup Keys \cup Owners

VARIABLES
  sessions,  (* The committed rows of demo_sessions.                       *)
  claims,    (* Index entries each open transaction has inserted.          *)
  command    (* Where each command stands.                                 *)

vars == <<sessions, claims, command>>

Entries == ({"cnpj"} \X Cnpjs) \cup ({"key"} \X Keys) \cup ({"active"} \X Owners)

CommandStates == {"idle", "looking", "locking", "inserting", "rereading", "rendering",
                  "answered", "notFound", "archived", "unavailable", "failed"}

Command == [state : CommandStates, kind : {"prepare", "restart", "current", "document"},
            owner : Owners \cup {None}, target : Ids \cup {None},
            attempt : 1 .. MaxIdentityAttempts,
            collided : 0 .. MaxIdentityAttempts,   (* Identities that collided. *)
            cnpj : Cnpjs \cup {None}, key : Keys \cup {None},
            answer : Ids \cup {None}]

TypeOK ==
  /\ sessions \in [Ids -> Session \cup {None}]
  /\ claims \in [Commands -> SUBSET Entries]
  /\ command \in [Commands -> Command]

Blank == [state |-> "idle", kind |-> "prepare", owner |-> None, target |-> None, attempt |-> 1,
          collided |-> 0, cnpj |-> None, key |-> None, answer |-> None]

Init ==
  /\ sessions = [id \in Ids |-> None]
  /\ claims = [c \in Commands |-> {}]
  /\ command = [c \in Commands |-> Blank]

At(c, state) == command[c].state = state

Known == {id \in Ids : sessions[id] # None}

Active(owner) ==
  {id \in Ids : /\ sessions[id] # None
                /\ sessions[id].owner = owner /\ sessions[id].state = "ACTIVE"}

\* What a command was for is kept with its answer, its locals are gone.
Answers(c, id) ==
  command' = [command EXCEPT ![c] =
    [Blank EXCEPT !.state = "answered", !.answer = id,
                  !.kind = command[c].kind, !.owner = command[c].owner,
                  !.target = command[c].target]]

Ends(c, state) == command' = [command EXCEPT ![c] = [Blank EXCEPT !.state = state]]

\* The command without the identity it may have drawn.
Without(cmd) == [cmd EXCEPT !.cnpj = None, !.key = None]

\* The transaction is rolled back and the loop goes on, or gives up with 503.
TriesAgain(c, collisions) ==
  LET cmd == command[c] IN
  /\ claims' = [claims EXCEPT ![c] = {}]
  /\ command' = [command EXCEPT ![c] =
       IF cmd.attempt = MaxIdentityAttempts
       THEN [Blank EXCEPT !.state = "unavailable", !.collided = cmd.collided + collisions]
       ELSE [Without(cmd) EXCEPT !.state = IF cmd.kind = "prepare" THEN "looking" ELSE "locking",
                                 !.attempt = cmd.attempt + 1,
                                 !.collided = cmd.collided + collisions]]

\* identity(), and the reading of processed_invoices for its keys.
DrawsIdentity(c, entries) ==
  \E identity \in Identities :
    IF identity.key \in ProcessedKeys
    THEN TriesAgain(c, 1)
    ELSE /\ claims' = [claims EXCEPT ![c] = entries]
         /\ command' = [command EXCEPT ![c] =
              [@ EXCEPT !.state = "inserting", !.cnpj = identity.cnpj, !.key = identity.key]]

-----------------------------------------------------------------------------
\* The next command to come.
Comes(c) == At(c, "idle") /\ \A d \in Commands : d < c => ~At(d, "idle")

Prepare(c, owner) ==
  /\ Comes(c)
  /\ command' = [command EXCEPT ![c] = [@ EXCEPT !.state = "looking", !.owner = owner]]
  /\ UNCHANGED <<sessions, claims>>

\* Of a session that is there, whoever its owner, or of no session.
Restart(c, owner, id) ==
  /\ Comes(c)
  /\ command' = [command EXCEPT ![c] = [@ EXCEPT !.state = "locking", !.kind = "restart",
                                                 !.owner = owner, !.target = id]]
  /\ UNCHANGED <<sessions, claims>>

\* A reading: the active session, or 404.
GetCurrent(c, owner) ==
  /\ Comes(c)
  /\ command' = [command EXCEPT ![c] =
       [Blank EXCEPT !.kind = "current", !.owner = owner,
                     !.state = IF Active(owner) = {} THEN "notFound" ELSE "answered",
                     !.answer = IF Active(owner) = {} THEN None ELSE CHOOSE id \in Active(owner) : TRUE]]
  /\ UNCHANGED <<sessions, claims>>

\* findByIdForOwner finds one's own session only: 404, 409 once it is archived,
\* or a document is drawn up, which takes time.
GetDocument(c, owner, id) ==
  LET owned == id # None /\ sessions[id].owner = owner
  IN /\ Comes(c)
     /\ command' = [command EXCEPT ![c] =
          [Blank EXCEPT !.kind = "document", !.owner = owner, !.target = id,
                        !.state = IF ~owned THEN "notFound"
                                  ELSE IF sessions[id].state = "ACTIVE" THEN "rendering"
                                  ELSE "archived"]]
     /\ UNCHANGED <<sessions, claims>>

\* deriveDemoAccessKey: the key that was registered with the session.
RenderDocument(c) ==
  /\ At(c, "rendering")
  /\ command' = [command EXCEPT ![c].state = "answered", ![c].answer = command[c].target,
                                ![c].key = sessions[command[c].target].key]
  /\ UNCHANGED <<sessions, claims>>

FindActive(c) ==
  /\ At(c, "looking")
  /\ \E id \in Active(command[c].owner) : Answers(c, id)
  /\ UNCHANGED <<sessions, claims>>

BeginCreation(c) ==
  /\ At(c, "looking")
  /\ Active(command[c].owner) = {}
  /\ DrawsIdentity(c, {})
  /\ UNCHANGED sessions

RowFree_FaultyNoForUpdate(c) == TRUE

\* SELECT ... FOR UPDATE waits for the restart that holds the row.
RowFree(c) ==
  \A d \in Commands \ {c} :
    At(d, "inserting") /\ command[d].kind = "restart" => command[d].target # command[c].target

Target(c) == sessions[command[c].target]
Owned(c) ==
  command[c].target # None /\ Target(c) # None /\ Target(c).owner = command[c].owner

RestartUnknown(c) ==
  /\ At(c, "locking")
  /\ RowFree(c)
  /\ ~Owned(c)
  /\ Ends(c, "notFound")
  /\ UNCHANGED <<sessions, claims>>

RestartArchived_FaultyItself(c) ==
  /\ At(c, "locking")
  /\ RowFree(c)
  /\ Owned(c)
  /\ Target(c).state = "ARCHIVED"
  /\ Answers(c, command[c].target)
  /\ UNCHANGED <<sessions, claims>>

RestartArchived(c) ==
  /\ At(c, "locking")
  /\ RowFree(c)
  /\ Owned(c)
  /\ Target(c).state = "ARCHIVED"
  /\ IF Target(c).successor = None THEN Ends(c, "notFound") ELSE Answers(c, Target(c).successor)
  /\ UNCHANGED <<sessions, claims>>

\* Archiving the row locks its entry in the index of active sessions.
ArchiveActive(c) ==
  /\ At(c, "locking")
  /\ RowFree(c)
  /\ Owned(c)
  /\ Target(c).state = "ACTIVE"
  /\ DrawsIdentity(c, {<<"active", command[c].owner>>})
  /\ UNCHANGED sessions

-----------------------------------------------------------------------------
(* Company, session and document keys, in this order.                      *)

CompanyEntry(c) == <<"cnpj", command[c].cnpj>>
ActiveEntry(c)  == <<"active", command[c].owner>>
KeyEntry(c)     == <<"key", command[c].key>>

NextEntry(c) ==
  IF CompanyEntry(c) \notin claims[c] THEN CompanyEntry(c)
  ELSE IF ActiveEntry(c) \notin claims[c] THEN ActiveEntry(c) ELSE KeyEntry(c)

Complete(c) == claims[c] = {CompanyEntry(c), ActiveEntry(c), KeyEntry(c)}

EntryFree(c, entry) == \A d \in Commands \ {c} : entry \notin claims[d]

Committed_FaultyNoActiveIndex(entry) ==
  \/ entry[1] = "cnpj" /\ entry[2] \in TakenCnpjs
  \/ \E id \in Ids :
       /\ sessions[id] # None
       /\ entry \in {<<"cnpj", sessions[id].cnpj>>, <<"key", sessions[id].key>>}

Committed(entry) ==
  \/ entry[1] = "active" /\ Active(entry[2]) # {}
  \/ entry[1] = "cnpj" /\ entry[2] \in TakenCnpjs
  \/ \E id \in Ids :
       /\ sessions[id] # None
       /\ entry \in {<<"cnpj", sessions[id].cnpj>>, <<"key", sessions[id].key>>}

InsertEntry(c) ==
  /\ At(c, "inserting")
  /\ ~Complete(c)
  /\ EntryFree(c, NextEntry(c))
  /\ ~Committed(NextEntry(c))
  /\ claims' = [claims EXCEPT ![c] = @ \cup {NextEntry(c)}]
  /\ UNCHANGED <<sessions, command>>

\* P2002: a restart tries again, a preparation first looks for who won.
UniqueViolation(c) ==
  /\ At(c, "inserting")
  /\ ~Complete(c)
  /\ EntryFree(c, NextEntry(c))
  /\ Committed(NextEntry(c))
  /\ IF command[c].kind = "restart"
     THEN TriesAgain(c, IF NextEntry(c) = ActiveEntry(c) THEN 0 ELSE 1)
     ELSE /\ claims' = [claims EXCEPT ![c] = {}]
          /\ command' = [command EXCEPT ![c] =
               [Without(command[c]) EXCEPT !.state = "rereading",
                  !.collided = command[c].collided + IF NextEntry(c) = ActiveEntry(c) THEN 0 ELSE 1]]
  /\ UNCHANGED sessions

FindWinner_FaultyNoReread(c) ==
  /\ At(c, "rereading")
  /\ TriesAgain(c, 0)
  /\ UNCHANGED sessions

FindWinner(c) ==
  /\ At(c, "rereading")
  /\ \/ /\ \E id \in Active(command[c].owner) : Answers(c, id)
        /\ UNCHANGED claims
     \/ Active(command[c].owner) = {} /\ TriesAgain(c, 0)
  /\ UNCHANGED sessions

NewSession(c) == [owner |-> command[c].owner, state |-> "ACTIVE", successor |-> None,
                  cnpj |-> command[c].cnpj, key |-> command[c].key]

\* COMMIT. Its acknowledgement may be lost.
CommitSession(c) ==
  /\ At(c, "inserting")
  /\ Complete(c)
  /\ sessions' = [id \in Ids |->
       IF id = <<c, command[c].attempt>> THEN NewSession(c)
       ELSE IF command[c].kind = "restart" /\ id = command[c].target
            THEN [sessions[id] EXCEPT !.state = "ARCHIVED",
                                      !.successor = <<c, command[c].attempt>>]
            ELSE sessions[id]]
  /\ claims' = [claims EXCEPT ![c] = {}]
  /\ Answers(c, <<c, command[c].attempt>>) \/ Ends(c, "failed")

Running(c) == command[c].state \in {"looking", "locking", "inserting", "rereading", "rendering"}

Abort_FaultyKeepsArchive(c) ==
  /\ Running(c)
  /\ sessions' = [id \in Ids |->
       IF At(c, "inserting") /\ command[c].kind = "restart" /\ id = command[c].target
       THEN [sessions[id] EXCEPT !.state = "ARCHIVED"] ELSE sessions[id]]
  /\ claims' = [claims EXCEPT ![c] = {}]
  /\ Ends(c, "failed")

Abort_FaultyKeepsClaims(c) ==
  /\ Running(c)
  /\ Ends(c, "failed")
  /\ UNCHANGED <<sessions, claims>>

\* A statement fails or the process dies: what the command had open is undone.
Abort(c) ==
  /\ Running(c)
  /\ claims' = [claims EXCEPT ![c] = {}]
  /\ Ends(c, "failed")
  /\ UNCHANGED sessions

\* No command is left: the server stays up.
Finished ==
  /\ \A c \in Commands : ~Running(c) /\ ~At(c, "idle")
  /\ UNCHANGED vars

Progress(c) ==
  \/ FindActive(c) \/ BeginCreation(c)
  \/ RestartUnknown(c) \/ RestartArchived(c) \/ ArchiveActive(c)
  \/ InsertEntry(c) \/ UniqueViolation(c) \/ FindWinner(c) \/ CommitSession(c)
  \/ RenderDocument(c)

Next ==
  \/ \E c \in Commands :
       \/ \E owner \in OwnersOf[c] :
            \/ Prepare(c, owner) \/ GetCurrent(c, owner)
            \/ \E id \in Known \cup {None} : Restart(c, owner, id) \/ GetDocument(c, owner, id)
       \/ Progress(c)
       \/ Abort(c)
  \/ Finished

Spec == Init /\ [][Next]_vars

-----------------------------------------------------------------------------
(* Waiting, and the deadlocks PostgreSQL breaks: a preparation holds its   *)
(* CNPJ and waits for the owner's entry, a restart the other way round.    *)

WaitsFor(c, d) ==
  /\ d # c
  /\ \/ At(c, "inserting") /\ ~Complete(c) /\ NextEntry(c) \in claims[d]
     \/ /\ At(c, "locking") /\ At(d, "inserting")
        /\ command[d].kind = "restart" /\ command[d].target = command[c].target

BreakDeadlock ==
  \E cycle \in SUBSET Commands \ {{}} :
    /\ \A c \in cycle : \E d \in cycle : WaitsFor(c, d)
    /\ \E c \in cycle : Abort(c)

(***************************************************************************)
(* A begun command takes its next step when nothing blocks it. Failures    *)
(* are not counted on, apart from the breaking of deadlocks.               *)
(***************************************************************************)
FairSpec ==
  /\ Spec
  /\ \A c \in Commands : WF_vars(Progress(c))
  /\ WF_vars(BreakDeadlock)

-----------------------------------------------------------------------------
(***************************************************************************)
(* What holds of a command at each point: whose it is, and that each of    *)
(* its attempts so far met an identity that collided, but for the one that *)
(* has just lost a race to an active session; it gives up only after all.  *)
(***************************************************************************)
Phase(c) ==
  LET cmd == command[c] IN
  /\ At(c, "idle") => cmd = Blank
  /\ Running(c) => cmd.owner \in Owners
  /\ cmd.state \in {"looking", "rereading"} => cmd.kind = "prepare"
  /\ At(c, "locking") => cmd.kind = "restart"
  /\ At(c, "inserting") => /\ cmd.kind \in {"prepare", "restart"}
                           /\ cmd.cnpj \in Valid /\ cmd.key \in Keys \ ProcessedKeys
  /\ At(c, "rendering") => cmd.kind = "document" /\ Owned(c)
  /\ cmd.state \in {"looking", "locking", "inserting"} => cmd.collided = cmd.attempt - 1
  /\ At(c, "rereading") => \/ cmd.collided = cmd.attempt
                           \/ cmd.collided = cmd.attempt - 1 /\ Active(cmd.owner) # {}
  /\ At(c, "unavailable") => cmd.collided = MaxIdentityAttempts

(***************************************************************************)
(* What is there about the index entries of open transactions: they are    *)
(* inserted in one order, no entry is held twice or committed already, and *)
(* a restart holds that of the session it archives.                        *)
(***************************************************************************)
ClaimsExclusive ==
  \A c, d \in Commands : c # d => claims[c] \cap claims[d] = {}

ClaimsOrdered(c) ==
  /\ claims[c] \subseteq {CompanyEntry(c), ActiveEntry(c), KeyEntry(c)}
  /\ ~At(c, "inserting") => claims[c] = {}
  /\ KeyEntry(c) \in claims[c] => Complete(c)

ArchivesOwn(c) ==
  /\ At(c, "inserting") /\ command[c].kind = "restart"
  /\ Owned(c) /\ Target(c).state = "ACTIVE"
  /\ ActiveEntry(c) \in claims[c]

ClaimsFresh(c) ==
  /\ At(c, "inserting") /\ command[c].kind = "restart" => ArchivesOwn(c)
  /\ \A entry \in claims[c] :
       Committed(entry) => entry = ActiveEntry(c) /\ ArchivesOwn(c)

\* A session is the work of the attempt it is named for, and its command is over.
SessionNamed(c) ==
  \A i \in 1 .. MaxIdentityAttempts : sessions[<<c, i>>] # None =>
    /\ command[c].state \in {"answered", "failed"}
    /\ \A j \in 1 .. MaxIdentityAttempts : j # i => sessions[<<c, j>>] = None

\* Who restarts a session is given its successor.
AnswerOwned(c) ==
  At(c, "answered") =>
    /\ command[c].answer \in Ids
    /\ sessions[command[c].answer] # None
    /\ sessions[command[c].answer].owner = command[c].owner
    /\ command[c].kind = "document" => command[c].key = sessions[command[c].answer].key
    /\ command[c].kind = "restart" =>
         Owned(c) /\ Target(c).state = "ARCHIVED" /\ Target(c).successor = command[c].answer

\* Who is told that a session is archived finds its successor active, or that
\* one archived too.
ArchivedHasSuccessor(c) ==
  At(c, "archived") =>
    /\ Owned(c) /\ Target(c).state = "ARCHIVED"
    /\ Active(command[c].owner) # {}

CommandInv(c) ==
  /\ Phase(c) /\ ClaimsOrdered(c) /\ ClaimsFresh(c)
  /\ SessionNamed(c) /\ AnswerOwned(c) /\ ArchivedHasSuccessor(c)

\* However preparations and restarts race, an owner has at most one session
\* that is active, and one if there is any.
OneActivePerOwner ==
  /\ \A owner \in Owners : \A id, other \in Active(owner) : id = other
  /\ \A id \in Known : Active(sessions[id].owner) # {}

(***************************************************************************)
(* Two sessions never share a CNPJ or an access key, nor take those of a   *)
(* real company or of a processed invoice, although identities are drawn   *)
(* outside the transaction's checks; each CNPJ is a valid one, whatever the *)
(* bytes it is made from.                                                  *)
(***************************************************************************)
IdentitiesUnique ==
  \A id \in Known :
    /\ sessions[id].cnpj \in Valid \ TakenCnpjs
    /\ sessions[id].key \notin ProcessedKeys
    /\ \A other \in Known \ {id} :
         sessions[other].cnpj # sessions[id].cnpj /\ sessions[other].key # sessions[id].key

(***************************************************************************)
(* An archived session has a successor of the same owner that succeeds     *)
(* nothing else, an active one has none: the sessions of an owner form one *)
(* chain.                                                                  *)
(***************************************************************************)
SuccessorsChain ==
  \A id \in Known :
    IF sessions[id].state = "ACTIVE" THEN sessions[id].successor = None
    ELSE /\ sessions[id].successor \in Known
         /\ sessions[sessions[id].successor].owner = sessions[id].owner
         /\ \A other \in Known \ {id} : sessions[other].successor # sessions[id].successor

SessionsInv == OneActivePerOwner /\ SuccessorsChain /\ IdentitiesUnique

(***************************************************************************)
(* The sessions of an owner are one chain whose only active one is its     *)
(* end, each with an identity of its own, and who reads it or a document   *)
(* of it is given one's own; with what keeps it so, the commands under way *)
(* and the index entries their transactions hold.                          *)
(***************************************************************************)
DemoInv == TypeOK /\ SessionsInv /\ ClaimsExclusive /\ \A c \in Commands : CommandInv(c)

(***************************************************************************)
(* Restarting a session is idempotent by its identifier: everybody who     *)
(* restarts it, first or late, is given the same successor.                *)
(***************************************************************************)
RestartIdempotent ==
  \A c, d \in Commands :
    /\ command[c].kind = "restart" /\ At(c, "answered")
    /\ command[d].kind = "restart" /\ At(d, "answered")
    /\ command[c].target = command[d].target
    => command[c].answer = command[d].answer

(***************************************************************************)
(* An owner with a session in progress never stands without one: a restart *)
(* that fails half way leaves the old session active.                      *)
(***************************************************************************)
ActiveStays ==
  [][\A owner \in Owners : Active(owner) # {} => (Active(owner) # {})']_vars

(***************************************************************************)
(* A command gives up with 503 only when each of its identities collided:  *)
(* losing a race to another command is never the reason.                   *)
(***************************************************************************)
UnavailableMeansCollisions ==
  \A c \in Commands : At(c, "unavailable") => command[c].collided = MaxIdentityAttempts

\* Every begun command ends, also when commands wait for each other.
CommandsEnd == \A c \in Commands : Running(c) ~> ~Running(c)

=============================================================================
