------------------------- MODULE DemoSessionsProofs -------------------------
(***************************************************************************)
(* Proofs about DemoSessions for every value of its constants.             *)
(***************************************************************************)
EXTENDS DemoSessions, SequenceTheorems, TLAPS

-----------------------------------------------------------------------------
(* The CNPJ of an identity.                                                *)

\* Two characters put behind twelve are the last two of fourteen.
LEMMA LastTwo ==
  ASSUME NEW S, NEW base \in Seq(S), Len(base) = 12, NEW a \in S, NEW b \in S
  PROVE  /\ Len(base \o <<a, b>>) = 14
         /\ \A i \in 1 .. 12 : (base \o <<a, b>>)[i] = base[i]
         /\ SubSeq(base \o <<a, b>>, 1, 12) = base
         /\ SubSeq(base \o <<a, b>>, 13, 14) = <<a, b>>
<1> DEFINE tail == <<a, b>>
           whole == base \o tail
<1>1. tail \in Seq(S) /\ Len(tail) = 2 /\ tail[1] = a /\ tail[2] = b
  OBVIOUS
<1> HIDE DEF tail
<1>2. /\ whole \in Seq(S) /\ Len(whole) = 14
      /\ \A i \in 1 .. 14 : whole[i] = IF i <= 12 THEN base[i] ELSE tail[i - 12]
  <2>1. /\ base \o tail \in Seq(S)
        /\ Len(base \o tail) = Len(base) + Len(tail)
        /\ \A i \in 1 .. Len(base) + Len(tail) : (base \o tail)[i] =
             IF i <= Len(base) THEN base[i] ELSE tail[i - Len(base)]
    BY <1>1, ConcatProperties, Zenon
  <2> QED BY <1>1, <2>1
<1>3. SubSeq(whole, 1, 12) = base
  <2>1. SubSeq(whole, 1, 12) = SubSeq(base, 1, 12)
    <3>1. 1 \in 1 .. Len(base) /\ 12 \in 1 .. Len(base)
      OBVIOUS
    <3> QED BY <1>1, <3>1, SubSeqOfConcat1, Zenon
  <2> QED BY <2>1, SubSeqFull
<1>4. SubSeq(whole, 13, 14) = tail
  <2>1. SubSeq(whole, 13, 14) = SubSeq(tail, 1, 2)
    <3>1. /\ 13 \in Len(base) + 1 .. Len(base) + Len(tail)
          /\ 14 \in Len(base) + 1 .. Len(base) + Len(tail)
          /\ 13 - Len(base) = 1 /\ 14 - Len(base) = 2
      BY <1>1
    <3>2. SubSeq(whole, 13, 14) = SubSeq(tail, 13 - Len(base), 14 - Len(base))
      BY <1>1, <3>1, SubSeqOfConcat2, Zenon
    <3> QED BY <3>1, <3>2
  <2> QED BY <1>1, <2>1, SubSeqFull
<1>5. \A i \in 1 .. 12 : whole[i] = base[i]
  BY <1>2
<1> QED BY <1>2, <1>3, <1>4, <1>5 DEF tail

\* What is made from any eight bytes is a valid CNPJ, unless it is no CNPJ.
LEMMA SyntheticValid ==
  ASSUME NEW seed, DOMAIN seed = 1 .. 8, \A i \in 1 .. 8 : seed[i] \in 0 .. 255,
         GenerateSyntheticCnpj(seed) # Invalid
  PROVE  IsValidCnpj(GenerateSyntheticCnpj(seed))
<1> DEFINE root == [i \in 1 .. 8 |-> seed[i] % 10]
           head == IF Repeated(root) THEN [root EXCEPT ![8] = (@ + 1) % 10] ELSE root
           base == head \o <<0, 0, 0, 1>>
           first == CheckDigit(base)
           second == CheckDigit(Append(base, first))
           S == Int \cup {first, second}
           cnpj == base \o <<first, second>>
<1>1. GenerateSyntheticCnpj(seed) = cnpj
  BY DEF GenerateSyntheticCnpj, ComputeCnpjCheckDigits
<1>2. head \in [1 .. 8 -> Int]
  <2>1. root \in [1 .. 8 -> Int]
    OBVIOUS
  <2> HIDE DEF root
  <2> QED BY <2>1
<1>3. base \in Seq(Int) /\ Len(base) = 12 /\ base[9] = 0 /\ base[12] = 1
  <2> HIDE DEF head
  <2> DEFINE tail == <<0, 0, 0, 1>>
  <2>1. head \in Seq(Int) /\ Len(head) = 8
    <3>1. head \in Seq(Int)
      BY <1>2, SeqDef
    <3>2. DOMAIN head = 1 .. 8 /\ DOMAIN head = 1 .. Len(head) /\ Len(head) \in Nat
      BY <1>2, <3>1, LenProperties
    <3> QED BY <3>1, <3>2
  <2>2. tail \in Seq(Int) /\ Len(tail) = 4 /\ tail[1] = 0 /\ tail[4] = 1
    OBVIOUS
  <2> HIDE DEF tail
  <2> DEFINE cat == head \o tail
  <2>3. /\ cat \in Seq(Int)
        /\ Len(cat) = Len(head) + Len(tail)
        /\ \A i \in 1 .. Len(head) + Len(tail) : cat[i] =
             IF i <= Len(head) THEN head[i] ELSE tail[i - Len(head)]
    BY <2>1, <2>2, ConcatProperties, Zenon
  <2> HIDE DEF cat
  <2>4. \A i \in 1 .. 12 : cat[i] = IF i <= 8 THEN head[i] ELSE tail[i - 8]
    BY <2>1, <2>2, <2>3
  <2>5. cat[9] = tail[1] /\ cat[12] = tail[4] /\ Len(cat) = 12
    BY <2>1, <2>2, <2>3, <2>4
  <2> QED BY <2>2, <2>3, <2>5 DEF tail, cat
<1> HIDE DEF base
<1>4. base \in Seq(S) /\ first \in S /\ second \in S
  BY <1>3
<1> HIDE DEF first, second, S
<1>5. /\ Len(cnpj) = 14 /\ \A i \in 1 .. 12 : cnpj[i] = base[i]
      /\ SubSeq(cnpj, 1, 12) = base /\ SubSeq(cnpj, 13, 14) = <<first, second>>
  BY <1>3, <1>4, LastTwo
<1>6. cnpj \in Seq(S) /\ DOMAIN cnpj = 1 .. 14
  BY <1>4, <1>5
<1> HIDE DEF cnpj
<1>7. ~Repeated(cnpj)
  BY <1>3, <1>5, <1>6 DEF Repeated
<1>8. ComputeCnpjCheckDigits(base) = <<first, second>>
  BY DEF ComputeCnpjCheckDigits, first, second
<1> QED BY <1>1, <1>5, <1>7, <1>8 DEF IsValidCnpj

\* Every identity that may be drawn has a valid CNPJ and a key.
LEMMA IdentityValid ==
  ASSUME NEW identity \in Identities
  PROVE  identity.cnpj \in Valid /\ identity.cnpj \in Cnpjs /\ identity.key \in Keys
<1>1. PICK seed \in Seeds, key \in Keys : identity = NewDemoIdentity(seed, key)
  BY DemoAssumption
<1>2. identity.cnpj = GenerateSyntheticCnpj(seed) /\ identity.key = key
  BY <1>1 DEF NewDemoIdentity
<1>3. identity.cnpj \in Cnpjs
  BY DEF Cnpjs
<1>4. IsValidCnpj(identity.cnpj)
  BY <1>2, <1>3, SyntheticValid, DemoAssumption
<1> QED BY <1>2, <1>3, <1>4 DEF Valid

-----------------------------------------------------------------------------
(* Steps that change no session.                                           *)

\* A command that has not begun is a command.
LEMMA BlankTyped == Blank \in Command
BY DemoAssumption DEF Blank, Command, CommandStates

\* Nothing has happened at first.
LEMMA DemoInit == Init => DemoInv
<1> SUFFICES ASSUME Init PROVE DemoInv
  OBVIOUS
<1>1. TypeOK
  BY BlankTyped DEF Init, TypeOK
<1>2. Known = {} /\ \A owner : Active(owner) = {}
  BY DEF Init, Known, Active
<1>3. SessionsInv
  BY <1>2 DEF SessionsInv, OneActivePerOwner, SuccessorsChain, IdentitiesUnique
<1>4. \A c \in Commands : command[c] = Blank /\ claims[c] = {}
  BY DEF Init
<1>5. ASSUME NEW c \in Commands PROVE CommandInv(c)
  <2>1. command[c].state = "idle"
    BY <1>4 DEF Blank
  <2>2. Phase(c)
    BY <1>4, <2>1 DEF Phase, At, Running
  <2>3. ClaimsOrdered(c) /\ ClaimsFresh(c)
    BY <1>4, <2>1 DEF ClaimsOrdered, ClaimsFresh, At
  <2>4. SessionNamed(c)
    BY DEF SessionNamed, Init, Ids
  <2>5. AnswerOwned(c) /\ ArchivedHasSuccessor(c)
    BY <2>1 DEF AnswerOwned, ArchivedHasSuccessor, At
  <2> QED BY <2>2, <2>3, <2>4, <2>5 DEF CommandInv
<1> QED BY <1>1, <1>3, <1>4, <1>5 DEF DemoInv, ClaimsExclusive

\* No session is named for a command that is under way or has not begun.
LEMMA NotYetNamed ==
  ASSUME DemoInv, NEW c \in Commands, Running(c) \/ At(c, "idle")
  PROVE  \A i \in 1 .. MaxIdentityAttempts : sessions[<<c, i>>] = None
BY DEF DemoInv, CommandInv, SessionNamed, Running, At

\* A command keeps its invariant while neither it nor a session changes.
LEMMA CommandKept ==
  ASSUME DemoInv, NEW d \in Commands, sessions' = sessions,
         command'[d] = command[d], claims'[d] = claims[d]
  PROVE  CommandInv(d)'
<1>1. /\ Target(d)' = Target(d) /\ (Owned(d)' <=> Owned(d))
      /\ \A owner : Active(owner)' = Active(owner)
      /\ \A state : At(d, state)' <=> At(d, state)
      /\ Running(d)' <=> Running(d)
      /\ CompanyEntry(d)' = CompanyEntry(d) /\ ActiveEntry(d)' = ActiveEntry(d)
      /\ KeyEntry(d)' = KeyEntry(d)
  BY DEF Target, Owned, Active, At, Running, CompanyEntry, ActiveEntry, KeyEntry
<1>2. /\ Complete(d)' <=> Complete(d)
      /\ \A entry : Committed(entry)' <=> Committed(entry)
      /\ ArchivesOwn(d)' <=> ArchivesOwn(d)
  BY <1>1 DEF Complete, Committed, ArchivesOwn
<1>3. CommandInv(d)
  BY DEF DemoInv
<1>4. Phase(d)'
  BY <1>1, <1>3 DEF CommandInv, Phase
<1>5. ClaimsOrdered(d)' /\ ClaimsFresh(d)'
  BY <1>1, <1>2, <1>3 DEF CommandInv, ClaimsOrdered, ClaimsFresh
<1>6. SessionNamed(d)' /\ AnswerOwned(d)' /\ ArchivedHasSuccessor(d)'
  BY <1>1, <1>3 DEF CommandInv, SessionNamed, AnswerOwned, ArchivedHasSuccessor
<1> QED BY <1>4, <1>5, <1>6 DEF CommandInv

\* A step of one command that changes no session is a matter of that command.
LEMMA OwnStep ==
  ASSUME DemoInv, NEW c \in Commands, sessions' = sessions,
         NEW cmd \in Command, command' = [command EXCEPT ![c] = cmd],
         NEW held \in SUBSET Entries, claims' = [claims EXCEPT ![c] = held],
         \A d \in Commands \ {c} : held \cap claims[d] = {},
         CommandInv(c)'
  PROVE  DemoInv'
<1>1. TypeOK'
  BY DEF DemoInv, TypeOK
<1>2. SessionsInv'
  BY DEF DemoInv, SessionsInv, OneActivePerOwner, SuccessorsChain, IdentitiesUnique, Known, Active
<1>3. claims'[c] = held /\ \A d \in Commands \ {c} : command'[d] = command[d] /\ claims'[d] = claims[d]
  BY DEF DemoInv, TypeOK
<1>4. ClaimsExclusive'
  BY <1>3 DEF DemoInv, ClaimsExclusive
<1>5. \A d \in Commands \ {c} : CommandInv(d)'
  BY <1>3, CommandKept
<1> QED BY <1>1, <1>2, <1>4, <1>5 DEF DemoInv

\* A command that is over, without an answer, holds nothing and says nothing.
LEMMA OverInv ==
  ASSUME DemoInv, NEW c \in Commands, sessions' = sessions, Running(c) \/ At(c, "idle"),
         command'[c].state \in {"notFound", "failed", "unavailable"}, claims'[c] = {},
         command'[c].state = "unavailable" => command'[c].collided = MaxIdentityAttempts
  PROVE  CommandInv(c)'
<1>1. \A i \in 1 .. MaxIdentityAttempts : sessions'[<<c, i>>] = None
  BY NotYetNamed
<1>2. Phase(c)' /\ ClaimsOrdered(c)' /\ ClaimsFresh(c)'
  BY DEF Phase, ClaimsOrdered, ClaimsFresh, At, Running, KeyEntry
<1>3. SessionNamed(c)' /\ AnswerOwned(c)' /\ ArchivedHasSuccessor(c)'
  BY <1>1 DEF SessionNamed, AnswerOwned, ArchivedHasSuccessor, At
<1> QED BY <1>2, <1>3 DEF CommandInv

\* A command on its way keeps its invariant when what it is about is in order.
LEMMA UnderWayInv ==
  ASSUME DemoInv, NEW c \in Commands, sessions' = sessions, Running(c) \/ At(c, "idle"),
         Phase(c)', ClaimsOrdered(c)', ClaimsFresh(c)',
         command'[c].state \in {"looking", "locking", "inserting", "rereading", "rendering"}
  PROVE  CommandInv(c)'
<1>1. \A i \in 1 .. MaxIdentityAttempts : sessions'[<<c, i>>] = None
  BY NotYetNamed
<1>2. SessionNamed(c)' /\ AnswerOwned(c)' /\ ArchivedHasSuccessor(c)'
  BY <1>1 DEF SessionNamed, AnswerOwned, ArchivedHasSuccessor, At
<1> QED BY <1>2 DEF CommandInv

\* A command that holds nothing has nothing in disorder.
LEMMA NothingHeld ==
  ASSUME NEW c \in Commands, claims'[c] = {}, command'[c].state # "inserting"
  PROVE  ClaimsOrdered(c)' /\ ClaimsFresh(c)'
BY DEF ClaimsOrdered, ClaimsFresh, At

\* So is a step of a command that lets go of its index entries, and one that
\* keeps them.
LEMMA ReleaseStep ==
  ASSUME DemoInv, NEW c \in Commands, sessions' = sessions,
         NEW cmd \in Command, command' = [command EXCEPT ![c] = cmd],
         claims' = [claims EXCEPT ![c] = {}], CommandInv(c)'
  PROVE  DemoInv'
<1>1. {} \in SUBSET Entries /\ \A d \in Commands \ {c} : {} \cap claims[d] = {}
  OBVIOUS
<1> QED BY <1>1, OwnStep

LEMMA KeepStep ==
  ASSUME DemoInv, NEW c \in Commands, sessions' = sessions,
         NEW cmd \in Command, command' = [command EXCEPT ![c] = cmd],
         claims' = claims, CommandInv(c)'
  PROVE  DemoInv'
<1>1. /\ claims[c] \in SUBSET Entries /\ claims' = [claims EXCEPT ![c] = claims[c]]
      /\ \A d \in Commands \ {c} : claims[c] \cap claims[d] = {}
  BY DEF DemoInv, TypeOK, ClaimsExclusive
<1> QED BY <1>1, OwnStep

\* A command that ends without an answer.
LEMMA EndInv ==
  ASSUME DemoInv, NEW c \in Commands, UNCHANGED sessions, Running(c),
         NEW state \in {"notFound", "failed"}, Ends(c, state),
         claims' = [claims EXCEPT ![c] = {}]
  PROVE  DemoInv'
<1> DEFINE cmd == [Blank EXCEPT !.state = state]
<1>1. cmd \in Command /\ cmd.state = state /\ command' = [command EXCEPT ![c] = cmd]
  BY BlankTyped DEF Ends, Blank, Command, CommandStates
<1> HIDE DEF cmd
<1>2. command'[c] = cmd /\ claims'[c] = {}
  BY <1>1 DEF DemoInv, TypeOK
<1>3. CommandInv(c)'
  BY <1>1, <1>2, OverInv
<1> QED BY <1>1, <1>3, ReleaseStep

\* A command that has met an identity that collided tries again, or gives up
\* once all of its attempts have.
LEMMA AgainInv ==
  ASSUME DemoInv, NEW c \in Commands, UNCHANGED sessions,
         command[c].state \in {"looking", "locking", "inserting", "rereading"},
         NEW n \in {0, 1}, command[c].collided + n = command[c].attempt, TriesAgain(c, n)
  PROVE  DemoInv'
<1> DEFINE old == command[c]
           again == [Without(old) EXCEPT !.state = IF old.kind = "prepare" THEN "looking" ELSE "locking",
                                         !.attempt = old.attempt + 1,
                                         !.collided = old.collided + n]
           over == [Blank EXCEPT !.state = "unavailable", !.collided = old.collided + n]
           cmd == IF old.attempt = MaxIdentityAttempts THEN over ELSE again
<1>1. old \in Command /\ claims' = [claims EXCEPT ![c] = {}] /\ command' = [command EXCEPT ![c] = cmd]
  BY DEF TriesAgain, DemoInv, TypeOK
<1>2. old.kind \in {"prepare", "restart"} /\ Running(c) /\ old.owner \in Owners
  BY DEF DemoInv, CommandInv, Phase, Running, At
<1>3. old.attempt \in 1 .. MaxIdentityAttempts /\ MaxIdentityAttempts \in Nat
  BY <1>1, DemoAssumption DEF Command
<1>4. CASE old.attempt = MaxIdentityAttempts
  <2>0. old.collided + n = MaxIdentityAttempts /\ old.collided + n \in 0 .. MaxIdentityAttempts
    BY <1>3, <1>4
  <2> HIDE DEF old
  <2>1. /\ over \in Command /\ over.state = "unavailable"
        /\ over.collided = MaxIdentityAttempts
    BY <2>0, BlankTyped DEF Blank, Command, CommandStates
  <2>11. cmd = over
    BY <1>4
  <2> HIDE DEF over, cmd
  <2>2. command'[c] = cmd /\ claims'[c] = {}
    BY <1>1 DEF DemoInv, TypeOK
  <2>3. CommandInv(c)'
    BY <1>2, <2>1, <2>11, <2>2, OverInv
  <2> QED BY <1>1, <2>1, <2>11, <2>3, ReleaseStep
<1>5. CASE old.attempt # MaxIdentityAttempts
  <2> DEFINE next == old.attempt + 1
             met == old.collided + n
             state == IF old.kind = "prepare" THEN "looking" ELSE "locking"
  <2>0. /\ next \in 1 .. MaxIdentityAttempts /\ met \in 0 .. MaxIdentityAttempts
        /\ met = next - 1 /\ state \in CommandStates
    BY <1>3, <1>5 DEF CommandStates
  <2>1. cmd = [Without(old) EXCEPT !.state = state, !.attempt = next, !.collided = met]
    BY <1>5
  <2> HIDE DEF old, cmd, next, met, state
  <2>2. Without(old) \in Command /\ Without(old).kind = old.kind /\ Without(old).owner = old.owner
    BY <1>1 DEF Without, Command
  <2>3. /\ cmd \in Command /\ cmd.kind = old.kind /\ cmd.owner = old.owner
        /\ cmd.state = state /\ cmd.attempt = next /\ cmd.collided = met
    BY <2>0, <2>1, <2>2 DEF Command
  <2>4. command'[c] = cmd /\ claims'[c] = {}
    BY <1>1 DEF DemoInv, TypeOK
  <2>5. Phase(c)'
    BY <1>2, <2>0, <2>3, <2>4 DEF Phase, Running, At, state
  <2>6. CommandInv(c)'
    BY <1>2, <2>3, <2>4, <2>5, NothingHeld, UnderWayInv DEF state
  <2> QED BY <1>1, <2>3, <2>6, ReleaseStep
<1> QED BY <1>4, <1>5

-----------------------------------------------------------------------------
(* The actions of a command, but for COMMIT.                               *)

\* A command to come is blank, and holds nothing.
LEMMA ComesBlank ==
  ASSUME DemoInv, NEW c \in Commands, Comes(c)
  PROVE  At(c, "idle") /\ command[c] = Blank /\ claims[c] = {}
BY DEF Comes, DemoInv, CommandInv, Phase, ClaimsOrdered, At

\* A preparation that comes.
LEMMA PrepareInv ==
  ASSUME DemoInv, NEW c \in Commands, NEW owner \in Owners, Prepare(c, owner)
  PROVE  DemoInv'
<1> DEFINE cmd == [Blank EXCEPT !.state = "looking", !.owner = owner]
<1>1. At(c, "idle") /\ claims[c] = {} /\ claims' = claims /\ sessions' = sessions
      /\ command' = [command EXCEPT ![c] = cmd]
  BY ComesBlank DEF Prepare
<1>2. /\ cmd \in Command /\ cmd.state = "looking" /\ cmd.owner = owner /\ cmd.kind = "prepare"
      /\ cmd.attempt = 1 /\ cmd.collided = 0
  BY BlankTyped DEF Blank, Command, CommandStates
<1> HIDE DEF cmd
<1>3. command'[c] = cmd /\ claims'[c] = {}
  BY <1>1 DEF DemoInv, TypeOK
<1>4. Phase(c)'
  BY <1>2, <1>3 DEF Phase, Running, At
<1>5. CommandInv(c)'
  BY <1>1, <1>2, <1>3, <1>4, NothingHeld, UnderWayInv
<1> QED BY <1>1, <1>2, <1>5, KeepStep

\* A restart that comes.
LEMMA RestartInv ==
  ASSUME DemoInv, NEW c \in Commands, NEW owner \in Owners, NEW id \in Known \cup {None},
         Restart(c, owner, id)
  PROVE  DemoInv'
<1> DEFINE cmd == [Blank EXCEPT !.state = "locking", !.kind = "restart", !.owner = owner, !.target = id]
<1>1. At(c, "idle") /\ claims[c] = {} /\ claims' = claims /\ sessions' = sessions
      /\ command' = [command EXCEPT ![c] = cmd]
  BY ComesBlank DEF Restart
<1>2. /\ cmd \in Command /\ cmd.state = "locking" /\ cmd.owner = owner /\ cmd.kind = "restart"
      /\ cmd.attempt = 1 /\ cmd.collided = 0
  BY BlankTyped DEF Blank, Command, CommandStates, Known
<1> HIDE DEF cmd
<1>3. command'[c] = cmd /\ claims'[c] = {}
  BY <1>1 DEF DemoInv, TypeOK
<1>4. Phase(c)'
  BY <1>2, <1>3 DEF Phase, Running, At
<1>5. CommandInv(c)'
  BY <1>1, <1>2, <1>3, <1>4, NothingHeld, UnderWayInv
<1> QED BY <1>1, <1>2, <1>5, KeepStep

\* A reading of the active session.
LEMMA GetCurrentInv ==
  ASSUME DemoInv, NEW c \in Commands, NEW owner \in Owners, GetCurrent(c, owner)
  PROVE  DemoInv'
<1> DEFINE state == IF Active(owner) = {} THEN "notFound" ELSE "answered"
           answer == IF Active(owner) = {} THEN None ELSE CHOOSE id \in Active(owner) : TRUE
           cmd == [Blank EXCEPT !.kind = "current", !.owner = owner, !.state = state, !.answer = answer]
<1>1. At(c, "idle") /\ claims[c] = {} /\ claims' = claims /\ sessions' = sessions
      /\ command' = [command EXCEPT ![c] = cmd]
  BY ComesBlank DEF GetCurrent
<1>2. /\ state \in {"notFound", "answered"} /\ answer \in Ids \cup {None}
      /\ state = "answered" => /\ answer \in Ids /\ sessions[answer] # None
                               /\ sessions[answer].owner = owner
  BY DEF Active
<1> HIDE DEF state, answer
<1>3. /\ cmd \in Command /\ cmd.state = state /\ cmd.owner = owner /\ cmd.kind = "current"
      /\ cmd.answer = answer
  BY <1>2, BlankTyped DEF Blank, Command, CommandStates
<1> HIDE DEF cmd
<1>4. command'[c] = cmd /\ claims'[c] = {}
  BY <1>1, <1>3 DEF DemoInv, TypeOK
<1>5. CASE state = "notFound"
  BY <1>1, <1>3, <1>4, <1>5, OverInv, KeepStep
<1>6. CASE state = "answered"
  <2>1. \A i \in 1 .. MaxIdentityAttempts : sessions'[<<c, i>>] = None
    BY <1>1, NotYetNamed
  <2>2. Phase(c)' /\ ClaimsOrdered(c)' /\ ClaimsFresh(c)'
    BY <1>3, <1>4, <1>6, NothingHeld DEF Phase, At, Running
  <2>3. SessionNamed(c)' /\ AnswerOwned(c)' /\ ArchivedHasSuccessor(c)'
    BY <1>1, <1>2, <1>3, <1>4, <1>6, <2>1 DEF SessionNamed, AnswerOwned, ArchivedHasSuccessor, At
  <2> QED BY <1>1, <1>3, <2>2, <2>3, KeepStep DEF CommandInv
<1> QED BY <1>2, <1>5, <1>6

\* A reading of a document, up to the drawing.
LEMMA GetDocumentInv ==
  ASSUME DemoInv, NEW c \in Commands, NEW owner \in Owners, NEW id \in Known \cup {None},
         GetDocument(c, owner, id)
  PROVE  DemoInv'
<1> DEFINE owned == id # None /\ sessions[id].owner = owner
           state == IF ~owned THEN "notFound"
                    ELSE IF sessions[id].state = "ACTIVE" THEN "rendering" ELSE "archived"
           cmd == [Blank EXCEPT !.kind = "document", !.owner = owner, !.target = id, !.state = state]
<1>1. At(c, "idle") /\ claims[c] = {} /\ claims' = claims /\ sessions' = sessions
      /\ command' = [command EXCEPT ![c] = cmd]
  BY ComesBlank DEF GetDocument
<1>2. /\ state \in {"notFound", "rendering", "archived"} /\ id \in Ids \cup {None}
      /\ state # "notFound" => id # None /\ sessions[id] # None /\ sessions[id].owner = owner
      /\ state = "archived" => sessions[id].state = "ARCHIVED" /\ Active(owner) # {}
  <2>1. id # None => id \in Ids /\ sessions[id] # None /\ sessions[id] \in Session
    BY DEF Known, DemoInv, TypeOK
  <2>2. id # None => Active(sessions[id].owner) # {}
    BY DEF DemoInv, SessionsInv, OneActivePerOwner
  <2> QED BY <2>1, <2>2 DEF Session
<1> HIDE DEF state
<1>3. /\ cmd \in Command /\ cmd.state = state /\ cmd.owner = owner /\ cmd.kind = "document"
      /\ cmd.target = id
  BY <1>2, BlankTyped DEF Blank, Command, CommandStates
<1> HIDE DEF cmd
<1>4. command'[c] = cmd /\ claims'[c] = {} /\ \A o : Active(o)' = Active(o)
  BY <1>1, <1>3 DEF DemoInv, TypeOK, Active
<1>5. CASE state = "notFound"
  BY <1>1, <1>3, <1>4, <1>5, OverInv, KeepStep
<1>6. CASE state = "rendering"
  <2>1. Phase(c)'
    BY <1>1, <1>2, <1>3, <1>4, <1>6 DEF Phase, Running, At, Owned, Target
  <2>2. CommandInv(c)'
    BY <1>1, <1>3, <1>4, <1>6, <2>1, NothingHeld, UnderWayInv
  <2> QED BY <1>1, <1>3, <2>2, KeepStep
<1>7. CASE state = "archived"
  <2>1. \A i \in 1 .. MaxIdentityAttempts : sessions'[<<c, i>>] = None
    BY <1>1, NotYetNamed
  <2>2. Phase(c)' /\ ClaimsOrdered(c)' /\ ClaimsFresh(c)'
    BY <1>3, <1>4, <1>7, NothingHeld DEF Phase, At, Running
  <2>3. SessionNamed(c)' /\ AnswerOwned(c)' /\ ArchivedHasSuccessor(c)'
    BY <1>1, <1>2, <1>3, <1>4, <1>7, <2>1
    DEF SessionNamed, AnswerOwned, ArchivedHasSuccessor, At, Owned, Target
  <2> QED BY <1>1, <1>3, <2>2, <2>3, KeepStep DEF CommandInv
<1> QED BY <1>2, <1>5, <1>6, <1>7

\* A document that is drawn up.
LEMMA RenderDocumentInv ==
  ASSUME DemoInv, NEW c \in Commands, RenderDocument(c)
  PROVE  DemoInv'
<1> DEFINE old == command[c]
           cmd == [old EXCEPT !.state = "answered", !.answer = old.target,
                              !.key = sessions[old.target].key]
<1>1. At(c, "rendering") /\ claims' = claims /\ sessions' = sessions /\ old \in Command
  BY DEF RenderDocument, DemoInv, TypeOK
<1>2. command' = [command EXCEPT ![c] = cmd]
  BY <1>1 DEF RenderDocument, DemoInv, TypeOK, Command
<1>3. /\ old.kind = "document" /\ old.target \in Ids /\ sessions[old.target] \in Session
      /\ sessions[old.target] # None /\ sessions[old.target].owner = old.owner /\ claims[c] = {}
  BY <1>1 DEF DemoInv, CommandInv, Phase, ClaimsOrdered, Owned, Target, At, TypeOK, Command
<1> HIDE DEF old
<1>4. /\ cmd \in Command /\ cmd.state = "answered" /\ cmd.owner = old.owner /\ cmd.kind = "document"
      /\ cmd.answer = old.target /\ cmd.key = sessions[old.target].key
  BY <1>1, <1>3 DEF Command, CommandStates, Session
<1> HIDE DEF cmd
<1>5. command'[c] = cmd /\ claims'[c] = {}
  BY <1>1, <1>2, <1>3 DEF DemoInv, TypeOK
<1>6. \A i \in 1 .. MaxIdentityAttempts : sessions'[<<c, i>>] = None
  BY <1>1, NotYetNamed DEF Running, At
<1>7. Phase(c)' /\ ClaimsOrdered(c)' /\ ClaimsFresh(c)'
  BY <1>4, <1>5, NothingHeld DEF Phase, At, Running
<1>8. SessionNamed(c)' /\ AnswerOwned(c)' /\ ArchivedHasSuccessor(c)'
  BY <1>1, <1>3, <1>4, <1>5, <1>6 DEF SessionNamed, AnswerOwned, ArchivedHasSuccessor, At
<1> QED BY <1>1, <1>2, <1>4, <1>7, <1>8, KeepStep DEF CommandInv

\* A command of its owner's that is given a session of that owner.
LEMMA AnswerInv ==
  ASSUME DemoInv, NEW c \in Commands, UNCHANGED sessions,
         command[c].state \in {"looking", "locking", "rereading"},
         NEW id \in Ids, sessions[id] # None, sessions[id].owner = command[c].owner,
         command[c].kind = "restart" =>
           Owned(c) /\ Target(c).state = "ARCHIVED" /\ Target(c).successor = id,
         Answers(c, id), UNCHANGED claims
  PROVE  DemoInv'
<1> DEFINE old == command[c]
           cmd == [Blank EXCEPT !.state = "answered", !.answer = id, !.kind = old.kind,
                                !.owner = old.owner, !.target = old.target]
<1>1. /\ old \in Command /\ Running(c) /\ command' = [command EXCEPT ![c] = cmd] /\ claims[c] = {}
      /\ old.kind # "document"
  BY DEF Answers, DemoInv, TypeOK, CommandInv, Phase, ClaimsOrdered, Running, At
<1>2. /\ cmd \in Command /\ cmd.state = "answered" /\ cmd.owner = old.owner /\ cmd.kind = old.kind
      /\ cmd.answer = id /\ cmd.target = old.target
  BY <1>1, BlankTyped DEF Blank, Command, CommandStates
<1> HIDE DEF cmd
<1>3. command'[c] = cmd /\ claims'[c] = {}
  BY <1>1, <1>2 DEF DemoInv, TypeOK
<1>4. \A i \in 1 .. MaxIdentityAttempts : sessions'[<<c, i>>] = None
  BY <1>1, NotYetNamed
<1>5. Phase(c)' /\ ClaimsOrdered(c)' /\ ClaimsFresh(c)'
  BY <1>2, <1>3, NothingHeld DEF Phase, At, Running
<1>6. SessionNamed(c)' /\ ArchivedHasSuccessor(c)'
  BY <1>2, <1>3, <1>4 DEF SessionNamed, ArchivedHasSuccessor, At
<1>7. AnswerOwned(c)'
  BY <1>1, <1>2, <1>3 DEF AnswerOwned, At, Owned, Target
<1> QED BY <1>1, <1>2, <1>5, <1>6, <1>7, KeepStep DEF CommandInv

\* The active session of an owner is given to who asks for it.
LEMMA FindActiveInv ==
  ASSUME DemoInv, NEW c \in Commands, UNCHANGED <<sessions, claims>>,
         command[c].state \in {"looking", "rereading"},
         NEW id \in Active(command[c].owner), Answers(c, id)
  PROVE  DemoInv'
<1>1. id \in Ids /\ sessions[id] # None /\ sessions[id].owner = command[c].owner
  BY DEF Active
<1>2. command[c].kind = "prepare"
  BY DEF DemoInv, CommandInv, Phase
<1> QED BY <1>1, <1>2, AnswerInv

\* The successor of a session is given to who restarts that.
LEMMA RestartArchivedInv ==
  ASSUME DemoInv, NEW c \in Commands, RestartArchived(c)
  PROVE  DemoInv'
<1> DEFINE target == command[c].target
           successor == sessions[target].successor
<1>1. /\ At(c, "locking") /\ UNCHANGED <<sessions, claims>> /\ target \in Known
      /\ sessions[target].owner = command[c].owner /\ sessions[target].state = "ARCHIVED"
      /\ Owned(c) /\ Target(c) = sessions[target]
  BY DEF RestartArchived, Owned, Target, Known, DemoInv, TypeOK, Command
<1>2. successor \in Known /\ sessions[successor].owner = command[c].owner
  BY <1>1 DEF DemoInv, SessionsInv, SuccessorsChain
<1>3. successor \in Ids /\ sessions[successor] # None /\ successor # None
  BY <1>2, DemoAssumption DEF Known
<1>4. Answers(c, successor)
  BY <1>1, <1>3 DEF RestartArchived
<1> QED BY <1>1, <1>2, <1>3, <1>4, AnswerInv DEF At

\* What a preparation or a restart makes of the identity it draws.
LEMMA DrawInv ==
  ASSUME DemoInv, NEW c \in Commands, UNCHANGED sessions,
         command[c].state \in {"looking", "locking"},
         NEW entries, entries \in {{}, {ActiveEntry(c)}},
         At(c, "locking") => entries = {ActiveEntry(c)} /\ Owned(c) /\ Target(c).state = "ACTIVE",
         At(c, "looking") => entries = {},
         \A d \in Commands \ {c} : entries \cap claims[d] = {},
         DrawsIdentity(c, entries)
  PROVE  DemoInv'
<1> DEFINE old == command[c]
<1>1. /\ old \in Command /\ Running(c) /\ old.owner \in Owners /\ claims[c] = {}
      /\ old.collided = old.attempt - 1
      /\ old.kind = IF At(c, "looking") THEN "prepare" ELSE "restart"
  BY DEF DemoInv, TypeOK, CommandInv, Phase, ClaimsOrdered, Running, At
<1>2. PICK identity \in Identities :
        IF identity.key \in ProcessedKeys
        THEN TriesAgain(c, 1)
        ELSE /\ claims' = [claims EXCEPT ![c] = entries]
             /\ command' = [command EXCEPT ![c] =
                  [old EXCEPT !.state = "inserting", !.cnpj = identity.cnpj, !.key = identity.key]]
  BY <1>1 DEF DrawsIdentity, DemoInv, TypeOK
<1>3. CASE identity.key \in ProcessedKeys
  <2>1. old.collided + 1 = old.attempt
    BY <1>1 DEF Command
  <2> QED BY <1>2, <1>3, <2>1, AgainInv
<1>4. CASE identity.key \notin ProcessedKeys
  <2> DEFINE cmd == [old EXCEPT !.state = "inserting", !.cnpj = identity.cnpj, !.key = identity.key]
  <2>1. /\ claims' = [claims EXCEPT ![c] = entries] /\ command' = [command EXCEPT ![c] = cmd]
        /\ identity.cnpj \in Valid /\ identity.cnpj \in Cnpjs /\ identity.key \in Keys \ ProcessedKeys
    BY <1>2, <1>4, IdentityValid
  <2> HIDE DEF old
  <2>2. /\ cmd \in Command /\ cmd.state = "inserting" /\ cmd.cnpj = identity.cnpj
        /\ cmd.key = identity.key /\ cmd.kind = old.kind /\ cmd.owner = old.owner
        /\ cmd.target = old.target /\ cmd.attempt = old.attempt /\ cmd.collided = old.collided
    BY <1>1, <2>1 DEF Command, CommandStates
  <2> HIDE DEF cmd
  <2>3. entries \in SUBSET Entries
    BY <1>1 DEF Entries, ActiveEntry, old
  <2>4. command'[c] = cmd /\ claims'[c] = entries
    BY <2>1 DEF DemoInv, TypeOK
  <2>5. ActiveEntry(c)' = ActiveEntry(c) /\ Target(c)' = Target(c) /\ (Owned(c)' <=> Owned(c))
    BY <2>2, <2>4 DEF ActiveEntry, Target, Owned, old
  <2>6. Phase(c)'
    BY <1>1, <2>1, <2>2, <2>4 DEF Phase, Running, At
  <2>7. ClaimsOrdered(c)'
    <3>1. KeyEntry(c)' # ActiveEntry(c)'
      BY DEF KeyEntry, ActiveEntry
    <3> QED BY <2>2, <2>4, <2>5, <3>1 DEF ClaimsOrdered, At
  <2>8. command[c].kind = "restart" => ArchivesOwn(c)'
    BY <1>1, <2>2, <2>4, <2>5 DEF ArchivesOwn, At, old
  <2>9. ClaimsFresh(c)'
    BY <1>1, <2>2, <2>4, <2>5, <2>8 DEF ClaimsFresh, At, old
  <2>10. CommandInv(c)'
    BY <1>1, <2>2, <2>4, <2>6, <2>7, <2>9, UnderWayInv
  <2> QED BY <2>1, <2>2, <2>3, <2>10, OwnStep
<1> QED BY <1>3, <1>4

\* The transaction of a preparation begins.
LEMMA BeginCreationInv ==
  ASSUME DemoInv, NEW c \in Commands, BeginCreation(c)
  PROVE  DemoInv'
<1>1. At(c, "looking") /\ ~At(c, "locking") /\ DrawsIdentity(c, {}) /\ UNCHANGED sessions
  BY DEF BeginCreation, At
<1> QED BY <1>1, DrawInv DEF At

\* A restart archives its session, and holds its entry alone.
LEMMA ArchiveActiveInv ==
  ASSUME DemoInv, NEW c \in Commands, ArchiveActive(c)
  PROVE  DemoInv'
<1> DEFINE owner == command[c].owner
           target == command[c].target
<1>1. /\ At(c, "locking") /\ ~At(c, "looking") /\ RowFree(c) /\ Owned(c) /\ Target(c).state = "ACTIVE"
      /\ DrawsIdentity(c, {ActiveEntry(c)}) /\ UNCHANGED sessions /\ owner \in Owners
      /\ target \in Active(owner)
  BY DEF ArchiveActive, ActiveEntry, At, Running, Owned, Target, Active, DemoInv, TypeOK,
         CommandInv, Phase, Command
<1>2. ASSUME NEW d \in Commands \ {c}, ActiveEntry(c) \in claims[d] PROVE FALSE
  <2>1. Committed(ActiveEntry(c))
    BY <1>1 DEF Committed, ActiveEntry
  <2>2. ActiveEntry(c) = ActiveEntry(d) /\ ArchivesOwn(d)
    BY <1>2, <2>1 DEF DemoInv, CommandInv, ClaimsFresh
  <2>3. command[d].owner = owner /\ command[d].target \in Active(owner)
    BY <2>2 DEF ActiveEntry, ArchivesOwn, Owned, Target, Active, DemoInv, TypeOK, Command
  <2>4. command[d].target = target
    BY <1>1, <2>3 DEF DemoInv, SessionsInv, OneActivePerOwner
  <2> QED BY <1>1, <2>2, <2>4 DEF ArchivesOwn, RowFree
<1> QED BY <1>1, <1>2, DrawInv DEF At

\* What a transaction that is inserting holds, and what its next entry is.
LEMMA Inserting ==
  ASSUME DemoInv, NEW c \in Commands, At(c, "inserting"), ~Complete(c)
  PROVE  /\ Running(c) /\ command[c].owner \in Owners
         /\ NextEntry(c) \in Entries \ claims[c]
         /\ NextEntry(c) \in {CompanyEntry(c), ActiveEntry(c), KeyEntry(c)}
         /\ NextEntry(c) = KeyEntry(c) => claims[c] = {CompanyEntry(c), ActiveEntry(c)}
         /\ KeyEntry(c) \notin claims[c]
         /\ command[c].kind = "restart" => NextEntry(c) # ActiveEntry(c)
<1>1. /\ Running(c) /\ command[c].owner \in Owners
      /\ command[c].cnpj \in Cnpjs /\ command[c].key \in Keys
      /\ claims[c] \subseteq {CompanyEntry(c), ActiveEntry(c), KeyEntry(c)}
      /\ KeyEntry(c) \notin claims[c]
      /\ command[c].kind = "restart" => ActiveEntry(c) \in claims[c]
  BY DEF DemoInv, CommandInv, Phase, ClaimsOrdered, ClaimsFresh, ArchivesOwn, Running, At, Valid
<1>2. /\ CompanyEntry(c) \in Entries /\ ActiveEntry(c) \in Entries /\ KeyEntry(c) \in Entries
      /\ CompanyEntry(c) # KeyEntry(c) /\ ActiveEntry(c) # KeyEntry(c) /\ CompanyEntry(c) # ActiveEntry(c)
  BY <1>1 DEF Entries, CompanyEntry, ActiveEntry, KeyEntry
<1> QED BY <1>1, <1>2 DEF NextEntry

\* The next entry of a transaction, when it is free.
LEMMA InsertEntryInv ==
  ASSUME DemoInv, NEW c \in Commands, InsertEntry(c)
  PROVE  DemoInv'
<1> DEFINE entry == NextEntry(c)
           held == claims[c] \cup {entry}
<1>1. /\ At(c, "inserting") /\ ~Complete(c) /\ ~Committed(entry) /\ UNCHANGED <<sessions, command>>
      /\ claims' = [claims EXCEPT ![c] = held] /\ \A d \in Commands \ {c} : entry \notin claims[d]
  BY DEF InsertEntry, EntryFree
<1>2. /\ Running(c) /\ entry \in Entries /\ entry \in {CompanyEntry(c), ActiveEntry(c), KeyEntry(c)}
      /\ entry = KeyEntry(c) => claims[c] = {CompanyEntry(c), ActiveEntry(c)}
      /\ KeyEntry(c) \notin claims[c]
  BY <1>1, Inserting
<1> HIDE DEF entry
<1>3. /\ held \in SUBSET Entries /\ \A d \in Commands \ {c} : held \cap claims[d] = {}
      /\ claims'[c] = held /\ command' = [command EXCEPT ![c] = command[c]] /\ command[c] \in Command
  BY <1>1, <1>2 DEF DemoInv, TypeOK, ClaimsExclusive
<1>4. /\ Target(c)' = Target(c) /\ (Owned(c)' <=> Owned(c))
      /\ \A owner : Active(owner)' = Active(owner)
      /\ \A state : At(c, state)' <=> At(c, state)
      /\ Running(c)' <=> Running(c)
      /\ CompanyEntry(c)' = CompanyEntry(c) /\ ActiveEntry(c)' = ActiveEntry(c)
      /\ KeyEntry(c)' = KeyEntry(c) /\ command'[c] = command[c]
  BY <1>1 DEF Target, Owned, Active, At, Running, CompanyEntry, ActiveEntry, KeyEntry
<1>5. \A other : Committed(other)' <=> Committed(other)
  BY <1>1, <1>4 DEF Committed
<1>6. Phase(c)'
  BY <1>4 DEF DemoInv, CommandInv, Phase
<1>7. ClaimsOrdered(c)'
  <2>1. held \subseteq {CompanyEntry(c), ActiveEntry(c), KeyEntry(c)}
    BY <1>2 DEF DemoInv, CommandInv, ClaimsOrdered
  <2>2. KeyEntry(c) \in held => held = {CompanyEntry(c), ActiveEntry(c), KeyEntry(c)}
    BY <1>2
  <2> QED BY <1>1, <1>3, <1>4, <2>1, <2>2 DEF ClaimsOrdered, Complete
<1>8. ArchivesOwn(c) => ArchivesOwn(c)'
  BY <1>3, <1>4 DEF ArchivesOwn
<1>9. ClaimsFresh(c)'
  BY <1>1, <1>3, <1>4, <1>5, <1>8 DEF DemoInv, CommandInv, ClaimsFresh
<1>10. CommandInv(c)'
  BY <1>1, <1>2, <1>6, <1>7, <1>9, UnderWayInv DEF At
<1> QED BY <1>1, <1>3, <1>10, OwnStep

\* An entry that is committed already: the transaction is rolled back.
LEMMA UniqueViolationInv ==
  ASSUME DemoInv, NEW c \in Commands, UniqueViolation(c)
  PROVE  DemoInv'
<1> DEFINE old == command[c]
           n == IF NextEntry(c) = ActiveEntry(c) THEN 0 ELSE 1
<1>1. /\ At(c, "inserting") /\ ~Complete(c) /\ Committed(NextEntry(c)) /\ UNCHANGED sessions
      /\ old \in Command
  BY DEF UniqueViolation, DemoInv, TypeOK
<1>2. /\ old.collided = old.attempt - 1 /\ old.attempt \in 1 .. MaxIdentityAttempts /\ Running(c)
      /\ old.kind \in {"prepare", "restart"} /\ old.owner \in Owners
  BY <1>1 DEF DemoInv, CommandInv, Phase, Running, At, Command
<1>3. CASE old.kind = "restart"
  <2>1. NextEntry(c) # ActiveEntry(c)
    BY <1>1, <1>3, Inserting
  <2>2. TriesAgain(c, 1) /\ old.collided + 1 = old.attempt
    BY <1>2, <1>3, <2>1 DEF UniqueViolation
  <2> QED BY <1>1, <2>2, AgainInv DEF At
<1>4. CASE old.kind = "prepare"
  <2> DEFINE met == old.collided + n
             cmd == [Without(old) EXCEPT !.state = "rereading", !.collided = met]
  <2>1. claims' = [claims EXCEPT ![c] = {}] /\ command' = [command EXCEPT ![c] = cmd]
    BY <1>4 DEF UniqueViolation
  <2>2. met \in 0 .. MaxIdentityAttempts /\ (met = old.attempt \/ (met = old.attempt - 1 /\ n = 0))
    BY <1>2, DemoAssumption
  <2>3. n = 0 => Active(old.owner) # {}
    BY <1>1 DEF Committed, ActiveEntry
  <2> HIDE DEF old, met, n
  <2>4. /\ Without(old) \in Command /\ Without(old).kind = old.kind
        /\ Without(old).owner = old.owner /\ Without(old).attempt = old.attempt
    BY <1>1 DEF Without, Command
  <2>5. /\ cmd \in Command /\ cmd.kind = old.kind /\ cmd.owner = old.owner
        /\ cmd.state = "rereading" /\ cmd.attempt = old.attempt /\ cmd.collided = met
    BY <2>2, <2>4 DEF Command, CommandStates
  <2> HIDE DEF cmd
  <2>6. command'[c] = cmd /\ claims'[c] = {}
    BY <2>1 DEF DemoInv, TypeOK
  <2>7. \A owner : Active(owner)' = Active(owner)
    BY <1>1 DEF Active
  <2>8. Phase(c)'
    BY <1>2, <1>4, <2>2, <2>3, <2>5, <2>6, <2>7 DEF Phase, Running, At
  <2>9. CommandInv(c)'
    BY <1>1, <1>2, <2>5, <2>6, <2>8, NothingHeld, UnderWayInv
  <2> QED BY <1>1, <2>1, <2>5, <2>9, ReleaseStep
<1> QED BY <1>2, <1>3, <1>4

\* A preparation looks for the session it lost to, or tries another identity.
LEMMA FindWinnerInv ==
  ASSUME DemoInv, NEW c \in Commands, FindWinner(c)
  PROVE  DemoInv'
<1>1. At(c, "rereading") /\ UNCHANGED sessions
  BY DEF FindWinner
<1>2. ASSUME NEW id \in Active(command[c].owner), Answers(c, id), UNCHANGED claims
      PROVE  DemoInv'
  BY <1>1, <1>2, FindActiveInv DEF At
<1>3. CASE Active(command[c].owner) = {} /\ TriesAgain(c, 0)
  <2>1. command[c].collided = command[c].attempt /\ command[c].attempt \in Int
    BY <1>1, <1>3 DEF DemoInv, TypeOK, CommandInv, Phase, Command
  <2>2. command[c].collided + 0 = command[c].attempt
    BY <2>1
  <2> QED BY <1>1, <1>3, <2>2, AgainInv DEF At
<1> QED BY <1>2, <1>3 DEF FindWinner

\* A failure undoes what the command had open.
LEMMA AbortInv ==
  ASSUME DemoInv, NEW c \in Commands, Abort(c)
  PROVE  DemoInv'
<1>1. Running(c) /\ UNCHANGED sessions /\ Ends(c, "failed") /\ claims' = [claims EXCEPT ![c] = {}]
  BY DEF Abort
<1> QED BY <1>1, EndInv

-----------------------------------------------------------------------------
(* COMMIT.                                                                 *)

\* What COMMIT changes: there is one more session, and the one it succeeds, if
\* any, is archived.
Succeeds(c, id) == command[c].kind = "restart" /\ id = command[c].target

Committing(c, new) ==
  /\ new = <<c, command[c].attempt>> /\ new \in Ids /\ new # None
  /\ sessions[new] = None /\ sessions'[new] = NewSession(c)
  /\ NewSession(c) \in Session /\ NewSession(c) # None
  /\ \A id \in Known : /\ id \in Ids /\ id # new /\ sessions[id] \in Session
                       /\ sessions'[id] \in Session /\ sessions'[id] # None
                       /\ sessions'[id].owner = sessions[id].owner
                       /\ sessions'[id].cnpj = sessions[id].cnpj
                       /\ sessions'[id].key = sessions[id].key
                       /\ ~Succeeds(c, id) => sessions'[id] = sessions[id]
                       /\ Succeeds(c, id) => /\ sessions'[id].state = "ARCHIVED"
                                             /\ sessions'[id].successor = new
  /\ \A id \in Ids : id \notin Known /\ id # new => sessions'[id] = None
  /\ \A i \in 1 .. MaxIdentityAttempts : sessions[<<c, i>>] = None
  /\ command[c].owner \in Owners
  /\ Active(command[c].owner) = {id \in Known : Succeeds(c, id)}
  /\ command[c].kind = "restart" =>
       /\ command[c].target \in Known /\ sessions[command[c].target].owner = command[c].owner
       /\ sessions[command[c].target].state = "ACTIVE"
  /\ command[c].cnpj \in Valid \ TakenCnpjs /\ command[c].key \in Keys \ ProcessedKeys
  /\ \A id \in Known : sessions[id].cnpj # command[c].cnpj /\ sessions[id].key # command[c].key

LEMMA CommitChanges ==
  ASSUME DemoInv, NEW c \in Commands, CommitSession(c)
  PROVE  \E new \in Ids : Committing(c, new)
<1> DEFINE old == command[c]
           new == <<c, old.attempt>>
           target == old.target
<1>1. /\ At(c, "inserting") /\ claims[c] = {CompanyEntry(c), ActiveEntry(c), KeyEntry(c)}
      /\ old \in Command /\ Running(c)
  BY DEF CommitSession, Complete, At, Running, DemoInv, TypeOK
<1>2. /\ old.kind \in {"prepare", "restart"} /\ old.cnpj \in Valid /\ old.key \in Keys \ ProcessedKeys
      /\ old.owner \in Owners /\ old.attempt \in 1 .. MaxIdentityAttempts
  BY <1>1 DEF DemoInv, CommandInv, Phase, At, Command
<1>3. new \in Ids /\ new # None
  BY <1>2, DemoAssumption DEF Ids
<1>4. \A i \in 1 .. MaxIdentityAttempts : sessions[<<c, i>>] = None
  BY <1>1, NotYetNamed
<1>5. NewSession(c) \in Session /\ NewSession(c) # None
  <2>1. NewSession(c) \in Session
    BY <1>2 DEF NewSession, Session, Valid
  <2> QED BY <2>1, DemoAssumption
<1>6. old.kind = "restart" => /\ target \in Known /\ sessions[target].owner = old.owner
                              /\ sessions[target].state = "ACTIVE"
  BY <1>1 DEF DemoInv, TypeOK, CommandInv, ClaimsFresh, ArchivesOwn, Owned, Target, Known, Command
<1>7. sessions'[new] = NewSession(c) /\ sessions[new] = None
  BY <1>2, <1>3, <1>4 DEF CommitSession
<1>8. \A id \in Ids \ {new} :
        sessions'[id] = IF old.kind = "restart" /\ id = target
                        THEN [sessions[id] EXCEPT !.state = "ARCHIVED", !.successor = new]
                        ELSE sessions[id]
  BY DEF CommitSession
<1>9. ASSUME NEW id \in Known
      PROVE  /\ id \in Ids /\ id # new /\ sessions[id] \in Session
             /\ sessions'[id] \in Session /\ sessions'[id] # None
             /\ sessions'[id].owner = sessions[id].owner
             /\ sessions'[id].cnpj = sessions[id].cnpj
             /\ sessions'[id].key = sessions[id].key
             /\ ~Succeeds(c, id) => sessions'[id] = sessions[id]
             /\ Succeeds(c, id) => sessions'[id].state = "ARCHIVED" /\ sessions'[id].successor = new
  <2>1. id \in Ids /\ id # new /\ sessions[id] \in Session /\ sessions[id] # None
    BY <1>7 DEF Known, DemoInv, TypeOK
  <2> HIDE DEF new
  <2>2. CASE Succeeds(c, id)
    <3> DEFINE archived == [sessions[id] EXCEPT !.state = "ARCHIVED", !.successor = new]
    <3>1. sessions'[id] = archived
      BY <1>8, <2>1, <2>2 DEF Succeeds
    <3>2. /\ archived \in Session /\ archived.owner = sessions[id].owner
          /\ archived.cnpj = sessions[id].cnpj /\ archived.key = sessions[id].key
          /\ archived.state = "ARCHIVED" /\ archived.successor = new
      BY <1>3, <2>1 DEF Session
    <3>3. archived # None
      BY <3>2, DemoAssumption
    <3> HIDE DEF archived
    <3> QED BY <2>1, <2>2, <3>1, <3>2, <3>3
  <2>3. CASE ~Succeeds(c, id)
    BY <1>8, <2>1, <2>3 DEF Succeeds
  <2> QED BY <2>2, <2>3
<1>10. ASSUME NEW id \in Ids, id \notin Known, id # new PROVE sessions'[id] = None
  BY <1>6, <1>8, <1>10 DEF Known
<1>11. \A entry \in claims[c] : Committed(entry) => entry = ActiveEntry(c) /\ old.kind = "restart"
  BY DEF DemoInv, CommandInv, ClaimsFresh, ArchivesOwn
<1>12. /\ CompanyEntry(c) # ActiveEntry(c) /\ KeyEntry(c) # ActiveEntry(c)
       /\ ~Committed(CompanyEntry(c)) /\ ~Committed(KeyEntry(c))
  BY <1>1, <1>11 DEF CompanyEntry, ActiveEntry, KeyEntry
<1>13. old.cnpj \notin TakenCnpjs
  BY <1>12 DEF Committed, CompanyEntry
<1>14. \A id \in Known : sessions[id].cnpj # old.cnpj /\ sessions[id].key # old.key
  BY <1>12 DEF Committed, CompanyEntry, KeyEntry, Known
<1>15. Active(old.owner) = {id \in Known : Succeeds(c, id)}
  <2>1. CASE old.kind = "restart"
    <3>1. target \in Active(old.owner)
      BY <1>6, <2>1 DEF Active, Known
    <3>2. Active(old.owner) = {target}
      BY <1>2, <3>1 DEF DemoInv, SessionsInv, OneActivePerOwner
    <3> QED BY <1>6, <2>1, <3>2 DEF Succeeds
  <2>2. CASE old.kind # "restart"
    <3>1. ~Committed(ActiveEntry(c))
      BY <1>1, <1>11, <2>2
    <3>2. Active(old.owner) = {}
      BY <3>1 DEF Committed, ActiveEntry
    <3> QED BY <2>2, <3>2 DEF Succeeds
  <2> QED BY <2>1, <2>2
<1> HIDE DEF new
<1>16. Committing(c, new)
  <2>1. new = <<c, old.attempt>>
    BY DEF new
  <2> HIDE DEF old
  <2> QED BY <1>2, <1>3, <1>4, <1>5, <1>6, <1>7, <1>9, <1>10, <1>13, <1>14, <1>15, <2>1
          DEF Committing, old
<1> QED BY <1>3, <1>16

\* The active sessions after a COMMIT: the owner's is the new one.
LEMMA CommitActive ==
  ASSUME DemoInv, NEW c \in Commands, NEW new \in Ids, Committing(c, new)
  PROVE  /\ Known' = Known \cup {new}
         /\ \A owner : Active(owner)' = IF owner = command[c].owner THEN {new} ELSE Active(owner)
<1>1. Known' = Known \cup {new}
  BY DEF Committing, Known
<1>2. sessions'[new].owner = command[c].owner /\ sessions'[new].state = "ACTIVE" /\ sessions'[new] # None
  BY DEF Committing, NewSession
<1>3. ASSUME NEW owner, NEW id \in Known
      PROVE  id \in Active(owner)' <=> id \in Active(owner) /\ owner # command[c].owner
  <2>1. id \in Ids /\ sessions[id] # None /\ sessions'[id] # None /\ sessions'[id].owner = sessions[id].owner
    BY DEF Committing, Known
  <2>2. CASE Succeeds(c, id)
    <3>1. sessions'[id].state = "ARCHIVED" /\ sessions[id].owner = command[c].owner
      BY <2>2 DEF Committing, Succeeds
    <3> QED BY <2>1, <3>1 DEF Active
  <2>3. CASE ~Succeeds(c, id)
    <3>1. sessions'[id] = sessions[id] /\ id \notin Active(command[c].owner)
      BY <2>3 DEF Committing
    <3> QED BY <2>1, <3>1 DEF Active
  <2> QED BY <2>2, <2>3
<1>4. \A owner : Active(owner) \subseteq Known /\ Active(owner)' \subseteq Known'
  BY DEF Active, Known
<1>5. \A owner : new \in Active(owner)' <=> owner = command[c].owner
  BY <1>2 DEF Active
<1>6. new \notin Known
  BY DEF Committing
<1> QED BY <1>1, <1>3, <1>4, <1>5, <1>6

\* After a COMMIT the sessions of each owner are still one chain.
LEMMA CommitSessions ==
  ASSUME DemoInv, NEW c \in Commands, NEW new \in Ids, Committing(c, new)
  PROVE  SessionsInv'
<1>1. /\ Known' = Known \cup {new}
      /\ \A owner : Active(owner)' = IF owner = command[c].owner THEN {new} ELSE Active(owner)
  BY CommitActive
<1>2. /\ sessions'[new].owner = command[c].owner /\ sessions'[new].state = "ACTIVE"
      /\ sessions'[new].successor = None /\ sessions'[new].cnpj = command[c].cnpj
      /\ sessions'[new].key = command[c].key
  BY DEF Committing, NewSession
<1>3. OneActivePerOwner'
  <2>1. \A owner \in Owners : \A id, other \in Active(owner)' : id = other
    BY <1>1 DEF DemoInv, SessionsInv, OneActivePerOwner
  <2>2. \A id \in Known : sessions'[id].owner = sessions[id].owner /\ Active(sessions[id].owner) # {}
    BY DEF DemoInv, SessionsInv, OneActivePerOwner, Committing
  <2>3. \A id \in Known' : \E owner : owner = sessions'[id].owner /\ Active(owner)' # {}
    BY <1>1, <1>2, <2>2
  <2> QED BY <2>1, <2>3 DEF OneActivePerOwner
<1>4. SuccessorsChain'
  <2>1. ASSUME NEW id \in Known
        PROVE  IF sessions'[id].state = "ACTIVE" THEN sessions'[id].successor = None
               ELSE /\ sessions'[id].successor \in Known'
                    /\ sessions'[sessions'[id].successor].owner = sessions'[id].owner
                    /\ \A other \in Known' \ {id} : sessions'[other].successor # sessions'[id].successor
    <3>1. /\ sessions[id].state = "ACTIVE" => sessions[id].successor = None
          /\ sessions[id].state # "ACTIVE" =>
               /\ sessions[id].successor \in Known
               /\ sessions[sessions[id].successor].owner = sessions[id].owner
               /\ \A other \in Known \ {id} : sessions[other].successor # sessions[id].successor
      BY DEF DemoInv, SessionsInv, SuccessorsChain
    <3>2. None \notin Known /\ new \notin Known /\ new # None
      BY DemoAssumption DEF Known, Committing
    <3>3. \A other \in Known \ {id} : Succeeds(c, id) => ~Succeeds(c, other)
      BY DEF Succeeds
    <3>4. CASE Succeeds(c, id)
      <4>1. sessions'[id].state = "ARCHIVED" /\ sessions'[id].successor = new
            /\ sessions'[id].owner = command[c].owner
        BY <3>4 DEF Committing, Succeeds
      <4>2. ASSUME NEW other \in Known \ {id} PROVE sessions'[other].successor # new
        <5>1. sessions'[other] = sessions[other]
          BY <3>3, <3>4 DEF Committing
        <5>2. sessions[other].successor \in Known \cup {None}
          BY DEF DemoInv, SessionsInv, SuccessorsChain
        <5> QED BY <3>2, <5>1, <5>2
      <4> QED BY <1>1, <1>2, <3>2, <4>1, <4>2
    <3>5. CASE ~Succeeds(c, id)
      <4>1. sessions'[id] = sessions[id]
        BY <3>5 DEF Committing
      <4>2. CASE sessions[id].state = "ACTIVE"
        BY <3>1, <4>1, <4>2
      <4>3. CASE sessions[id].state # "ACTIVE"
        <5> DEFINE successor == sessions[id].successor
        <5>1. successor \in Known /\ sessions'[successor].owner = sessions'[id].owner
          BY <3>1, <4>1, <4>3 DEF Committing
        <5>2. ASSUME NEW other \in Known' \ {id} PROVE sessions'[other].successor # successor
          <6>1. CASE other = new
            BY <1>2, <3>2, <5>1, <6>1
          <6>2. CASE other \in Known /\ Succeeds(c, other)
            <7>1. sessions'[other].successor = new
              BY <6>2 DEF Committing
            <7> QED BY <3>2, <5>1, <7>1
          <6>3. CASE other \in Known /\ ~Succeeds(c, other)
            <7>1. sessions'[other] = sessions[other]
              BY <6>3 DEF Committing
            <7> QED BY <3>1, <4>3, <6>3, <7>1
          <6> QED BY <1>1, <6>1, <6>2, <6>3
        <5> QED BY <1>1, <4>1, <4>3, <5>1, <5>2
      <4> QED BY <4>2, <4>3
    <3> QED BY <3>4, <3>5
  <2> QED BY <1>1, <1>2, <2>1 DEF SuccessorsChain
<1>5. IdentitiesUnique'
  <2>1. \A id \in Known : sessions'[id].cnpj = sessions[id].cnpj /\ sessions'[id].key = sessions[id].key
    BY DEF Committing
  <2>2. /\ command[c].cnpj \in Valid \ TakenCnpjs /\ command[c].key \in Keys \ ProcessedKeys
        /\ \A id \in Known : sessions[id].cnpj # command[c].cnpj /\ sessions[id].key # command[c].key
    BY DEF Committing
  <2>3. Valid' = Valid
    BY DEF Valid
  <2> QED BY <1>1, <1>2, <2>1, <2>2 DEF DemoInv, SessionsInv, IdentitiesUnique
<1> QED BY <1>3, <1>4, <1>5 DEF SessionsInv

\* After a COMMIT every other command stands where it stood.
LEMMA CommitOthers ==
  ASSUME DemoInv, NEW c \in Commands, CommitSession(c), NEW new \in Ids, Committing(c, new),
         NEW d \in Commands \ {c}
  PROVE  CommandInv(d)'
<1>1. /\ Known' = Known \cup {new}
      /\ \A owner : Active(owner)' = IF owner = command[c].owner THEN {new} ELSE Active(owner)
  BY CommitActive
<1>2. /\ command'[d] = command[d] /\ claims'[d] = claims[d] /\ CommandInv(d) /\ command[d] \in Command
      /\ claims[c] = {CompanyEntry(c), ActiveEntry(c), KeyEntry(c)} /\ claims[c] \cap claims[d] = {}
  BY DEF CommitSession, Complete, Answers, Ends, DemoInv, TypeOK, ClaimsExclusive
<1>3. /\ \A state : At(d, state)' <=> At(d, state)
      /\ Running(d)' <=> Running(d)
      /\ CompanyEntry(d)' = CompanyEntry(d) /\ ActiveEntry(d)' = ActiveEntry(d)
      /\ KeyEntry(d)' = KeyEntry(d) /\ (Complete(d)' <=> Complete(d))
  BY <1>2 DEF At, Running, CompanyEntry, ActiveEntry, KeyEntry, Complete
<1>4. \A owner : Active(owner) # {} => Active(owner)' # {}
  BY <1>1
<1>5. ASSUME Owned(d)
      PROVE  /\ Owned(d)' /\ command[d].target \in Known
             /\ Target(d).state = "ARCHIVED" => Target(d)' = Target(d)
             /\ ~Succeeds(c, command[d].target) => Target(d)' = Target(d)
  <2>1. command[d].target \in Known /\ command[d].target # None
    BY <1>2, <1>5 DEF Owned, Target, Known, Command
  <2>2. sessions[command[d].target].state = "ARCHIVED" => ~Succeeds(c, command[d].target)
    BY DEF Committing, Succeeds
  <2> QED BY <1>2, <1>5, <2>1, <2>2 DEF Owned, Target, Committing
<1>6. Phase(d)'
  BY <1>2, <1>3, <1>4, <1>5 DEF CommandInv, Phase
<1>7. ArchivesOwn(d) => ArchivesOwn(d)'
  <2> SUFFICES ASSUME ArchivesOwn(d) PROVE ArchivesOwn(d)'
    OBVIOUS
  <2>1. ~Succeeds(c, command[d].target)
    <3>1. Owned(d) /\ ActiveEntry(d) \in claims[d] /\ ActiveEntry(c) \in claims[c]
      BY <1>2 DEF ArchivesOwn
    <3>2. command[d].owner # command[c].owner
      BY <1>2, <3>1 DEF ActiveEntry
    <3> QED BY <3>1, <3>2 DEF Succeeds, Committing, Owned, Target
  <2> QED BY <1>2, <1>3, <1>5, <2>1 DEF ArchivesOwn
<1>8. ASSUME NEW entry \in claims[d], Committed(entry)' PROVE Committed(entry)
  <2>1. entry \notin {CompanyEntry(c), ActiveEntry(c), KeyEntry(c)}
    BY <1>2
  <2>2. CASE entry[1] = "active" /\ Active(entry[2])' # {}
    <3>1. entry = <<"active", entry[2]>>
      BY <1>2, <2>2 DEF CommandInv, ClaimsOrdered, ActiveEntry, CompanyEntry, KeyEntry
    <3>2. entry[2] # command[c].owner
      BY <2>1, <3>1 DEF ActiveEntry
    <3> QED BY <1>1, <2>2, <3>2 DEF Committed
  <2>3. CASE entry[1] = "cnpj" /\ entry[2] \in TakenCnpjs
    BY <2>3 DEF Committed
  <2>4. ASSUME NEW id \in Ids, sessions'[id] # None,
               entry \in {<<"cnpj", sessions'[id].cnpj>>, <<"key", sessions'[id].key>>}
        PROVE  Committed(entry)
    <3>1. CASE id = new
      BY <2>1, <2>4, <3>1 DEF Committing, NewSession, CompanyEntry, KeyEntry
    <3>2. CASE id # new
      <4>1. id \in Known
        BY <1>1, <2>4, <3>2 DEF Known
      <4>2. sessions'[id].cnpj = sessions[id].cnpj /\ sessions'[id].key = sessions[id].key /\ sessions[id] # None
        BY <4>1 DEF Committing, Known
      <4> QED BY <2>4, <4>2 DEF Committed
    <3> QED BY <3>1, <3>2
  <2> QED BY <1>8, <2>2, <2>3, <2>4 DEF Committed
<1>9. ClaimsOrdered(d)' /\ ClaimsFresh(d)'
  BY <1>2, <1>3, <1>7, <1>8 DEF CommandInv, ClaimsOrdered, ClaimsFresh
<1>10. SessionNamed(d)'
  <2>1. \A i \in 1 .. MaxIdentityAttempts :
          <<d, i>> \in Ids /\ <<d, i>> # new /\ (sessions'[<<d, i>>] = None <=> sessions[<<d, i>>] = None)
    <3> SUFFICES ASSUME NEW i \in 1 .. MaxIdentityAttempts
                 PROVE  /\ <<d, i>> \in Ids /\ <<d, i>> # new
                        /\ sessions'[<<d, i>>] = None <=> sessions[<<d, i>>] = None
      OBVIOUS
    <3>1. <<d, i>> \in Ids /\ <<d, i>> # new
      BY DEF Ids, Committing
    <3> QED BY <3>1 DEF Committing, Known
  <2> QED BY <1>2, <2>1 DEF CommandInv, SessionNamed
<1>11. AnswerOwned(d)'
  <2> SUFFICES ASSUME At(d, "answered") PROVE AnswerOwned(d)'
    BY <1>3 DEF AnswerOwned
  <2>1. AnswerOwned(d) /\ command[d].answer \in Known
    BY <1>2 DEF CommandInv, AnswerOwned, Known
  <2>2. /\ sessions'[command[d].answer] # None
        /\ sessions'[command[d].answer].owner = sessions[command[d].answer].owner
        /\ sessions'[command[d].answer].key = sessions[command[d].answer].key
    BY <2>1 DEF Committing
  <2>3. command[d].kind = "restart" => Owned(d)' /\ Target(d)' = Target(d)
    BY <1>5, <2>1 DEF AnswerOwned
  <2> QED BY <1>2, <2>1, <2>2, <2>3 DEF AnswerOwned
<1>12. ArchivedHasSuccessor(d)'
  BY <1>2, <1>3, <1>4, <1>5 DEF CommandInv, ArchivedHasSuccessor
<1> QED BY <1>6, <1>9, <1>10, <1>11, <1>12 DEF CommandInv

\* COMMIT ends its command, whether its acknowledgement is lost or not.
LEMMA CommitInv ==
  ASSUME DemoInv, NEW c \in Commands, CommitSession(c)
  PROVE  DemoInv'
<1>1. PICK new \in Ids : Committing(c, new)
  BY CommitChanges
<1> DEFINE old == command[c]
           answered == [Blank EXCEPT !.state = "answered", !.answer = new, !.kind = old.kind,
                                     !.owner = old.owner, !.target = old.target]
           lost == [Blank EXCEPT !.state = "failed"]
<1>2. /\ old \in Command /\ old.kind # "document" /\ claims' = [claims EXCEPT ![c] = {}]
      /\ \E cmd \in {answered, lost} : command' = [command EXCEPT ![c] = cmd]
  <2>1. new = <<c, old.attempt>> /\ At(c, "inserting")
    BY <1>1 DEF Committing, CommitSession
  <2> QED BY <2>1 DEF CommitSession, Answers, Ends, DemoInv, TypeOK, CommandInv, Phase
<1>3. answered \in Command /\ lost \in Command
  BY <1>2, BlankTyped DEF Blank, Command, CommandStates
<1>4. /\ answered.state = "answered" /\ answered.answer = new /\ answered.kind = old.kind
      /\ answered.owner = old.owner /\ answered.target = old.target /\ lost.state = "failed"
  BY <1>3 DEF Blank
<1> HIDE DEF answered, lost
<1>5. PICK cmd \in {answered, lost} : command' = [command EXCEPT ![c] = cmd]
  BY <1>2
<1>6. command'[c] = cmd /\ claims'[c] = {} /\ \A d \in Commands \ {c} : claims'[d] = claims[d]
  BY <1>2, <1>5 DEF DemoInv, TypeOK
<1>7. sessions' \in [Ids -> Session \cup {None}]
  <2>1. \A id \in Ids : sessions'[id] \in Session \cup {None}
    BY <1>1 DEF Committing
  <2> QED BY <2>1 DEF CommitSession
<1>8. TypeOK' /\ ClaimsExclusive'
  BY <1>2, <1>3, <1>5, <1>6, <1>7 DEF DemoInv, TypeOK, ClaimsExclusive
<1>9. Phase(c)' /\ ClaimsOrdered(c)' /\ ClaimsFresh(c)' /\ ArchivedHasSuccessor(c)'
  <2>1. cmd.state \in {"answered", "failed"}
    BY <1>4
  <2> QED BY <1>6, <2>1, NothingHeld DEF Phase, At, Running, ArchivedHasSuccessor
<1>10. SessionNamed(c)'
  <2>1. \A i \in 1 .. MaxIdentityAttempts : <<c, i>> # new => sessions'[<<c, i>>] = None
    BY <1>1 DEF Committing, Known, Ids
  <2>2. ASSUME NEW i \in 1 .. MaxIdentityAttempts, NEW j \in 1 .. MaxIdentityAttempts, j # i,
               sessions'[<<c, i>>] # None
        PROVE  sessions'[<<c, j>>] = None
    <3>1. <<c, i>> = new
      BY <2>1, <2>2
    <3>2. <<c, j>> # new
      BY <2>2, <3>1
    <3> QED BY <2>1, <3>2
  <2>3. cmd.state \in {"answered", "failed"}
    BY <1>4
  <2> QED BY <1>6, <2>2, <2>3 DEF SessionNamed
<1>11. AnswerOwned(c)'
  <2> SUFFICES ASSUME cmd = answered PROVE AnswerOwned(c)'
    BY <1>4, <1>6 DEF AnswerOwned, At
  <2>1. sessions'[new] # None /\ sessions'[new].owner = old.owner
    BY <1>1 DEF Committing, NewSession
  <2>2. old.kind = "restart" =>
          /\ old.target \in Ids /\ sessions'[old.target] # None /\ old.target # None
          /\ sessions'[old.target].owner = old.owner /\ sessions'[old.target].state = "ARCHIVED"
          /\ sessions'[old.target].successor = new
    BY <1>1, DemoAssumption DEF Committing, Succeeds
  <2> QED BY <1>2, <1>4, <1>6, <2>1, <2>2 DEF AnswerOwned, At, Owned, Target
<1>12. \A d \in Commands : CommandInv(d)'
  BY <1>1, <1>9, <1>10, <1>11, CommitOthers DEF CommandInv
<1> QED BY <1>1, <1>8, <1>12, CommitSessions DEF DemoInv

-----------------------------------------------------------------------------
(* The invariant, and what follows from it.                                *)

\* Every step keeps the invariant.
LEMMA DemoStep ==
  ASSUME DemoInv, [Next]_vars
  PROVE  DemoInv'
<1>1. CASE UNCHANGED vars
  <2>1. sessions' = sessions /\ claims' = claims /\ command' = command
    BY <1>1 DEF vars
  <2>2. \A c \in Commands : CommandInv(c)'
    BY <2>1, CommandKept
  <2> QED BY <2>1, <2>2
          DEF DemoInv, TypeOK, ClaimsExclusive, SessionsInv, OneActivePerOwner, SuccessorsChain,
              IdentitiesUnique, Known, Active
<1>2. ASSUME NEW c \in Commands, NEW owner \in OwnersOf[c],
             \/ Prepare(c, owner) \/ GetCurrent(c, owner)
             \/ \E id \in Known \cup {None} : Restart(c, owner, id) \/ GetDocument(c, owner, id)
      PROVE  DemoInv'
  <2>1. owner \in Owners
    BY DemoAssumption
  <2> QED BY <1>2, <2>1, PrepareInv, GetCurrentInv, RestartInv, GetDocumentInv
<1>3. ASSUME NEW c \in Commands, Progress(c) PROVE DemoInv'
  <2>1. CASE FindActive(c)
    BY <2>1, FindActiveInv DEF FindActive, At
  <2>2. CASE RestartUnknown(c)
    <3>1. Running(c) /\ UNCHANGED sessions /\ Ends(c, "notFound") /\ claims[c] = {} /\ UNCHANGED claims
      BY <2>2 DEF RestartUnknown, Running, At, DemoInv, CommandInv, ClaimsOrdered
    <3>2. claims' = [claims EXCEPT ![c] = {}]
      BY <3>1 DEF DemoInv, TypeOK
    <3> QED BY <3>1, <3>2, EndInv
  <2> QED BY <1>3, <2>1, <2>2, BeginCreationInv, RestartArchivedInv, ArchiveActiveInv,
             InsertEntryInv, UniqueViolationInv, FindWinnerInv, CommitInv, RenderDocumentInv
          DEF Progress
<1> QED BY <1>1, <1>2, <1>3, AbortInv DEF Next, Finished

\* Demonstration sessions stay in order, however preparations, restarts and
\* readings interleave, collide, fail and lose their acknowledgements: the
\* sessions of an owner are one chain with one active end, no two share an
\* identity, and everybody is answered with a session of one's own.
THEOREM DemoInvariant == Spec => []DemoInv
<1>1. DemoInv /\ [Next]_vars => DemoInv'
  BY DemoStep
<1> QED BY <1>1, DemoInit, PTL DEF Spec

\* Everybody who restarts a session is given the same successor.
THEOREM RestartsAgree == Spec => []RestartIdempotent
<1>1. DemoInv => RestartIdempotent
  BY DEF DemoInv, CommandInv, AnswerOwned, RestartIdempotent, Target
<1> QED BY <1>1, DemoInvariant, PTL

\* Losing a race is never the reason to give up.
THEOREM UnavailableExplained == Spec => []UnavailableMeansCollisions
<1>1. DemoInv => UnavailableMeansCollisions
  BY DEF DemoInv, CommandInv, Phase, UnavailableMeansCollisions
<1> QED BY <1>1, DemoInvariant, PTL

\* An owner who has a session in progress is never without one: only a COMMIT
\* changes sessions, and leaves its owner with the new one.
THEOREM ActiveSessionStays == Spec => ActiveStays
<1> DEFINE Stays == \A owner \in Owners : Active(owner) # {} => (Active(owner) # {})'
<1>1. ASSUME DemoInv, [Next]_vars PROVE Stays
  <2>1. CASE sessions' = sessions
    BY <2>1 DEF Active
  <2>2. ASSUME NEW c \in Commands, CommitSession(c) PROVE Stays
    <3>1. PICK new \in Ids : Committing(c, new)
      BY <1>1, <2>2, CommitChanges
    <3>2. \A owner : Active(owner)' = IF owner = command[c].owner THEN {new} ELSE Active(owner)
      BY <1>1, <3>1, CommitActive
    <3> QED BY <3>2
  <2>3. sessions' = sessions \/ \E c \in Commands : CommitSession(c)
    BY <1>1 DEF Next, vars, Progress, Prepare, GetCurrent, Restart, GetDocument, FindActive,
                BeginCreation, RestartUnknown, RestartArchived, ArchiveActive, InsertEntry,
                UniqueViolation, FindWinner, RenderDocument, Abort, Finished
  <2> QED BY <2>1, <2>2, <2>3
<1> QED BY <1>1, DemoInvariant, PTL DEF Spec, ActiveStays

=============================================================================
