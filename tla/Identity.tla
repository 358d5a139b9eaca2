------------------------------ MODULE Identity ------------------------------
(***************************************************************************)
(* `gitveil identity generate` (identity.rs, age.rs): age-keygen writes a  *)
(* secret into a private staging directory, Gitveil checks it and renames  *)
(* it to its destination.  Generations for one destination run beside each *)
(* other and take no lock; the user creates and removes the file there;    *)
(* commands are killed and the power fails.                                *)
(*                                                                         *)
(* Of a file only what the code looks at is kept.  A file that is not      *)
(* regular (a link, several names) is what a program in age-keygen's place *)
(* may leave.  Overwriting a staged secret is taken to meet no I/O error.  *)
(***************************************************************************)
EXTENDS CapturedChild

CONSTANTS User, Nothing

Generators == Callers

VARIABLES
  pc,        \* where each generation is
  outcome,   \* what it will tell its user
  staged,    \* the file in its staging directory
  residue,   \* the generations whose secret was removed and not overwritten
  parent,    \* the destination's directory: missing, there, or made by Gitveil
  dest,      \* the file at the destination
  durable,   \* what of the directory has reached the disk
  promised   \* whose file the destination must hold

files == <<staged, residue, parent, dest, durable, promised>>
vars == <<call, pc, outcome, staged, residue, parent, dest, durable, promised>>

File == [owner : Generators \cup {User}, content : {"part", "whole", "zero"},
         regular : BOOLEAN, private : BOOLEAN, synced : BOOLEAN]

ASSUME IdentityAssumption == User \notin Generators /\ Nothing \notin File

Init ==
  /\ call = [g \in Generators |-> NoCall]
  /\ pc = [g \in Generators |-> "start"]
  /\ outcome = [g \in Generators |-> "error"]
  /\ staged = [g \in Generators |-> Nothing]
  /\ residue = {}
  /\ parent \in {"missing", "there"}
  /\ dest = Nothing /\ durable = Nothing
  /\ promised = {}

Goto(g, next) == pc' = [pc EXCEPT ![g] = next]

\* The guards of the staged secret and of its directory are dropped.
GiveUp(g) == Goto(g, "wipe")

-----------------------------------------------------------------------------
(* The generation.                                                          *)

\* Nothing may be at the destination, not even a broken link; age-keygen is
\* looked for and asked for its version.
CheckDestination(g) ==
  /\ pc[g] = "start"
  /\ \/ dest = Nothing /\ Goto(g, "version") /\ Spawn(g)
     \/ Goto(g, "done") /\ UNCHANGED call       \* it exists; no age-keygen
  /\ UNCHANGED <<outcome, files>>

CheckVersion(g) ==
  /\ pc[g] = "version" /\ Returned(g)
  /\ \/ Captured(g) /\ Goto(g, "parent")
     \/ Goto(g, "done")                         \* another version, no answer
  /\ Release(g)
  /\ UNCHANGED <<outcome, files>>

\* Missing directories are made, private.  Somebody else may make them first;
\* a later failure leaves what was made.
EnsureParent(g) ==
  /\ pc[g] = "parent"
  /\ \/ /\ parent' = IF parent = "missing" THEN "made" ELSE parent
        /\ Goto(g, "stage") \/ Goto(g, "done")
     \/ UNCHANGED parent /\ Goto(g, "done")
  /\ UNCHANGED <<call, outcome, staged, residue, dest, durable, promised>>

\* A directory of its own beside the destination, for age-keygen to write to.
Stage(g) ==
  /\ pc[g] = "stage"
  /\ \/ Goto(g, "keygen") /\ Spawn(g)
     \/ Goto(g, "done") /\ UNCHANGED call
  /\ UNCHANGED <<outcome, files>>

Generated(g) ==
  /\ pc[g] = "keygen" /\ Returned(g)
  /\ IF Captured(g) THEN Goto(g, "secure") ELSE GiveUp(g)
  /\ Release(g)
  /\ UNCHANGED <<outcome, files>>

\* Mutant: the file is not flushed.
SecureOnly(g) ==
  /\ pc[g] = "secure"
  /\ \/ /\ staged[g] # Nothing /\ staged[g].regular
        /\ staged' = [staged EXCEPT ![g].private = TRUE]
        /\ Goto(g, "derive") /\ Spawn(g)
     \/ GiveUp(g) /\ UNCHANGED <<call, staged>>
  /\ UNCHANGED <<outcome, residue, parent, dest, durable, promised>>

\* secure_generated_identity: a regular file with one name, mode 0600, on
\* disk.  Then age-keygen is asked for its recipients.
Secure(g) ==
  /\ pc[g] = "secure"
  /\ \/ /\ staged[g] # Nothing /\ staged[g].regular
        /\ staged' = [staged EXCEPT ![g].private = TRUE, ![g].synced = TRUE]
        /\ Goto(g, "derive") /\ Spawn(g)
     \/ GiveUp(g) /\ UNCHANGED <<call, staged>>
  /\ UNCHANGED <<outcome, residue, parent, dest, durable, promised>>

\* There must be exactly one.
Derived(g) ==
  /\ pc[g] = "derive" /\ Returned(g)
  /\ \/ Captured(g) /\ Goto(g, "publish")
     \/ GiveUp(g)
  /\ Release(g)
  /\ UNCHANGED <<outcome, files>>

Move(g) ==
  /\ dest' = staged[g] /\ staged' = [staged EXCEPT ![g] = Nothing]
  /\ promised' = promised \cup {g}
  /\ Goto(g, "sync")

\* Mutant: the check at the start is relied on.
PublishReplacing(g) ==
  /\ pc[g] = "publish"
  /\ \/ Move(g)
     \/ GiveUp(g) /\ UNCHANGED <<staged, dest, promised>>
  /\ UNCHANGED <<call, outcome, residue, parent, durable>>

\* renameat with NOREPLACE.  It may fail otherwise too.
Publish(g) ==
  /\ pc[g] = "publish"
  /\ \/ dest = Nothing /\ Move(g)
     \/ GiveUp(g) /\ UNCHANGED <<staged, dest, promised>>
  /\ UNCHANGED <<call, outcome, residue, parent, durable>>

\* The directory the rename was in is flushed.  A failure is a warning.
SyncDirectory(g) ==
  /\ pc[g] = "sync"
  /\ \/ durable' = dest /\ outcome' = [outcome EXCEPT ![g] = "confirmed"]
     \/ UNCHANGED durable /\ outcome' = [outcome EXCEPT ![g] = "unconfirmed"]
  /\ Goto(g, "wipe")
  /\ UNCHANGED <<call, staged, residue, parent, dest, promised>>

\* StagedSecret: a regular file that is still there is overwritten.
Wipe(g) ==
  /\ pc[g] = "wipe"
  /\ staged' = IF staged[g] # Nothing /\ staged[g].regular
               THEN [staged EXCEPT ![g].content = "zero", ![g].private = TRUE]
               ELSE staged
  /\ Goto(g, "remove")
  /\ UNCHANGED <<call, outcome, residue, parent, dest, durable, promised>>

\* The staging directory goes with what is in it; the outcome is printed.
RemoveStaging(g) ==
  /\ pc[g] = "remove"
  /\ residue' = IF staged[g] # Nothing /\ staged[g].regular /\ staged[g].content # "zero"
                THEN residue \cup {g} ELSE residue
  /\ staged' = [staged EXCEPT ![g] = Nothing]
  /\ Goto(g, "done")
  /\ UNCHANGED <<call, outcome, parent, dest, durable, promised>>

-----------------------------------------------------------------------------
(* age-keygen.                                                              *)

\* -o: the file is created, then written.
WriteSecret(g) ==
  /\ pc[g] \notin {"version", "derive"} /\ Lives(g)
  /\ \/ /\ staged[g] = Nothing
        /\ \E regular, private \in BOOLEAN :
             /\ private => regular
             /\ staged' = [staged EXCEPT ![g] =
               [owner |-> g, content |-> "part", regular |-> regular,
                private |-> private, synced |-> FALSE]]
     \/ /\ staged[g] # Nothing /\ staged[g].content = "part"
        /\ staged' = [staged EXCEPT ![g].content = "whole"]
  /\ UNCHANGED <<call, pc, outcome, residue, parent, dest, durable, promised>>

\* -y succeeds on a whole identity only.
Keygen(g) ==
  /\ \/ Succeed(g) /\ (pc[g] = "derive" => staged[g].content = "whole")
     \/ Fail(g) \/ Hang(g)
     \/ \E s \in Streams : Write(g, s)
  /\ UNCHANGED <<pc, outcome, files>>

Capture(g) == CallStep(g) /\ UNCHANGED <<pc, outcome, files>>

-----------------------------------------------------------------------------
(* The user and the machine.                                                *)

UserCreates ==
  /\ dest = Nothing /\ parent # "missing"
  /\ dest' = [owner |-> User, content |-> "whole", regular |-> TRUE,
              private |-> TRUE, synced |-> TRUE]
  /\ promised' = promised \cup {User}
  /\ UNCHANGED <<call, pc, outcome, staged, residue, parent, durable>>

UserRemoves ==
  /\ dest # Nothing
  /\ dest' = Nothing /\ promised' = {}
  /\ UNCHANGED <<call, pc, outcome, staged, residue, parent, durable>>

\* A killed generation cleans nothing up: its staging directory stays for good,
\* with what age-keygen may go on to write there.  Nobody looks at it again and
\* it is left out from here on.
Die(killed) ==
  /\ pc' = [g \in Generators |-> IF g \in killed THEN "dead" ELSE pc[g]]
  /\ call' = [g \in Generators |-> IF g \in killed THEN NoCall ELSE call[g]]
  /\ staged' = [g \in Generators |-> IF g \in killed THEN Nothing ELSE staged[g]]
  /\ UNCHANGED <<outcome, residue>>

Killed(g) ==
  /\ pc[g] \notin {"done", "dead"}
  /\ Die({g}) /\ UNCHANGED <<parent, dest, durable, promised>>

\* What was not flushed may be lost, the content of a file too.  The
\* directory above one that Gitveil made is never flushed, so that one may go
\* with its files: the promise is for the other case.
PowerFailure ==
  /\ Die({g \in Generators : pc[g] # "done"})
  /\ parent' \in IF parent = "made" THEN {"missing", "there"} ELSE {parent}
  /\ \E left \in {dest, durable}, content \in {"part", "whole"} :
       dest' = IF parent' = "missing" \/ left = Nothing THEN Nothing
               ELSE IF left.synced THEN left ELSE [left EXCEPT !.content = content]
  /\ durable' = dest'
  /\ promised' = IF parent = "made" THEN {}
                 ELSE {g \in promised \ {User} : outcome[g] = "confirmed"}

-----------------------------------------------------------------------------
Generate(g) ==
  \/ CheckDestination(g) \/ CheckVersion(g) \/ EnsureParent(g) \/ Stage(g)
  \/ Generated(g) \/ Secure(g) \/ Derived(g) \/ Publish(g) \/ SyncDirectory(g)
  \/ Wipe(g) \/ RemoveStaging(g)

Next ==
  \/ \E g \in Generators :
       Generate(g) \/ Capture(g) \/ WriteSecret(g) \/ Keygen(g) \/ Killed(g)
  \/ UserCreates \/ UserRemoves \/ PowerFailure

\* Gitveil runs on once it was started, its readers among it, and so does an
\* age-keygen that does not hang.
Fairness ==
  \A g \in Generators :
    /\ WF_vars((pc[g] # "start" /\ Generate(g)) \/ Capture(g))
    /\ WF_vars(Keygen(g))

Spec == Init /\ [][Next]_vars /\ Fairness

-----------------------------------------------------------------------------
(* Properties.                                                              *)

TypeOK ==
  /\ CallTypeOK
  /\ pc \in [Generators -> {"start", "version", "parent", "stage", "keygen", "secure",
                            "derive", "publish", "sync", "wipe", "remove", "done", "dead"}]
  /\ outcome \in [Generators -> {"error", "confirmed", "unconfirmed"}]
  /\ staged \in [Generators -> {Nothing} \cup File]
  /\ residue \subseteq Generators
  /\ parent \in {"missing", "there", "made"}
  /\ dest \in {Nothing} \cup File /\ durable \in {Nothing} \cup File
  /\ promised \subseteq Generators \cup {User}
  /\ \A g \in Generators : call[g].at # "none" => pc[g] \in {"version", "keygen", "derive"}

\* README.md:83, identity.rs:291-353: whoever has a file at the destination,
\* the user or a generation, keeps it until the user removes it, whatever
\* generations run; one that was confirmed survives a power failure.
PublishedIsKept ==
  \A owner \in promised : dest # Nothing /\ dest.owner = owner

\* What a generation published is a whole identity that nobody else can read,
\* also after it died or the power failed (identity.rs:230-289).
PublishedIsUsable ==
  dest # Nothing => dest.content = "whole" /\ dest.private

\* A generation that came to an end by itself leaves no secret but the one it
\* published: none in its staging directory and none on the disk below it, even
\* if age-keygen was late (identity.rs:355-410).
NoSecretLeftBehind ==
  \A g \in Generators : pc[g] = "done" => staged[g] = Nothing /\ g \notin residue

\* A generation ends, though age-keygen hangs or writes more than a pipe holds
\* (runtime/process.rs).
EveryGenerationEnds ==
  \A g \in Generators : pc[g] = "version" ~> pc[g] \in {"done", "dead"}
=============================================================================
