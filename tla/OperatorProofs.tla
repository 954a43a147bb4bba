--------------------------- MODULE OperatorProofs ---------------------------
(***************************************************************************)
(* Proofs about Operator.  The argument: what a setup has written so far is *)
(* known from the prompt or the write it stands at, so a command that is    *)
(* abandoned there leaves a database only beside its key; and a daemon is   *)
(* spawned only while no pid file of its name is there to be overwritten.   *)
(***************************************************************************)
EXTENDS Operator, TLAPS

ProfileStage == {"overwrite?", "url?", "key", "db", "config", "card", "delete?", "deleted"}

\* What a command is about: a profile, or a daemon without a pid file, whose
\* process has ended if it is not the one that was spawned.
CommandShape ==
    command # None =>
        /\ command.stage \in ProfileStage => command.on \in Callsign
        /\ command.stage \notin ProfileStage => command.on \in Name /\ pidfile[command.on] = None
        /\ command.stage = "pid" =>
              command.pid \in Pid /\ proc[command.pid] \in {command.on, "none", "foreign"}

\* What a setup has on the disk at each of its stages.
SetupState ==
    /\ At("url?") => disk[command.on] = NoDirectory
    /\ At("key") => /\ disk[command.on].key = setups /\ setups # 0
                    /\ disk[command.on].db = 0 /\ disk[command.on].card = 0
    /\ At("db") \/ At("config") \/ At("card") => disk[command.on].db # 0

IInv == TypeOK /\ CommandShape /\ SetupState /\ KeyOpensDatabase /\ DaemonReachable

LEMMA InitIInv == Init => IInv
<1> SUFFICES ASSUME Init PROVE IInv  OBVIOUS
<1>1. TypeOK
  <2>1. NoDirectory \in Directory  BY OperatorAssumption DEF NoDirectory, Directory
  <2>2. disk \in [Callsign -> Directory]  BY <2>1 DEF Init
  <2>3. setups \in 0 .. MaxSetups  BY OperatorAssumption DEF Init
  <2>4. QED  BY <2>2, <2>3 DEF Init, TypeOK, Name
<1>2. CommandShape /\ SetupState  BY DEF Init, CommandShape, SetupState, At
<1>3. KeyOpensDatabase  BY DEF Init, KeyOpensDatabase, NoDirectory
<1>4. DaemonReachable  BY DEF Init, DaemonReachable, Name
<1>5. QED  BY <1>1, <1>2, <1>3, <1>4 DEF IInv

-----------------------------------------------------------------------------
(* Commands about profiles *)

\* A step of a profile's command: no daemon is touched, and the command is not
\* one that starts a daemon, before or after.
LEMMA ProfileFrame ==
  ASSUME IInv, UNCHANGED daemons, disk' \in [Callsign -> Directory],
         active' \in Callsign \cup {None}, setups' \in 0 .. MaxSetups, agreed' \subseteq Key,
         command = None \/ command.stage \in ProfileStage,
         command' = None \/ (command' \in Command /\ command'.stage \in ProfileStage
                             /\ command'.on \in Callsign)
  PROVE  TypeOK' /\ CommandShape' /\ DaemonReachable'
<1>1. TypeOK'  BY DEF IInv, TypeOK, daemons
<1>2. CommandShape'  BY DEF CommandShape, ProfileStage
<1>3. ~At("pid")  BY DEF At, ProfileStage
<1>4. DaemonReachable'  BY <1>3 DEF IInv, DaemonReachable, daemons
<1>5. QED  BY <1>1, <1>2, <1>4

\* Where a command may go.
LEMMA GoTyped ==
  ASSUME NEW s \in ProfileStage, NEW c \in Callsign, Go(s, c)
  PROVE  /\ command' \in Command /\ command'.stage = s /\ command'.on = c
         /\ command' # None
<1>1. command' = [stage |-> s, on |-> c, pid |-> None]  BY DEF Go
<1>2. s \in Stage  BY DEF ProfileStage, Stage
<1>3. command' \in Command  BY <1>1, <1>2 DEF Command
<1>4. QED  BY <1>1, <1>3, NoCommand

LEMMA EmptyTyped == NoDirectory \in Directory
BY OperatorAssumption DEF NoDirectory, Directory

LEMMA KeyedTyped ==
  ASSUME NEW k \in 1 .. MaxSetups
  PROVE  WithKey(NoDirectory, k) \in Directory
<1>1. k \in 0 .. MaxSetups /\ 0 \in 0 .. MaxSetups  BY OperatorAssumption
<1>2. QED  BY <1>1 DEF WithKey, NoDirectory, Directory

\* Removing a directory, whatever becomes of the command.
LEMMA RemoveKeeps ==
  ASSUME IInv, NEW c \in Callsign, RemoveDirectory(c)
  PROVE  /\ disk' \in [Callsign -> Directory] /\ disk'[c] = NoDirectory
         /\ KeyOpensDatabase'
<1>1. disk \in [Callsign -> Directory]  BY DEF IInv, TypeOK
<1>2. disk' = [disk EXCEPT ![c] = NoDirectory]  BY DEF RemoveDirectory
<1>3. NoDirectory.db = 0  BY DEF NoDirectory
<1>4. QED  BY <1>1, <1>2, <1>3, EmptyTyped DEF IInv, KeyOpensDatabase

\* What is agreed to is a key.
LEMMA AgreeTyped ==
  ASSUME IInv, NEW c \in Callsign, Agree(c)
  PROVE  agreed' \subseteq Key
<1>1. disk[c].db \in 0 .. MaxSetups  BY DEF IInv, TypeOK, Directory
<1>2. {disk[c].db} \ {0} \subseteq Key  BY <1>1, OperatorAssumption DEF Key
<1>3. QED  BY <1>2 DEF Agree, IInv, TypeOK

\* A command at a stage about profiles.
LEMMA StageCallsign ==
  ASSUME IInv, NEW s \in ProfileStage, At(s)
  PROVE  /\ command \in Command /\ command.stage \in ProfileStage /\ command.on \in Callsign
         /\ command # None
BY DEF IInv, TypeOK, CommandShape, At

LEMMA StationSetupStep ==
  ASSUME IInv, NEW c \in Callsign, StationSetup(c)
  PROVE  IInv'
<1>1. command = None /\ UNCHANGED <<active, setups, agreed, daemons>>  BY DEF StationSetup
<1>2. CASE disk[c].db # 0
  <2>1. Go("overwrite?", c) /\ disk' = disk  BY <1>2 DEF StationSetup
  <2>2. command' \in Command /\ command'.stage = "overwrite?" /\ command'.on = c
    BY <2>1, GoTyped DEF ProfileStage
  <2>3. TypeOK' /\ CommandShape' /\ DaemonReachable'
    BY <1>1, <2>1, <2>2, ProfileFrame DEF ProfileStage, IInv, TypeOK
  <2>4. SetupState'  BY <2>2 DEF SetupState, At
  <2>5. KeyOpensDatabase'  BY <2>1 DEF IInv, KeyOpensDatabase
  <2>6. QED  BY <2>3, <2>4, <2>5 DEF IInv
<1>3. CASE disk[c].db = 0
  <2>1. RemoveDirectory(c) /\ Go("url?", c)  BY <1>3 DEF StationSetup
  <2>2. command' \in Command /\ command'.stage = "url?" /\ command'.on = c
    BY <2>1, GoTyped DEF ProfileStage
  <2>3. TypeOK' /\ CommandShape' /\ DaemonReachable'
    BY <1>1, <2>1, <2>2, ProfileFrame, RemoveKeeps DEF ProfileStage, IInv, TypeOK
  <2>4. SetupState'  BY <2>1, <2>2, RemoveKeeps DEF SetupState, At
  <2>5. QED  BY <2>1, <2>3, <2>4, RemoveKeeps DEF IInv
<1>4. QED  BY <1>2, <1>3

\* A command that ends, or an answer of no.
LEMMA ProfileEnds ==
  ASSUME IInv, Done, UNCHANGED <<disk, setups, agreed, daemons>>, active' \in Callsign \cup {None},
         command = None \/ command.stage \in ProfileStage
  PROVE  IInv'
<1>1. TypeOK' /\ CommandShape' /\ DaemonReachable'  BY ProfileFrame DEF Done, IInv, TypeOK
<1>2. SetupState'  BY DEF Done, SetupState, At
<1>3. KeyOpensDatabase'  BY DEF IInv, KeyOpensDatabase
<1>4. QED  BY <1>1, <1>2, <1>3 DEF IInv

LEMMA OverwriteStep ==
  ASSUME IInv, NEW yes \in BOOLEAN, Overwrite(yes)
  PROVE  IInv'
<1>1. At("overwrite?") /\ UNCHANGED <<active, setups, daemons>>  BY DEF Overwrite
<1>2. command \in Command /\ command.stage \in ProfileStage /\ command.on \in Callsign
  BY <1>1, StageCallsign DEF ProfileStage
<1>3. CASE yes
  <2>1. RemoveDirectory(command.on) /\ Agree(command.on) /\ Go("url?", command.on)
    BY <1>3 DEF Overwrite
  <2>2. command' \in Command /\ command'.stage = "url?" /\ command'.on = command.on
    BY <1>2, <2>1, GoTyped DEF ProfileStage
  <2>3. agreed' \subseteq Key  BY <1>2, <2>1, AgreeTyped
  <2>4. disk' \in [Callsign -> Directory] /\ disk'[command.on] = NoDirectory /\ KeyOpensDatabase'
    BY <1>2, <2>1, RemoveKeeps
  <2>5. TypeOK' /\ CommandShape' /\ DaemonReachable'
    BY <1>1, <1>2, <2>2, <2>3, <2>4, ProfileFrame DEF ProfileStage, IInv, TypeOK
  <2>6. SetupState'  BY <2>2, <2>4 DEF SetupState, At
  <2>7. QED  BY <2>4, <2>5, <2>6 DEF IInv
<1>4. CASE ~yes
  <2>1. Done /\ UNCHANGED <<disk, agreed>>  BY <1>4 DEF Overwrite
  <2>2. QED  BY <1>1, <1>2, <2>1, ProfileEnds DEF IInv, TypeOK
<1>5. QED  BY <1>3, <1>4

LEMMA WriteStoreKeyStep ==
  ASSUME IInv, WriteStoreKey
  PROVE  IInv'
<1> DEFINE c == command.on
<1>1. At("url?") /\ UNCHANGED <<active, agreed, daemons>>  BY DEF WriteStoreKey
<1>2. command \in Command /\ command.stage \in ProfileStage /\ c \in Callsign
  BY <1>1, StageCallsign DEF ProfileStage
<1>3. disk[c] = NoDirectory  BY <1>1 DEF IInv, SetupState
<1>4. /\ setups' = setups + 1 /\ setups' \in 1 .. MaxSetups
      /\ disk' = [disk EXCEPT ![c] = WithKey(@, setups + 1)]
      /\ Go("key", c)
  BY <1>2, OperatorAssumption DEF WriteStoreKey, IInv, TypeOK
<1>5. disk'[c] = WithKey(NoDirectory, setups + 1)
  BY <1>2, <1>3, <1>4 DEF IInv, TypeOK
<1>6. disk'[c] \in Directory  BY <1>4, <1>5, KeyedTyped
<1>7. disk' \in [Callsign -> Directory]  BY <1>2, <1>4, <1>6 DEF IInv, TypeOK
<1>8. command' \in Command /\ command'.stage = "key" /\ command'.on = c
  BY <1>2, <1>4, GoTyped DEF ProfileStage
<1>9. TypeOK' /\ CommandShape' /\ DaemonReachable'
  BY <1>1, <1>2, <1>4, <1>7, <1>8, ProfileFrame DEF ProfileStage, IInv, TypeOK
<1>10. disk'[c].db = 0 /\ disk'[c].card = 0 /\ disk'[c].key = setups'
  BY <1>4, <1>5 DEF NoDirectory, WithKey
<1>11. SetupState'  BY <1>4, <1>8, <1>10 DEF SetupState, At
<1>12. KeyOpensDatabase'
  BY <1>2, <1>4, <1>10 DEF IInv, TypeOK, KeyOpensDatabase
<1>13. QED  BY <1>9, <1>11, <1>12 DEF IInv

\* A step that changes the directory of the command's profile, keeps its key and
\* goes on to a stage at which the database is there.
LEMMA SetupGoesOn ==
  ASSUME IInv, NEW c \in Callsign, NEW d \in Directory, NEW s \in {"db", "config", "card"},
         command.stage \in ProfileStage, disk' = [disk EXCEPT ![c] = d], Go(s, c),
         d.db # 0, d.key = d.db, d.card \in {0, d.db},
         UNCHANGED <<active, setups, agreed, daemons>>
  PROVE  IInv'
<1>1. command' \in Command /\ command'.stage = s /\ command'.on = c
  BY GoTyped DEF ProfileStage
<1>2. disk' \in [Callsign -> Directory] /\ disk'[c] = d  BY DEF IInv, TypeOK
<1>3. TypeOK' /\ CommandShape' /\ DaemonReachable'
  BY <1>1, <1>2, ProfileFrame DEF ProfileStage, IInv, TypeOK
<1>4. SetupState'  BY <1>1, <1>2 DEF SetupState, At
<1>5. KeyOpensDatabase'  BY DEF IInv, TypeOK, KeyOpensDatabase
<1>6. QED  BY <1>3, <1>4, <1>5 DEF IInv

LEMMA CreateDatabaseStep ==
  ASSUME IInv, CreateDatabase
  PROVE  IInv'
<1> DEFINE c == command.on
           d == [disk[c] EXCEPT !.db = setups]
<1>1. At("key") /\ UNCHANGED <<active, setups, agreed, daemons>>  BY DEF CreateDatabase
<1>2. command \in Command /\ command.stage \in ProfileStage /\ c \in Callsign
  BY <1>1, StageCallsign DEF ProfileStage
<1>3. disk[c].key = setups /\ setups # 0 /\ disk[c].card = 0  BY <1>1 DEF IInv, SetupState
<1>4. CASE MayInitialize(disk[c])
  <2>1. disk' = [disk EXCEPT ![c] = d] /\ Go("db", c)  BY <1>4 DEF CreateDatabase
  <2>2. disk[c] \in Directory /\ setups \in 0 .. MaxSetups  BY <1>2 DEF IInv, TypeOK
  <2>3. d \in Directory /\ d.db = setups /\ d.key = setups /\ d.card = 0
    BY <1>3, <2>2 DEF Directory
  <2>4. QED  BY <1>1, <1>2, <1>3, <2>1, <2>3, SetupGoesOn
<1>5. CASE ~MayInitialize(disk[c])
  <2>1. Done /\ disk' = disk  BY <1>5 DEF CreateDatabase
  <2>2. QED  BY <1>1, <1>2, <2>1, ProfileEnds DEF IInv, TypeOK
<1>6. QED  BY <1>4, <1>5

LEMMA LinkConfigStep ==
  ASSUME IInv, LinkConfig
  PROVE  IInv'
<1> DEFINE c == command.on
           d == [disk[c] EXCEPT !.config = TRUE]
<1>1. /\ At("db") /\ UNCHANGED <<active, setups, agreed, daemons>>
      /\ disk' = [disk EXCEPT ![c] = d] /\ Go("config", c)
  BY DEF LinkConfig
<1>2. command \in Command /\ command.stage \in ProfileStage /\ c \in Callsign
  BY <1>1, StageCallsign DEF ProfileStage
<1>3. disk[c] \in Directory /\ disk[c].db # 0 /\ disk[c].key = disk[c].db
      /\ disk[c].card \in {0, disk[c].db}
  BY <1>1, <1>2 DEF IInv, TypeOK, SetupState, KeyOpensDatabase
<1>4. d \in Directory /\ d.db = disk[c].db /\ d.key = disk[c].key /\ d.card = disk[c].card
  BY <1>3 DEF Directory
<1>5. QED  BY <1>1, <1>2, <1>3, <1>4, SetupGoesOn

LEMMA WriteCardStep ==
  ASSUME IInv, WriteCard
  PROVE  IInv'
<1> DEFINE c == command.on
           d == [disk[c] EXCEPT !.card = disk[c].db]
<1>1. /\ At("config") /\ UNCHANGED <<active, setups, agreed, daemons>>
      /\ disk' = [disk EXCEPT ![c] = d] /\ Go("card", c)
  BY DEF WriteCard
<1>2. command \in Command /\ command.stage \in ProfileStage /\ c \in Callsign
  BY <1>1, StageCallsign DEF ProfileStage
<1>3. disk[c] \in Directory /\ disk[c].db # 0 /\ disk[c].key = disk[c].db
  BY <1>1, <1>2 DEF IInv, TypeOK, SetupState, KeyOpensDatabase
<1>4. d \in Directory /\ d.db = disk[c].db /\ d.key = disk[c].key /\ d.card = disk[c].db
  BY <1>3 DEF Directory
<1>5. QED  BY <1>1, <1>2, <1>3, <1>4, SetupGoesOn

LEMMA SetupEndsStep ==
  ASSUME IInv, SetupEnds
  PROVE  IInv'
<1>1. At("card") /\ active' = command.on /\ Done /\ UNCHANGED <<disk, setups, agreed, daemons>>
  BY DEF SetupEnds
<1>2. command.stage \in ProfileStage /\ command.on \in Callsign
  BY <1>1, StageCallsign DEF ProfileStage
<1>3. QED  BY <1>1, <1>2, ProfileEnds

LEMMA ProfileSwitchStep ==
  ASSUME IInv, NEW c \in Callsign, ProfileSwitch(c)
  PROVE  IInv'
<1>1. command = None /\ command' = None /\ active' = c /\ UNCHANGED <<disk, setups, agreed, daemons>>
  BY DEF ProfileSwitch
<1>2. QED  BY <1>1, ProfileEnds DEF Done

LEMMA ProfileDeleteStep ==
  ASSUME IInv, NEW c \in Callsign, ProfileDelete(c)
  PROVE  IInv'
<1>1. command = None /\ Go("delete?", c) /\ UNCHANGED <<profiles, daemons>>  BY DEF ProfileDelete
<1>2. command' \in Command /\ command'.stage = "delete?" /\ command'.on = c
  BY <1>1, GoTyped DEF ProfileStage
<1>3. TypeOK' /\ CommandShape' /\ DaemonReachable'
  BY <1>1, <1>2, ProfileFrame DEF ProfileStage, IInv, TypeOK, profiles
<1>4. SetupState'  BY <1>2 DEF SetupState, At
<1>5. KeyOpensDatabase'  BY <1>1 DEF IInv, KeyOpensDatabase, profiles
<1>6. QED  BY <1>3, <1>4, <1>5 DEF IInv

LEMMA ConfirmDeleteStep ==
  ASSUME IInv, NEW yes \in BOOLEAN, ConfirmDelete(yes)
  PROVE  IInv'
<1>1. At("delete?") /\ UNCHANGED <<active, setups, daemons>>  BY DEF ConfirmDelete
<1>2. command \in Command /\ command.stage \in ProfileStage /\ command.on \in Callsign
  BY <1>1, StageCallsign DEF ProfileStage
<1>3. CASE yes
  <2>1. RemoveDirectory(command.on) /\ Agree(command.on) /\ Go("deleted", command.on)
    BY <1>3 DEF ConfirmDelete
  <2>2. command' \in Command /\ command'.stage = "deleted" /\ command'.on = command.on
    BY <1>2, <2>1, GoTyped DEF ProfileStage
  <2>3. agreed' \subseteq Key  BY <1>2, <2>1, AgreeTyped
  <2>4. disk' \in [Callsign -> Directory] /\ KeyOpensDatabase'  BY <1>2, <2>1, RemoveKeeps
  <2>5. TypeOK' /\ CommandShape' /\ DaemonReachable'
    BY <1>1, <1>2, <2>2, <2>3, <2>4, ProfileFrame DEF ProfileStage, IInv, TypeOK
  <2>6. SetupState'  BY <2>2 DEF SetupState, At
  <2>7. QED  BY <2>4, <2>5, <2>6 DEF IInv
<1>4. CASE ~yes
  <2>1. Done /\ UNCHANGED <<disk, agreed>>  BY <1>4 DEF ConfirmDelete
  <2>2. QED  BY <1>1, <1>2, <2>1, ProfileEnds DEF IInv, TypeOK
<1>5. QED  BY <1>3, <1>4

LEMMA ClearActiveStep ==
  ASSUME IInv, ClearActive
  PROVE  IInv'
<1>1. /\ At("deleted") /\ Done /\ UNCHANGED <<disk, setups, agreed, daemons>>
      /\ active' \in {active, None}
  BY DEF ClearActive
<1>2. command.stage \in ProfileStage  BY <1>1, StageCallsign DEF ProfileStage
<1>3. QED  BY <1>1, <1>2, ProfileEnds DEF IInv, TypeOK

LEMMA ContactAddStep ==
  ASSUME IInv, ContactAdd
  PROVE  IInv'
<1>1. PICK c \in Targets : disk' = [disk EXCEPT ![c] = [disk[c] EXCEPT !.contacts = TRUE]]
  BY DEF ContactAdd
<1>2. command = None /\ command' = None /\ UNCHANGED <<active, setups, agreed, daemons>>
  BY DEF ContactAdd
<1>3. c \in Callsign
  BY DEF Targets, ListProfiles, IInv, TypeOK
<1> DEFINE d == [disk[c] EXCEPT !.contacts = TRUE]
<1>4. disk[c] \in Directory  BY <1>3 DEF IInv, TypeOK
<1>5. d \in Directory /\ d.db = disk[c].db /\ d.key = disk[c].key /\ d.card = disk[c].card
  BY <1>4 DEF Directory
<1>6. disk' \in [Callsign -> Directory]  BY <1>1, <1>5 DEF IInv, TypeOK
<1>7. TypeOK' /\ CommandShape' /\ DaemonReachable'
  BY <1>2, <1>6, ProfileFrame DEF IInv, TypeOK
<1>8. SetupState'  BY <1>2 DEF SetupState, At
<1>9. KeyOpensDatabase'  BY <1>1, <1>3, <1>5 DEF IInv, TypeOK, KeyOpensDatabase
<1>10. QED  BY <1>7, <1>8, <1>9 DEF IInv

-----------------------------------------------------------------------------
(* Daemons *)

\* A step that touches no profile and leaves no setup at work.
LEMMA DaemonFrame ==
  ASSUME IInv, UNCHANGED profiles,
         command' # None => command'.stage \notin ProfileStage
  PROVE  SetupState' /\ KeyOpensDatabase'
<1>1. SetupState'  BY DEF SetupState, At, ProfileStage
<1>2. KeyOpensDatabase'  BY DEF IInv, KeyOpensDatabase, profiles
<1>3. QED  BY <1>1, <1>2

LEMMA StatusKeeps ==
  ASSUME IInv, NEW n \in Name, command = None, GetDaemonStatus(n), UNCHANGED <<proc, asked, orphans>>
  PROVE  /\ pidfile' \in [Name -> Pid \cup {None}]
         /\ ~Alive(pidfile[n]) => pidfile'[n] = None
         /\ \A p \in Pid : proc[p] \in Name /\ p \notin asked \cup orphans => pidfile'[proc[p]] = p
<1>1. pidfile \in [Name -> Pid \cup {None}]  BY DEF IInv, TypeOK
<1>2. pidfile' = IF Alive(pidfile[n]) THEN pidfile ELSE [pidfile EXCEPT ![n] = None]
  BY DEF GetDaemonStatus
<1>3. ASSUME NEW p \in Pid, proc[p] \in Name, p \notin asked \cup orphans
      PROVE  pidfile'[proc[p]] = p
  <2>1. pidfile[proc[p]] = p  BY <1>3 DEF IInv, DaemonReachable, At
  <2>2. proc[p] # "none" /\ p # None  BY <1>3, OperatorAssumption DEF Name
  <2>3. Alive(p)  BY <2>2 DEF Alive
  <2>4. QED  BY <1>1, <1>2, <1>3, <2>1, <2>3
<1>4. QED  BY <1>1, <1>2, <1>3

LEMMA StatusCommandStep ==
  ASSUME IInv, NEW n \in Name, StatusCommand(n)
  PROVE  IInv'
<1>1. command = None /\ GetDaemonStatus(n)
      /\ UNCHANGED <<profiles, command, mode, container, proc, asked, orphans>>
  BY DEF StatusCommand
<1>2. pidfile' \in [Name -> Pid \cup {None}]  BY <1>1, StatusKeeps
<1>3. TypeOK'  BY <1>1, <1>2 DEF IInv, TypeOK, profiles
<1>4. CommandShape'  BY <1>1 DEF CommandShape
<1>5. SetupState' /\ KeyOpensDatabase'  BY <1>1, DaemonFrame
<1>6. DaemonReachable'  BY <1>1, StatusKeeps DEF DaemonReachable
<1>7. QED  BY <1>3, <1>4, <1>5, <1>6 DEF IInv

\* `start', of the station or of a native repeater.
LEMMA StartStep ==
  ASSUME IInv, NEW n \in Name, command = None, SpawnUnlessRunning(n),
         UNCHANGED <<profiles, mode, container, proc, asked, orphans>>
  PROVE  IInv'
<1>1. GetDaemonStatus(n)  BY DEF SpawnUnlessRunning
<1>2. pidfile' \in [Name -> Pid \cup {None}]  BY <1>1, StatusKeeps
<1>3. CASE Alive(pidfile[n])
  <2>1. command' = None  BY <1>3 DEF SpawnUnlessRunning
  <2>2. TypeOK'  BY <1>2, <2>1 DEF IInv, TypeOK, profiles
  <2>3. CommandShape'  BY <2>1 DEF CommandShape
  <2>4. SetupState' /\ KeyOpensDatabase'  BY <2>1, DaemonFrame
  <2>5. DaemonReachable'  BY <1>1, StatusKeeps DEF DaemonReachable
  <2>6. QED  BY <2>2, <2>3, <2>4, <2>5 DEF IInv
<1>4. CASE ~Alive(pidfile[n])
  <2>1. command' = [stage |-> "spawn", on |-> n, pid |-> None]  BY <1>4 DEF SpawnUnlessRunning, Go
  <2>2. command' \in Command  BY <2>1 DEF Command, Stage
  <2>3. TypeOK'  BY <1>2, <2>2 DEF IInv, TypeOK, profiles
  <2>4. CommandShape'  BY <1>1, <1>4, <2>1, StatusKeeps DEF CommandShape, ProfileStage
  <2>5. SetupState' /\ KeyOpensDatabase'  BY <2>1, DaemonFrame DEF ProfileStage
  <2>6. DaemonReachable'  BY <1>1, StatusKeeps DEF DaemonReachable
  <2>7. QED  BY <2>3, <2>4, <2>5, <2>6 DEF IInv
<1>5. QED  BY <1>3, <1>4

LEMMA SpawnDaemonStep ==
  ASSUME IInv, NEW p \in Pid, SpawnDaemon(p)
  PROVE  IInv'
<1>1. /\ At("spawn") /\ proc[p] = "none" /\ proc' = [proc EXCEPT ![p] = command.on]
      /\ command' = [command EXCEPT !.stage = "pid", !.pid = p]
      /\ UNCHANGED <<profiles, mode, container, pidfile, asked, orphans>>
  BY DEF SpawnDaemon
<1>2. command \in Command /\ command.stage = "spawn" /\ command # None
  BY <1>1 DEF At, IInv, TypeOK
<1>3. command.on \in Name /\ pidfile[command.on] = None
  BY <1>2 DEF IInv, CommandShape, ProfileStage
<1>4. /\ command' \in Command /\ command'.stage = "pid" /\ command'.pid = p
      /\ command'.on = command.on
  BY <1>1, <1>2 DEF Command, Stage
<1>5. command' # None  BY <1>4, NoCommand
<1>6. TypeOK'  BY <1>1, <1>3, <1>4 DEF IInv, TypeOK, profiles
<1>7. CommandShape'  BY <1>1, <1>3, <1>4 DEF CommandShape, ProfileStage, IInv, TypeOK
<1>8. SetupState' /\ KeyOpensDatabase'  BY <1>1, <1>4, DaemonFrame DEF ProfileStage
<1>9. DaemonReachable'
  BY <1>1, <1>2, <1>4, <1>5 DEF DaemonReachable, At, IInv, TypeOK
<1>10. QED  BY <1>6, <1>7, <1>8, <1>9 DEF IInv

LEMMA WritePidStep ==
  ASSUME IInv, WritePid
  PROVE  IInv'
<1>1. /\ At("pid") /\ pidfile' = [pidfile EXCEPT ![command.on] = command.pid] /\ command' = None
      /\ UNCHANGED <<profiles, mode, container, proc, asked, orphans>>
  BY DEF WritePid, Done
<1>2. /\ command.on \in Name /\ pidfile[command.on] = None /\ command.pid \in Pid
      /\ proc[command.pid] \in {command.on, "none", "foreign"}
  BY <1>1 DEF IInv, CommandShape, ProfileStage, At
<1>3. TypeOK'  BY <1>1, <1>2 DEF IInv, TypeOK, profiles
<1>4. CommandShape'  BY <1>1 DEF CommandShape
<1>5. SetupState' /\ KeyOpensDatabase'  BY <1>1, DaemonFrame
<1>6. ASSUME NEW p \in Pid, proc[p] \in Name, p \notin asked \cup orphans
      PROVE  pidfile'[proc[p]] = p
  <2>1. CASE pidfile[proc[p]] = p
    <3>1. proc[p] # command.on  BY <1>2, <2>1, OperatorAssumption
    <3>2. QED  BY <1>1, <1>6, <2>1, <3>1 DEF IInv, TypeOK
  <2>2. CASE command.pid = p
    <3>1. proc[p] = command.on  BY <1>2, <1>6, <2>2 DEF Name
    <3>2. QED  BY <1>1, <1>2, <2>2, <3>1 DEF IInv, TypeOK
  <2>3. QED  BY <1>6, <2>1, <2>2 DEF IInv, DaemonReachable
<1>7. DaemonReachable'  BY <1>1, <1>6 DEF DaemonReachable
<1>8. QED  BY <1>3, <1>4, <1>5, <1>7 DEF IInv

\* `stop', of the station or of the repeater.
LEMMA StopStep ==
  ASSUME IInv, NEW n \in Name, command = None, StopDaemon(n),
         UNCHANGED <<profiles, command, mode, proc, orphans>>, container' \in BOOLEAN
  PROVE  IInv'
<1>1. /\ asked' = IF Alive(pidfile[n]) THEN asked \cup {pidfile[n]} ELSE asked
      /\ pidfile' = [pidfile EXCEPT ![n] = None]
  BY DEF StopDaemon
<1>2. pidfile \in [Name -> Pid \cup {None}]  BY DEF IInv, TypeOK
<1>3. TypeOK'
  <2>1. asked' \subseteq Pid  BY <1>1, <1>2 DEF Alive, IInv, TypeOK
  <2>2. pidfile' \in [Name -> Pid \cup {None}]  BY <1>1, <1>2
  <2>3. QED  BY <2>1, <2>2 DEF IInv, TypeOK, profiles
<1>4. CommandShape'  BY DEF CommandShape
<1>5. SetupState' /\ KeyOpensDatabase'  BY DaemonFrame
<1>6. ASSUME NEW p \in Pid, proc[p] \in Name, p \notin asked' \cup orphans
      PROVE  pidfile'[proc[p]] = p
  <2>1. p \notin asked  BY <1>1, <1>6
  <2>2. pidfile[proc[p]] = p  BY <1>6, <2>1 DEF IInv, DaemonReachable, At
  <2>3. p # None /\ proc[p] # "none"  BY <1>6, OperatorAssumption DEF Name
  <2>4. proc[p] # n  BY <1>1, <1>6, <2>2, <2>3 DEF Alive
  <2>5. QED  BY <1>1, <1>2, <1>6, <2>2, <2>4
<1>7. DaemonReachable'  BY <1>6 DEF DaemonReachable
<1>8. QED  BY <1>3, <1>4, <1>5, <1>7 DEF IInv

\* What changes only the repeater's mode or its container.
LEMMA RepeaterFrame ==
  ASSUME IInv, UNCHANGED <<profiles, command, pidfile, proc, asked, orphans>>, command = None,
         mode' \in {"unset", "docker", "native"}, container' \in BOOLEAN
  PROVE  IInv'
<1>1. TypeOK'  BY DEF IInv, TypeOK, profiles
<1>2. CommandShape'  BY DEF CommandShape
<1>3. SetupState' /\ KeyOpensDatabase'  BY DaemonFrame
<1>4. DaemonReachable'  BY DEF IInv, DaemonReachable, At
<1>5. QED  BY <1>1, <1>2, <1>3, <1>4 DEF IInv

LEMMA AbandonStep ==
  ASSUME IInv, Abandon
  PROVE  IInv'
<1>1. /\ command # None /\ command' = None
      /\ orphans' = orphans \cup {p \in Pid : At("pid") /\ p = command.pid /\ proc[p] = command.on}
      /\ UNCHANGED <<profiles, mode, container, pidfile, proc, asked>>
  BY DEF Abandon, Done
<1>2. TypeOK'  BY <1>1 DEF IInv, TypeOK, profiles
<1>3. CommandShape'  BY <1>1 DEF CommandShape
<1>4. SetupState' /\ KeyOpensDatabase'  BY <1>1, DaemonFrame
<1>5. ASSUME NEW p \in Pid, proc[p] \in Name, p \notin asked \cup orphans'
      PROVE  pidfile[proc[p]] = p
  <2>1. p \notin orphans /\ ~(At("pid") /\ p = command.pid /\ proc[p] = command.on)
    BY <1>1, <1>5
  <2>2. CASE At("pid") /\ command.pid = p
    <3>1. proc[p] \in {command.on, "none", "foreign"}  BY <1>1, <2>2 DEF IInv, CommandShape, At
    <3>2. QED  BY <1>5, <2>1, <2>2, <3>1 DEF Name
  <2>3. QED  BY <1>5, <2>1, <2>2 DEF IInv, DaemonReachable
<1>6. DaemonReachable'  BY <1>1, <1>5 DEF DaemonReachable
<1>7. QED  BY <1>2, <1>3, <1>4, <1>6 DEF IInv

\* A process that ends, or one of somebody else that takes a free number.
LEMMA ProcessStep ==
  ASSUME IInv, NEW p \in Pid, NEW what \in {"none", "foreign"}, proc' = [proc EXCEPT ![p] = what],
         asked' \subseteq asked, asked \ {p} \subseteq asked',
         orphans' \subseteq orphans, orphans \ {p} \subseteq orphans',
         UNCHANGED <<profiles, command, mode, container, pidfile>>
  PROVE  IInv'
<1>1. TypeOK'  BY DEF IInv, TypeOK, profiles
<1>2. CommandShape'  BY DEF IInv, TypeOK, CommandShape
<1>3. SetupState' /\ KeyOpensDatabase'
  BY DEF IInv, SetupState, KeyOpensDatabase, At, profiles
<1>4. ASSUME NEW q \in Pid, proc'[q] \in Name, q \notin asked' \cup orphans'
      PROVE  pidfile[proc[q]] = q \/ (At("pid") /\ command.pid = q)
  <2>1. q # p  BY <1>4 DEF Name, IInv, TypeOK
  <2>2. proc[q] \in Name /\ q \notin asked \cup orphans  BY <1>4, <2>1 DEF IInv, TypeOK
  <2>3. QED  BY <2>2 DEF IInv, DaemonReachable
<1>5. \A q \in Pid : proc'[q] \in Name => proc'[q] = proc[q]  BY DEF Name, IInv, TypeOK
<1>6. DaemonReachable'  BY <1>4, <1>5 DEF DaemonReachable, At
<1>7. QED  BY <1>1, <1>2, <1>3, <1>6 DEF IInv

-----------------------------------------------------------------------------
(* The theorems *)

LEMMA NextIInv == IInv /\ [Next]_vars => IInv'
<1> SUFFICES ASSUME IInv, [Next]_vars PROVE IInv'  OBVIOUS
<1>1. CASE \E c \in Callsign : StationSetup(c) \/ ProfileSwitch(c) \/ ProfileDelete(c)
  BY <1>1, StationSetupStep, ProfileSwitchStep, ProfileDeleteStep
<1>2. CASE \E yes \in BOOLEAN : Overwrite(yes) \/ ConfirmDelete(yes)
  BY <1>2, OverwriteStep, ConfirmDeleteStep
<1>3. CASE WriteStoreKey \/ CreateDatabase \/ LinkConfig \/ WriteCard \/ SetupEnds
  BY <1>3, WriteStoreKeyStep, CreateDatabaseStep, LinkConfigStep, WriteCardStep, SetupEndsStep
<1>4. CASE ClearActive \/ ContactAdd
  BY <1>4, ClearActiveStep, ContactAddStep
<1>5. CASE StationStart
  BY <1>5, StartStep DEF StationStart, Name
<1>6. CASE StationStop
  <2>1. container' = container  BY <1>6 DEF StationStop
  <2>2. QED  BY <1>6, <2>1, StopStep DEF StationStop, Name, IInv, TypeOK
<1>7. CASE WritePid \/ Abandon
  BY <1>7, WritePidStep, AbandonStep
<1>8. CASE \E n \in Name : StatusCommand(n)
  BY <1>8, StatusCommandStep
<1>9. CASE \E m \in {"docker", "native"} : RepeaterSetup(m)
  BY <1>9, RepeaterFrame DEF RepeaterSetup, IInv, TypeOK
<1>10. CASE RepeaterStartDocker
  BY <1>10, RepeaterFrame DEF RepeaterStartDocker, IInv, TypeOK
<1>11. CASE RepeaterStartNative
  BY <1>11, StartStep DEF RepeaterStartNative, Name
<1>12. CASE RepeaterStop
  <2>1. container' \in BOOLEAN  BY <1>12 DEF RepeaterStop, IInv, TypeOK
  <2>2. QED  BY <1>12, <2>1, StopStep DEF RepeaterStop, Name
<1>13. CASE \E p \in Pid : SpawnDaemon(p)
  BY <1>13, SpawnDaemonStep
<1>14. CASE \E p \in Pid : ProcessEnds(p)
  BY <1>14, ProcessStep DEF ProcessEnds
<1>15. CASE \E p \in Pid : ForeignProcess(p)
  BY <1>15, ProcessStep DEF ForeignProcess
<1>16. CASE UNCHANGED vars
  <2>1. UNCHANGED <<disk, active, setups, agreed, command, mode, container, pidfile, proc, asked, orphans>>
    BY <1>16 DEF vars, profiles, daemons
  <2>2. QED
    BY <2>1 DEF IInv, TypeOK, CommandShape, SetupState, KeyOpensDatabase, DaemonReachable, At
<1>17. QED
  BY <1>1, <1>2, <1>3, <1>4, <1>5, <1>6, <1>7, <1>8, <1>9, <1>10, <1>11, <1>12, <1>13, <1>14,
     <1>15, <1>16 DEF Next

\* What every reachable state of the operator's terminal satisfies.
THEOREM InductiveInvariant == Spec => []IInv
BY InitIInv, NextIInv, PTL DEF Spec

\* The variables keep their types.
THEOREM TypeCorrect == Spec => []TypeOK
<1>1. IInv => TypeOK  BY DEF IInv
<1>2. QED  BY <1>1, InductiveInvariant, PTL

\* Wherever a command is abandoned, a database lies beside the key that opens it.
THEOREM KeysOpenDatabases == Spec => []KeyOpensDatabase
<1>1. IInv => KeyOpensDatabase  BY DEF IInv
<1>2. QED  BY <1>1, InductiveInvariant, PTL

\* A daemon that nobody asked to stop is the one its pid file names, but for a
\* start that ended between the spawn and the pid file.
THEOREM DaemonsReachable == Spec => []DaemonReachable
<1>1. IInv => DaemonReachable  BY DEF IInv
<1>2. QED  BY <1>1, InductiveInvariant, PTL

\* A directory is removed without a question only when there is no database in it,
\* and a setup creates one only where there is none.
LEMMA LossStep ==
  ASSUME IInv, [Next]_vars, NEW c \in Callsign, disk[c].db # 0, disk'[c].db # disk[c].db
  PROVE  disk[c].db \in agreed'
<1>0. disk \in [Callsign -> Directory]  BY DEF IInv, TypeOK
<1>1. ASSUME NEW e \in Callsign, StationSetup(e) PROVE FALSE
  <2>1. disk[e].db = 0 /\ RemoveDirectory(e)  BY <1>1 DEF StationSetup
  <2>2. QED  BY <1>0, <1>1, <2>1 DEF RemoveDirectory
<1>2. ASSUME NEW yes \in BOOLEAN, Overwrite(yes) \/ ConfirmDelete(yes)
      PROVE  disk[c].db \in agreed'
  <2>1. RemoveDirectory(command.on) /\ Agree(command.on)
    BY <1>2 DEF Overwrite, ConfirmDelete
  <2>2. c = command.on  BY <1>0, <2>1 DEF RemoveDirectory
  <2>3. QED  BY <2>1, <2>2 DEF Agree
<1>3. ASSUME WriteStoreKey PROVE FALSE
  BY <1>0, <1>3 DEF WriteStoreKey, WithKey
<1>4. ASSUME CreateDatabase PROVE FALSE
  <2>1. MayInitialize(disk[command.on]) /\ disk' = [disk EXCEPT ![command.on].db = setups]
    BY <1>4 DEF CreateDatabase
  <2>2. disk[command.on].db = 0  BY <2>1 DEF MayInitialize
  <2>3. QED  BY <1>0, <2>1, <2>2
<1>5. ASSUME LinkConfig \/ WriteCard PROVE FALSE
  BY <1>0, <1>5 DEF LinkConfig, WriteCard, Directory
<1>6. ASSUME ContactAdd PROVE FALSE
  BY <1>0, <1>6 DEF ContactAdd, Directory
<1>7. ASSUME UNCHANGED disk PROVE FALSE
  BY <1>7
<1>8. CASE Next
  <2>1. CASE UNCHANGED disk  BY <1>7, <2>1
  <2>2. CASE \E e \in Callsign : StationSetup(e) \/ ProfileSwitch(e) \/ ProfileDelete(e)
    BY <1>1, <1>7, <2>2 DEF ProfileSwitch, ProfileDelete, profiles
  <2>3. CASE SetupEnds \/ ClearActive \/ StationStart \/ StationStop \/ WritePid \/ Abandon
             \/ RepeaterStartDocker \/ RepeaterStartNative \/ RepeaterStop
    BY <1>7, <2>3 DEF SetupEnds, ClearActive, StationStart, StationStop, WritePid, Abandon,
       RepeaterStartDocker, RepeaterStartNative, RepeaterStop, profiles
  <2>4. CASE \/ \E n \in Name : StatusCommand(n)
             \/ \E m \in {"docker", "native"} : RepeaterSetup(m)
             \/ \E p \in Pid : SpawnDaemon(p) \/ ProcessEnds(p) \/ ForeignProcess(p)
    BY <1>7, <2>4 DEF StatusCommand, RepeaterSetup, SpawnDaemon, ProcessEnds, ForeignProcess, profiles
  <2>5. QED  BY <1>2, <1>3, <1>4, <1>5, <1>6, <1>8, <2>2, <2>3, <2>4 DEF Next
<1>9. CASE UNCHANGED vars
  BY <1>7, <1>9 DEF vars, profiles
<1>10. QED  BY <1>8, <1>9

\* A database disappears only after the operator agreed to losing that very one.
THEOREM LossNeedsAgreement == Spec => LostOnlyByAgreement
<1>1. IInv /\ [Next]_vars =>
        [\A c \in Callsign :
            disk[c].db # 0 /\ disk'[c].db # disk[c].db => disk[c].db \in agreed']_vars
  BY LossStep
<1>2. QED  BY <1>1, InductiveInvariant, PTL DEF Spec, LostOnlyByAgreement
=============================================================================
