------------------------------ MODULE Operator ------------------------------
(***************************************************************************)
(* The operator's commands (apps/cli/src/operator): `echolet station',     *)
(* `profile', `contact' and `repeater', run one after another at one       *)
(* terminal.  A command reads and writes the profile directories, the      *)
(* global configuration and the pid files under ~/.echolet, asks at        *)
(* prompts, and may be abandoned at any prompt or between any two writes.  *)
(* Beside it the daemons it started die when they like, and the system     *)
(* gives their process numbers to other processes.                         *)
(***************************************************************************)
EXTENDS Naturals, FiniteSets

CONSTANTS
    Callsign,    \* names of profiles
    Pid,         \* process numbers
    MaxSetups,   \* bound: profiles that are set up
    None

ASSUME OperatorAssumption == MaxSetups \in Nat /\ None \notin Callsign \cup Pid

VARIABLES
    disk,        \* the profile directories
    active,      \* activeProfile of the global configuration, or None
    setups,      \* setups so far: the n-th generates key n
    agreed,      \* keys whose database the operator agreed to lose
    command,     \* the command at the terminal, or None
    mode,        \* ECHOLET_MODE of the repeater's config.env
    container,   \* the repeater's container runs
    pidfile,     \* the pid files
    proc,        \* the system's processes
    asked,       \* processes that were sent a SIGTERM
    orphans      \* daemons whose `start' ended before it wrote their pid file

profiles == <<disk, active, setups, agreed>>
daemons == <<mode, container, pidfile, proc, asked, orphans>>
vars == <<profiles, command, daemons>>

Name == {"station", "repeater"}
Key == 1 .. MaxSetups

\* A directory with the store key and, by the key they were made under, the
\* database and the card in it; 0 for a file that is not there.
Directory == [exists: BOOLEAN, key: 0 .. MaxSetups, db: 0 .. MaxSetups, card: 0 .. MaxSetups,
              config: BOOLEAN, contacts: BOOLEAN]
NoDirectory == [exists |-> FALSE, key |-> 0, db |-> 0, card |-> 0, config |-> FALSE, contacts |-> FALSE]

Stage == {"overwrite?", "url?", "key", "db", "config", "card", "delete?", "deleted", "spawn", "pid"}
Command == [stage: Stage, on: Callsign \cup Name, pid: Pid \cup {None}]

ASSUME NoCommand == None \notin Command

TypeOK ==
    /\ disk \in [Callsign -> Directory]
    /\ active \in Callsign \cup {None}
    /\ setups \in 0 .. MaxSetups /\ agreed \subseteq Key
    /\ command \in Command \cup {None}
    /\ mode \in {"unset", "docker", "native"} /\ container \in BOOLEAN
    /\ pidfile \in [Name -> Pid \cup {None}]
    /\ proc \in [Pid -> Name \cup {"none", "foreign"}]
    /\ asked \subseteq Pid /\ orphans \subseteq Pid

Init ==
    /\ disk = [c \in Callsign |-> NoDirectory]
    /\ active = None /\ setups = 0 /\ agreed = {} /\ command = None
    /\ mode = "unset" /\ container = FALSE
    /\ pidfile = [n \in Name |-> None]
    /\ proc = [p \in Pid |-> "none"]
    /\ asked = {} /\ orphans = {}

-----------------------------------------------------------------------------
(* echolet station setup *)

At(stage) == command # None /\ command.stage = stage
Go(stage, on) == command' = [stage |-> stage, on |-> on, pid |-> None]
Done == command' = None

RemoveDirectory(c) == disk' = [disk EXCEPT ![c] = NoDirectory]

\* What the operator loses by a yes.
Agree(c) == agreed' = agreed \cup ({disk[c].db} \ {0})

\* Mutant: a directory without a configuration counts as empty.
SetupIgnoringConfigless(c) ==
    /\ command = None
    /\ IF disk[c].config
       THEN Go("overwrite?", c) /\ UNCHANGED disk
       ELSE RemoveDirectory(c) /\ Go("url?", c)
    /\ UNCHANGED <<active, setups, agreed, daemons>>

\* A directory without a database is removed without a question.  A file in
\* which no transaction has committed counts as no database.
StationSetup(c) ==
    /\ command = None
    /\ IF disk[c].db # 0
       THEN Go("overwrite?", c) /\ UNCHANGED disk
       ELSE RemoveDirectory(c) /\ Go("url?", c)
    /\ UNCHANGED <<active, setups, agreed, daemons>>

\* Mutant: the old files stay where the new ones are written.
OverwriteKeepingFiles(yes) ==
    /\ At("overwrite?")
    /\ IF yes THEN Agree(command.on) /\ Go("url?", command.on) ELSE Done /\ UNCHANGED agreed
    /\ UNCHANGED <<disk, active, setups, daemons>>

\* The old directory goes before the relay's URL is asked for.
Overwrite(yes) ==
    /\ At("overwrite?")
    /\ IF yes
       THEN RemoveDirectory(command.on) /\ Agree(command.on) /\ Go("url?", command.on)
       ELSE Done /\ UNCHANGED <<disk, agreed>>
    /\ UNCHANGED <<active, setups, daemons>>

WithKey(d, k) == [exists |-> TRUE, key |-> k, db |-> d.db, card |-> d.card,
                  config |-> d.config, contacts |-> d.contacts]

WriteStoreKey ==
    /\ At("url?")
    /\ setups < MaxSetups /\ setups' = setups + 1
    /\ disk' = [disk EXCEPT ![command.on] = WithKey(@, setups + 1)]
    /\ Go("key", command.on)
    /\ UNCHANGED <<active, agreed, daemons>>

\* openProfile with initialize: it replaces neither a configuration nor a
\* database that is there.
MayInitialize(d) == ~d.config /\ d.db = 0

\* The database and all that identifies the profile, in one transaction ...
CreateDatabase ==
    LET d == disk[command.on]
    IN  /\ At("key")
        /\ IF MayInitialize(d)
           THEN disk' = [disk EXCEPT ![command.on].db = setups] /\ Go("db", command.on)
           ELSE Done /\ UNCHANGED disk
        /\ UNCHANGED <<active, setups, agreed, daemons>>

\* ... and only then the configuration, linked from a temporary file.
LinkConfig ==
    /\ At("db")
    /\ disk' = [disk EXCEPT ![command.on].config = TRUE]
    /\ Go("config", command.on)
    /\ UNCHANGED <<active, setups, agreed, daemons>>

WriteCard ==
    /\ At("config")
    /\ disk' = [disk EXCEPT ![command.on].card = disk[command.on].db]
    /\ Go("card", command.on)
    /\ UNCHANGED <<active, setups, agreed, daemons>>

\* Publication is tried, its failure only warned of; then the profile is made
\* the active one.
SetupEnds ==
    /\ At("card")
    /\ active' = command.on
    /\ Done
    /\ UNCHANGED <<disk, setups, agreed, daemons>>

-----------------------------------------------------------------------------
(* echolet profile, echolet contact *)

ListProfiles == {c \in Callsign : disk[c].exists}

ProfileSwitch(c) ==
    /\ command = None /\ c \in ListProfiles /\ c # active
    /\ active' = c
    /\ UNCHANGED <<disk, setups, agreed, command, daemons>>

ProfileDelete(c) ==
    /\ command = None /\ c \in ListProfiles
    /\ Go("delete?", c)
    /\ UNCHANGED <<profiles, daemons>>

ConfirmDelete(yes) ==
    /\ At("delete?")
    /\ IF yes
       THEN RemoveDirectory(command.on) /\ Agree(command.on) /\ Go("deleted", command.on)
       ELSE Done /\ UNCHANGED <<disk, agreed>>
    /\ UNCHANGED <<active, setups, daemons>>

ClearActive ==
    /\ At("deleted")
    /\ active' = IF active = command.on THEN None ELSE active
    /\ Done
    /\ UNCHANGED <<disk, setups, agreed, daemons>>

\* The active profile, or some listed one when none is active.
Targets == IF active # None THEN {active} ELSE ListProfiles

\* openProfile without initialize.
Opens(d) == d.config /\ d.db # 0 /\ d.key = d.db

\* The card is imported with a confirmation that always says yes.
ContactAdd ==
    /\ command = None
    /\ \E c \in Targets :
          /\ disk[c].key # 0 /\ Opens(disk[c]) /\ ~disk[c].contacts
          /\ disk' = [disk EXCEPT ![c].contacts = TRUE]
    /\ UNCHANGED <<active, setups, agreed, command, daemons>>

-----------------------------------------------------------------------------
(* Daemons *)

Alive(p) == p # None /\ proc[p] # "none"

\* getDaemonStatus: a pid file that names no process is removed.
GetDaemonStatus(n) == pidfile' = IF Alive(pidfile[n]) THEN pidfile ELSE [pidfile EXCEPT ![n] = None]

StatusCommand(n) ==
    /\ command = None /\ pidfile[n] # None
    /\ GetDaemonStatus(n)
    /\ UNCHANGED <<profiles, command, mode, container, proc, asked, orphans>>

\* Mutant: the daemon is spawned whether or not one runs.
SpawnAnyway(n) == GetDaemonStatus(n) /\ Go("spawn", n)

\* Whatever process has the number of the pid file counts as the daemon.
SpawnUnlessRunning(n) ==
    /\ GetDaemonStatus(n)
    /\ IF Alive(pidfile[n]) THEN UNCHANGED command ELSE Go("spawn", n)

\* The active profile is started, or the one that --profile names.
StationStart ==
    /\ command = None
    /\ \E c \in Callsign : disk[c].key # 0 /\ disk[c].config
    /\ SpawnUnlessRunning("station")
    /\ UNCHANGED <<profiles, mode, container, proc, asked, orphans>>

\* startDaemon: the child is there, and then its number is written down.
SpawnDaemon(p) ==
    /\ At("spawn") /\ proc[p] = "none"
    /\ proc' = [proc EXCEPT ![p] = command.on]
    /\ command' = [command EXCEPT !.stage = "pid", !.pid = p]
    /\ UNCHANGED <<profiles, mode, container, pidfile, asked, orphans>>

WritePid ==
    /\ At("pid")
    /\ pidfile' = [pidfile EXCEPT ![command.on] = command.pid]
    /\ Done
    /\ UNCHANGED <<profiles, mode, container, proc, asked, orphans>>

\* stopDaemon signals whatever has the number and forgets it at once, without
\* waiting for the process to go.
StopDaemon(n) ==
    /\ asked' = IF Alive(pidfile[n]) THEN asked \cup {pidfile[n]} ELSE asked
    /\ pidfile' = [pidfile EXCEPT ![n] = None]

StationStop ==
    /\ command = None /\ pidfile["station"] # None
    /\ StopDaemon("station")
    /\ UNCHANGED <<profiles, command, mode, container, proc, orphans>>

-----------------------------------------------------------------------------
(* echolet repeater *)

\* Tailscale mode is started like native mode.
RepeaterSetup(m) ==
    /\ command = None /\ m # mode
    /\ mode' = m
    /\ UNCHANGED <<profiles, command, container, pidfile, proc, asked, orphans>>

StartMode == IF mode = "unset" THEN "docker" ELSE mode

\* In docker mode, and for --docker in any, a container: the old one is removed
\* first, and the new one may fail to run.
RepeaterStartDocker ==
    /\ command = None
    /\ container' \in BOOLEAN
    /\ UNCHANGED <<profiles, command, mode, pidfile, proc, asked, orphans>>

RepeaterStartNative ==
    /\ command = None /\ StartMode = "native"
    /\ SpawnUnlessRunning("repeater")
    /\ UNCHANGED <<profiles, mode, container, proc, asked, orphans>>

\* Both are stopped, the container if docker can.
RepeaterStop ==
    /\ command = None /\ (container \/ pidfile["repeater"] # None)
    /\ container' \in {container, FALSE}
    /\ StopDaemon("repeater")
    /\ UNCHANGED <<profiles, command, mode, proc, orphans>>

-----------------------------------------------------------------------------
(* What happens beside the commands *)

\* The operator interrupts the command, or it is killed.
Abandon ==
    /\ command # None
    /\ Done
    /\ orphans' = orphans \cup {p \in Pid : At("pid") /\ p = command.pid /\ proc[p] = command.on}
    /\ UNCHANGED <<profiles, mode, container, pidfile, proc, asked>>

\* A process ends, asked or not, and its number is free again.
ProcessEnds(p) ==
    /\ proc[p] # "none"
    /\ proc' = [proc EXCEPT ![p] = "none"]
    /\ asked' = asked \ {p} /\ orphans' = orphans \ {p}
    /\ UNCHANGED <<profiles, command, mode, container, pidfile>>

ForeignProcess(p) ==
    /\ proc[p] = "none"
    /\ proc' = [proc EXCEPT ![p] = "foreign"]
    /\ UNCHANGED <<profiles, command, mode, container, pidfile, asked, orphans>>

Next ==
    \/ \E c \in Callsign : StationSetup(c) \/ ProfileSwitch(c) \/ ProfileDelete(c)
    \/ \E yes \in BOOLEAN : Overwrite(yes) \/ ConfirmDelete(yes)
    \/ WriteStoreKey \/ CreateDatabase \/ LinkConfig \/ WriteCard \/ SetupEnds
    \/ ClearActive \/ ContactAdd
    \/ StationStart \/ StationStop \/ WritePid \/ Abandon
    \/ \E n \in Name : StatusCommand(n)
    \/ \E m \in {"docker", "native"} : RepeaterSetup(m)
    \/ RepeaterStartDocker \/ RepeaterStartNative \/ RepeaterStop
    \/ \E p \in Pid : SpawnDaemon(p) \/ ProcessEnds(p) \/ ForeignProcess(p)

Spec == Init /\ [][Next]_vars

-----------------------------------------------------------------------------
(* Properties *)

\* Wherever a setup, an overwrite or a deletion is abandoned, a database that is
\* left lies beside the key that opens it, and a card beside it is its own.
KeyOpensDatabase ==
    \A c \in Callsign : disk[c].db # 0 =>
        disk[c].key = disk[c].db /\ disk[c].card \in {0, disk[c].db}

\* A database, and the history in it, disappears only after the operator said yes
\* to losing that very one, whatever half-made directories are cleared on the way.
LostOnlyByAgreement ==
    [][\A c \in Callsign :
          disk[c].db # 0 /\ disk'[c].db # disk[c].db => disk[c].db \in agreed']_vars

\* A daemon that nobody asked to stop is the one its pid file names, so `status',
\* `stop' and the next `start' find it; the exception is a start that ended between
\* the spawn and the pid file.
DaemonReachable ==
    \A p \in Pid :
        proc[p] \in Name /\ p \notin asked \cup orphans =>
            \/ pidfile[proc[p]] = p
            \/ At("pid") /\ command.pid = p

=============================================================================
