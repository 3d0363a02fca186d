------------------------------- MODULE Sandbox --------------------------------
(***************************************************************************)
(* The laboratory of an execution (sandbox.py, microsandbox_backend.py).   *)
(* run_command works in one copy of a source, which lives as long as the   *)
(* execution; run_tests makes a copy of its own for every run; an export   *)
(* packs the copy of run_command.  A copy is entered directly (bwrap, a    *)
(* local process), through a Docker container or through a microVM, and    *)
(* containers and microVMs outlive a call, and a killed process.           *)
(*                                                                         *)
(* The content of a copy is the revision of the source it was made from    *)
(* and the calls that have written in it.  A copy is made at one moment,   *)
(* and packed at one moment: what other hands write meanwhile is left out, *)
(* and so are resource limits and the text of the output.                  *)
(***************************************************************************)
EXTENDS Naturals, Functions

CONSTANTS
    CommandBackends,  \* what run_command may resolve to on this host
    TestBackends,     \* what run_tests may resolve to
    MaxCalls,         \* bound: calls of all executions
    MaxEdits,         \* bound: changes of the workspace by other hands
    MaxKills          \* bound: kills of the process

Backend == {"direct", "docker", "microsandbox"}

ASSUME SandboxAssumption ==
    /\ CommandBackends \subseteq Backend /\ TestBackends \subseteq Backend
    /\ MaxCalls \in Nat /\ MaxEdits \in Nat /\ MaxKills \in Nat

VARIABLES
    host,    \* the backends of this host; whether a microVM copies its files
    edits,   \* the revision of the workspace
    calls,   \* calls so far
    dirs,    \* the copies on the host that this execution made
    boxes,   \* the containers and microVMs it made, as long as they exist
    lab,     \* provider_state_for("standard.sandbox")
    call,    \* the call under way
    adrift,  \* calls whose process goes on in a box: <<call, box>>
    report,  \* history: what the last call worked on, and what it told
    ended,   \* history: the commands of this execution that wrote and ended
    lost,    \* history: the copies and boxes that failed to start or to go
    left,    \* history: what ended executions left, without such a reason
    kills    \* kills so far

vars == <<host, edits, calls, dirs, boxes, lab, call, adrift, report, ended,
          lost, left, kills>>

(* A copy and a box have the number of the call that made them; a process  *)
(* that goes on writes a second time.                                      *)
CallId  == 1..MaxCalls
Source  == {"workspace", "eyle"}
Writing == CallId \X {"own", "late"}
Gone    == [src |-> "none", rev |-> 0, work |-> {}]
Content == {Gone} \union
           [src : Source, rev : 0..MaxEdits, work : SUBSET Writing]

NoLab    == [snap |-> 0, src |-> "none", container |-> 0, session |-> 0,
             backend |-> "none"]
NoCall   == [pc |-> "idle", id |-> 0, kind |-> "none", src |-> "none",
             dir |-> 0, box |-> 0, seen |-> Gone, out |-> "none"]
NoReport == [kind |-> "none", src |-> "none", out |-> "none", seen |-> Gone,
             copy |-> Gone]

SandboxInit ==
    /\ host \in [command : CommandBackends, tests : TestBackends,
                guest : BOOLEAN]
    /\ host.guest => "microsandbox" \in {host.command, host.tests}
    /\ edits = 0 /\ calls = 0 /\ kills = 0
    /\ dirs = <<>> /\ boxes = <<>>
    /\ lab = NoLab /\ call = NoCall /\ report = NoReport
    /\ adrift = {} /\ ended = {} /\ lost = {} /\ left = {}

-------------------------------------------------------------------------------
(* What is to be found in a directory, and what a process in a box, or     *)
(* directly in a directory, works on: a microVM with its own files has     *)
(* them, everything else shares the directory it was started with, which   *)
(* may be gone.                                                            *)
InDir(d) == IF d \in DOMAIN dirs THEN dirs[d] ELSE Gone

Also(f, x, v) == [y \in {x} \union DOMAIN f |-> IF y = x THEN v ELSE f[y]]

HasFiles(b) == boxes[b].files # Gone

WorksOn(d, b) ==
    IF b = 0 THEN InDir(d)
    ELSE IF HasFiles(b) THEN boxes[b].files ELSE InDir(boxes[b].dir)

(* A process writes where it works; in a directory that is gone, nowhere.  *)
Writes(d, b, writing) ==
    LET shared == IF b = 0 THEN d ELSE boxes[b].dir
    IN  IF b # 0 /\ HasFiles(b)
        THEN /\ boxes' = [boxes EXCEPT ![b].files.work = @ \union {writing}]
             /\ UNCHANGED dirs
        ELSE /\ dirs' = IF shared \in DOMAIN dirs
                        THEN [dirs EXCEPT ![shared].work = @ \union {writing}]
                        ELSE dirs
             /\ UNCHANGED boxes

BackendOf(kind) == IF kind = "tests" THEN host.tests ELSE host.command

(* The call is over, and this is what it told.                             *)
Tells(out) ==
    /\ call' = NoCall
    /\ report' = [kind |-> call.kind, src |-> call.src, out |-> out,
                  seen |-> call.seen, copy |-> InDir(call.dir)]

Refuses ==
    /\ call' = NoCall
    /\ report' = [NoReport EXCEPT !.kind = call.kind, !.out = "refused"]

(* What is on the host, for what is said about it.                         *)
Copies(ids) == {"copy"} \X ids
Boxes(ids)  == {"box"} \X ids

-------------------------------------------------------------------------------
(* A call begins.  run_command stays in the copy it has, and refuses any   *)
(* other source (SANDBOX_SOURCE_CONFLICT); the first one, and every        *)
(* run_tests, makes a copy.                                                *)
Begin(kind, src) ==
    /\ call.pc = "idle" /\ calls < MaxCalls
    /\ calls' = calls + 1
    /\ LET here == kind = "command" /\ lab.snap # 0
       IN  IF here /\ lab.src # src
           THEN /\ report' = [NoReport EXCEPT !.kind = kind,
                                              !.out = "refused"]
                /\ UNCHANGED call
           ELSE /\ call' = [pc   |-> IF here THEN "box" ELSE "copy",
                            id   |-> calls', kind |-> kind, src |-> src,
                            dir  |-> IF here THEN lab.snap ELSE 0, box |-> 0,
                            seen |-> Gone, out |-> "none"]
                /\ report' = NoReport
    /\ UNCHANGED <<host, edits, dirs, boxes, lab, adrift, ended, lost, left,
                   kills>>

(* _copiar_projeto, which fails when the project is too large or changes   *)
(* under its hands.  A partial copy is removed, and so is that of a test   *)
(* run for which the host has no backend; a removal that fails raises, and *)
(* leaves the copy.                                                        *)
CopyNow ==
    [src |-> call.src, work |-> {},
     rev |-> IF call.src = "workspace" THEN edits ELSE 0]

Copy ==
    /\ call.pc = "copy"
    /\ dirs' = Also(dirs, call.id, CopyNow)
    /\ call' = [call EXCEPT !.pc = "box", !.dir = call.id]
    /\ lab' = IF call.kind = "tests" THEN lab
              ELSE [lab EXCEPT !.snap = call.id, !.src = call.src]
    /\ UNCHANGED <<host, edits, calls, boxes, adrift, report, ended, lost,
                   left, kills>>

CopyFails ==
    /\ call.pc = "copy"
    /\ Refuses
    /\ \/ UNCHANGED <<dirs, lost>>
       \/ /\ dirs' = Also(dirs, call.id, CopyNow)
          /\ lost' = lost \union Copies({call.id})
    /\ UNCHANGED <<host, edits, calls, boxes, lab, adrift, ended, left, kills>>

-------------------------------------------------------------------------------
(* Mutant of Kept: run_tests enters what run_command works in.             *)
KeptForAll ==
    CASE BackendOf(call.kind) = "docker" -> lab.container
      [] BackendOf(call.kind) = "microsandbox" -> lab.session
      [] OTHER -> 0

(* Into the box.  _ensure_docker_container has one container for the       *)
(* execution, whoever asks; _ensure_microsandbox_session one microVM for   *)
(* run_command, and executar_no_sandbox a new one for every run_tests.     *)
Kept ==
    CASE BackendOf(call.kind) = "docker" -> lab.container
      [] BackendOf(call.kind) = "microsandbox" /\ call.kind = "command" ->
             lab.session
      [] OTHER -> 0

(* run_command writes down its backend, and is refused before that if it   *)
(* asks for a directory that is not there.                                 *)
Noted == IF call.kind # "command" THEN lab
         ELSE [lab EXCEPT !.backend = host.command]

CommandRefused ==
    /\ call.pc = "box" /\ call.kind = "command"
    /\ Refuses
    /\ UNCHANGED <<host, edits, calls, dirs, boxes, lab, adrift, ended, lost,
                   left, kills>>

Runs(b, seen) == call' = [call EXCEPT !.pc = "run", !.box = b, !.seen = seen]

Enter ==
    /\ call.pc = "box"
    /\ BackendOf(call.kind) = "direct" \/ Kept # 0
    /\ Runs(Kept, WorksOn(call.dir, Kept))
    /\ lab' = Noted
    /\ UNCHANGED <<host, edits, calls, dirs, boxes, adrift, report, ended,
                   lost, left, kills>>

Needed == call.pc = "box" /\ BackendOf(call.kind) # "direct" /\ Kept = 0

NewBox ==
    [dir |-> call.dir,
     files |-> IF host.guest /\ BackendOf(call.kind) = "microsandbox"
               THEN InDir(call.dir) ELSE Gone]

StartBox ==
    /\ Needed
    /\ boxes' = Also(boxes, call.id, NewBox)
    /\ lab' = IF BackendOf(call.kind) = "docker"
              THEN [lab EXCEPT !.container = call.id, !.backend = "docker"]
              ELSE IF call.kind = "command"
              THEN [Noted EXCEPT !.session = call.id]
              ELSE lab
    /\ Runs(call.id, InDir(call.dir))
    /\ UNCHANGED <<host, edits, calls, dirs, adrift, report, ended, lost,
                   left, kills>>

(* Mutant of Discarded: the copy of a run that failed stays.               *)
DiscardedOnceRun == IF call.pc = "tidy" THEN {call.dir} ELSE {}

(* executar_no_sandbox removes its copy, however the run ends; a removal   *)
(* that fails (stuck) raises, and leaves it for good.                      *)
Discarded == IF call.kind = "tests" THEN {call.dir} ELSE {}

Discards(stuck) ==
    dirs' = Restrict(dirs, (DOMAIN dirs \ Discarded) \union stuck)

(* It does not start, or not in time, and then may be there all the same   *)
(* under a name nobody has noted.                                          *)
StartFails ==
    /\ Needed
    /\ Refuses
    /\ \E stuck \in SUBSET Discarded, there \in SUBSET {call.id} :
        /\ Discards(stuck)
        /\ boxes' = IF there = {} THEN boxes ELSE Also(boxes, call.id, NewBox)
        /\ lost' = lost \union Copies(stuck) \union Boxes(there)
    /\ lab' = Noted
    /\ UNCHANGED <<host, edits, calls, adrift, ended, left, kills>>

(* The process itself does not start: the box, and what is noted, stay.    *)
PopenFails ==
    /\ call.pc = "run" /\ BackendOf(call.kind) # "microsandbox"
    /\ <<call.id, "own">> \notin WorksOn(call.dir, call.box).work
    /\ Refuses
    /\ \E stuck \in SUBSET Discarded :
        Discards(stuck) /\ lost' = lost \union Copies(stuck)
    /\ UNCHANGED <<host, edits, calls, boxes, lab, adrift, ended, left, kills>>

-------------------------------------------------------------------------------
(* The command, or the test runner, writes where it works.                 *)
Work ==
    /\ call.pc = "run"
    /\ <<call.id, "own">> \notin WorksOn(call.dir, call.box).work
    /\ WorksOn(call.dir, call.box) # Gone
    /\ Writes(call.dir, call.box, <<call.id, "own">>)
    /\ UNCHANGED <<host, edits, calls, lab, call, adrift, report, ended, lost,
                   left, kills>>

(* It ends by itself; or is out of time and killed, which a container      *)
(* survives (the client of docker is killed) and a microVM may; or the     *)
(* microVM no longer answers and the call is told not to have run.  A      *)
(* command is over, a test run has to be tidied up.                        *)
Over(out) ==
    /\ IF call.kind = "tests"
       THEN /\ call' = [call EXCEPT !.pc = "tidy", !.out = out]
            /\ UNCHANGED <<report, ended>>
       ELSE /\ Tells(out)
            /\ LET work == WorksOn(call.dir, call.box).work
               IN  ended' = ended \union (work \intersect {<<call.id, "own">>})
    /\ UNCHANGED <<host, edits, calls, dirs, boxes, lab, lost, left, kills>>

Ends == call.pc = "run" /\ Over("ran") /\ UNCHANGED adrift

GoesOn == adrift' = adrift \union {<<call.id, call.box>>}

TimesOut ==
    /\ call.pc = "run"
    /\ Over("timeout")
    /\ CASE call.box = 0                        -> UNCHANGED adrift
         [] BackendOf(call.kind) = "docker"       -> GoesOn
         [] BackendOf(call.kind) = "microsandbox" -> GoesOn \/ UNCHANGED adrift

NoAnswer ==
    /\ call.pc = "run" /\ BackendOf(call.kind) = "microsandbox"
    /\ Over("refused")
    /\ GoesOn

(* The microVM of a test run is closed, and its copy removed.  Either can  *)
(* fail, and then the failure is all that is told.                         *)
OwnBox == IF host.tests = "microsandbox" THEN {call.box} ELSE {}

Tidy ==
    /\ call.pc = "tidy"
    /\ \E stuck \in SUBSET Discarded, open \in SUBSET OwnBox :
        /\ IF stuck = {} /\ open = {} THEN Tells(call.out) ELSE Refuses
        /\ Discards(stuck)
        /\ boxes' = Restrict(boxes, DOMAIN boxes \ (OwnBox \ open))
        /\ adrift' = {a \in adrift : a[2] \notin OwnBox \ open}
        /\ lost' = lost \union Copies(stuck) \union Boxes(open)
    /\ UNCHANGED <<host, edits, calls, lab, ended, left, kills>>

-------------------------------------------------------------------------------
(* Mutant of Packed: the copy on the host, whoever has the files.          *)
PackedOnHost == InDir(lab.snap)

(* export_active_sandbox_zip, for the user or for a promotion.             *)
Packed == IF lab.backend = "microsandbox" /\ lab.session # 0 /\ host.guest
          THEN boxes[lab.session].files ELSE InDir(lab.snap)

Export ==
    /\ call.pc = "idle" /\ calls < MaxCalls
    /\ lab.snap # 0
    /\ calls' = calls + 1
    /\ report' = [NoReport EXCEPT !.kind = "export", !.src = lab.src,
                                  !.out = "ran", !.seen = Packed]
    /\ UNCHANGED <<host, edits, dirs, boxes, lab, call, adrift, ended, lost,
                   left, kills>>

(* The execution is over, for whoever comes next: its numbers are not used *)
(* again, and what it leaves has no name that a later one knows.           *)
Forgets ==
    /\ dirs' = <<>> /\ boxes' = <<>> /\ lab' = NoLab /\ adrift' = {}
    /\ report' = NoReport /\ ended' = {} /\ lost' = {}

Removable == {"session", "container", "snap"}
Named(x)  == IF x = "snap" THEN Copies({lab.snap}) ELSE Boxes({lab[x]})

(* _cleanup_sandbox_state: three removals, each tried whatever becomes of  *)
(* the others; what a failed one leaves is left for that reason.           *)
Cleanup ==
    /\ call.pc = "idle"
    /\ dirs # <<>> \/ boxes # <<>>
    /\ \E failed \in SUBSET {x \in Removable : lab[x] # 0} :
         LET removed  == Removable \ failed
             boxesNow == DOMAIN boxes \ {lab[x] : x \in removed \ {"snap"}}
             dirsNow  == IF "snap" \in removed THEN DOMAIN dirs \ {lab.snap}
                         ELSE DOMAIN dirs
             excused  == lost \union UNION {Named(x) : x \in failed}
         IN  left' = left \union
                     ((Boxes(boxesNow) \union Copies(dirsNow)) \ excused)
    /\ Forgets
    /\ UNCHANGED <<host, edits, calls, call, kills>>

-------------------------------------------------------------------------------
(* What went on in a box writes later, or ends.                            *)
Linger ==
    \E a \in adrift :
        /\ \/ /\ WorksOn(0, a[2]) # Gone
              /\ Writes(0, a[2], <<a[1], "late">>)
           \/ UNCHANGED <<dirs, boxes>>
        /\ adrift' = adrift \ {a}
        /\ UNCHANGED <<host, edits, calls, lab, call, report, ended, lost,
                   left, kills>>

(* Another hand changes the workspace.                                     *)
Edit ==
    /\ edits < MaxEdits
    /\ edits' = edits + 1
    /\ UNCHANGED <<host, calls, dirs, boxes, lab, call, adrift, report, ended,
                   lost, left, kills>>

(* The process is killed.  bwrap dies with it; the copies, containers and  *)
(* microVMs stay, and nothing looks for them later.                        *)
Kill ==
    /\ kills < MaxKills
    /\ kills' = kills + 1
    /\ call' = NoCall
    /\ Forgets
    /\ UNCHANGED <<host, edits, calls, left>>

SandboxNext ==
    \/ \E kind \in {"command", "tests"}, src \in Source : Begin(kind, src)
    \/ Copy \/ CopyFails \/ CommandRefused \/ Enter \/ StartBox \/ StartFails
    \/ PopenFails \/ Work \/ Ends \/ TimesOut \/ NoAnswer \/ Tidy
    \/ Export \/ Cleanup \/ Linger \/ Edit \/ Kill

SandboxSpec == SandboxInit /\ [][SandboxNext]_vars

-------------------------------------------------------------------------------
(* Every variable has its type.                                            *)
SandboxTypeOK ==
    /\ \A d \in DOMAIN dirs : d \in CallId /\ dirs[d] \in Content \ {Gone}
    /\ \A b \in DOMAIN boxes : b \in CallId /\ boxes[b].dir \in CallId
                               /\ boxes[b].files \in Content
    /\ lab.snap \in {0} \union CallId
    /\ {lab.container, lab.session} \subseteq {0} \union DOMAIN boxes
    /\ call.seen \in Content /\ report.seen \in Content
    /\ adrift \subseteq CallId \X DOMAIN boxes /\ ended \subseteq Writing

(* Nothing is forgotten: a copy or a box on the host belongs to the call   *)
(* under way or to the execution, unless its own start or removal failed;  *)
(* one removal that fails takes no other with it, and an execution that    *)
(* was not killed leaves nothing else (_cleanup_sandbox_state, the finally *)
(* clauses).                                                               *)
NothingIsForgotten ==
    /\ left = {}
    /\ \A d \in DOMAIN dirs :
          d \in {lab.snap, call.dir} \/ <<"copy", d>> \in lost
    /\ \A b \in DOMAIN boxes :
          b \in {lab.container, lab.session, call.box} \/ <<"box", b>> \in lost

(* What is on the host is known, and no reference of the execution dangles *)
(* while it lasts.                                                         *)
HostIsKnown == SandboxTypeOK /\ NothingIsForgotten

(* A test run that is reported worked on the copy made for it, as it was   *)
(* made: the source as it is, and no trace of a command or of another run, *)
(* whatever was run before and whatever still goes on (registry.py: "Run   *)
(* the project tests in a safe copy.").                                    *)
TestsSeeTheirCopy ==
    report.kind = "tests" /\ report.out # "refused" =>
        report.seen = [report.copy EXCEPT !.work = {}]

(* The container of an execution, where calls of this kind run in it, was  *)
(* started on this copy: a container keeps the directory it was started    *)
(* on, and the next call is run in it whatever its own copy is.            *)
ContainerFits(kind, dir) ==
    BackendOf(kind) # "docker" \/ lab.container = 0
    \/ boxes[lab.container].dir = dir

(* The same of every test run but those that find a container of another   *)
(* copy: on hosts without Docker of all, on hosts with it of the one that  *)
(* starts the container.                                                   *)
FittingTestsSeeTheirCopy == ContainerFits("tests", calls) => TestsSeeTheirCopy

(* The place of the commands is theirs as long as no test run has put its  *)
(* container there: where commands run in the container, it is the one     *)
(* started on their copy; where they run in a microVM, the backend that is *)
(* noted last, which an export goes by, is not that of a container.        *)
PlaceIsTheirs ==
    /\ ContainerFits("command", lab.snap)
    /\ host.command = "microsandbox" => lab.backend # "docker"

(* The commands of an execution share one copy of the source they asked    *)
(* for, each finds what all earlier ones left, and what is exported or     *)
(* promoted is that copy (executar_comando_livre_no_sandbox: "Snapshot     *)
(* state persists across run_command calls in the same execution"), on     *)
(* every host, whatever tests were run between, as long as their place is  *)
(* theirs.                                                                 *)
CommandsShareTheirWork ==
    report.kind \in {"command", "export"} /\ report.out # "refused"
    /\ PlaceIsTheirs =>
        /\ report.seen.src = report.src
        /\ ended \ {<<calls, "own">>} \subseteq report.seen.work
===============================================================================
