---------------------------- MODULE SandboxProofs -----------------------------
(***************************************************************************)
(* The promises of Sandbox, proved for any number of calls, changes of the *)
(* workspace and kills, and for every choice of backends: that nothing is  *)
(* forgotten, that a test run sees its own copy unless it finds the        *)
(* container of another one (StaleContainer.cfg shows what it sees then),  *)
(* and that commands share theirs as long as their place is theirs.        *)
(*                                                                         *)
(* The invariant comes in two parts: what is on the host and which name of *)
(* the execution leads to it, and what is in the place commands work in.   *)
(***************************************************************************)
EXTENDS Sandbox, TLAPS

(* A copy or the files of a microVM, as opposed to nothing.                *)
Copied == [src : Source, rev : 0..MaxEdits, work : SUBSET Writing]
Box    == [dir : CallId, files : Content]

Lab ==
    [snap : 0..MaxCalls, src : Source \union {"none"},
     container : {0} \union DOMAIN boxes, session : {0} \union DOMAIN boxes,
     backend : Backend \union {"none"}]

Out  == {"none", "ran", "timeout", "refused"}
Call ==
    [pc : {"idle", "copy", "box", "run", "tidy"}, id : 0..MaxCalls,
     kind : {"none", "command", "tests"}, src : Source \union {"none"},
     dir : 0..MaxCalls, box : 0..MaxCalls, seen : Content, out : Out]

Report ==
    [kind : {"none", "command", "tests", "export"},
     src : Source \union {"none"}, out : Out, seen : Content, copy : Content]

HostTypes ==
    /\ host \in [command : CommandBackends, tests : TestBackends,
                 guest : BOOLEAN]
    /\ edits \in 0..MaxEdits /\ calls \in 0..MaxCalls
    /\ DOMAIN dirs \subseteq 1..calls /\ DOMAIN boxes \subseteq 1..calls
    /\ \A d \in DOMAIN dirs : dirs[d] \in Copied
    /\ \A b \in DOMAIN boxes : boxes[b] \in Box
    /\ lab \in Lab /\ call \in Call /\ report \in Report
    /\ adrift \subseteq CallId \X DOMAIN boxes /\ ended \subseteq Writing

(* The box a call that runs is in.                                         *)
BoxOfCall ==
    CASE BackendOf(call.kind) = "docker" -> lab.container
      [] BackendOf(call.kind) = "microsandbox" ->
             IF call.kind = "command" THEN lab.session ELSE call.id
      [] OTHER -> 0

(* The call under way, and the names it has for what it works on.          *)
CallIsKnown ==
    /\ call.pc = "idle" => call = NoCall
    /\ call.pc # "idle" => /\ call.id = calls /\ calls >= 1
                           /\ call.kind \in {"command", "tests"}
                           /\ call.src \in Source /\ report = NoReport
    /\ call.pc = "copy" => call.dir = 0 /\ (call.kind = "command" => lab.snap = 0)
    /\ call.pc \in {"copy", "box"} => call.box = 0 /\ calls \notin DOMAIN boxes
    /\ call.pc \in {"box", "run", "tidy"} =>
          /\ call.dir \in DOMAIN dirs
          /\ call.dir = IF call.kind = "tests" THEN call.id ELSE lab.snap
    /\ call.pc \in {"run", "tidy"} =>
          /\ call.box = BoxOfCall
          /\ BackendOf(call.kind) # "direct" => call.box \in DOMAIN boxes
    /\ call.pc = "tidy" => call.kind = "tests"
    /\ call.kind = "tests" =>
          /\ lab.snap # calls /\ lab.session # calls
          /\ host.tests # "docker" => lab.container # calls

SnapIsThere == lab.snap # 0 => lab.snap \in DOMAIN dirs

HostIInv == HostTypes /\ CallIsKnown /\ SnapIsThere /\ NothingIsForgotten

(* Where the commands of the execution work.                               *)
CommandBox ==
    CASE host.command = "docker" -> lab.container
      [] host.command = "microsandbox" -> lab.session
      [] OTHER -> 0

CommandPlace == WorksOn(lab.snap, CommandBox)

(* The microVM that is kept was made for commands, out of their copy; the  *)
(* container was made by whoever came first, out of the copy of that call. *)
BoxesOfCommands ==
    /\ lab.container # 0 => ~HasFiles(lab.container)
    /\ lab.session # 0 =>
          /\ host.command = "microsandbox" /\ lab.snap # 0
          /\ lab.backend \in {"microsandbox", "docker"}
          /\ boxes[lab.session].dir = lab.snap
          /\ HasFiles(lab.session) <=> host.guest
    /\ \A b \in DOMAIN boxes : boxes[b].dir <= b

(* As long as no test run has started the container commands run in, every *)
(* command that ended is in the place of the commands, and whoever is at   *)
(* work in it saw that.                                                    *)
Fits == ContainerFits("command", lab.snap)

PlaceHasWork ==
    /\ lab.snap = 0 => ended = {}
    /\ lab.snap # 0 => lab.src \in Source
    /\ lab.snap # 0 /\ Fits => /\ CommandPlace.src = lab.src
                              /\ ended \subseteq CommandPlace.work

CallSharesWork ==
    call.kind = "command" =>
        /\ call.pc \in {"box", "run"} => call.src = lab.src
        /\ call.pc = "run" /\ Fits =>
              call.seen.src = call.src /\ ended \subseteq call.seen.work

(* The copy of a test run is as it was made until the run begins, and that *)
(* is what the run saw, if it did not find the container of another copy.  *)
CopyIsFresh ==
    call.kind = "tests" =>
        /\ call.pc = "box" => dirs[call.dir].work = {}
        /\ call.pc \in {"run", "tidy"} /\ ContainerFits("tests", calls) =>
              call.seen = [dirs[call.dir] EXCEPT !.work = {}]

LabIInv ==
    /\ HostIInv /\ BoxesOfCommands /\ PlaceHasWork /\ CallSharesWork
    /\ CopyIsFresh
    /\ FittingTestsSeeTheirCopy /\ CommandsShareTheirWork
-------------------------------------------------------------------------------
(* A function with some entries only.                                      *)
LEMMA OnlySome ==
    ASSUME NEW f, NEW S
    PROVE  /\ DOMAIN Restrict(f, S) = S
           /\ \A y \in S : Restrict(f, S)[y] = f[y]
  BY DEF Restrict

LEMMA NothingLeft == DOMAIN <<>> = {}
  OBVIOUS

LEMMA Contents ==
    /\ Content = {Gone} \union Copied /\ Gone \notin Copied
    /\ Gone.work = {}
    /\ \A x \in Copied : /\ x.src \in Source /\ x.rev \in 0..MaxEdits
                         /\ x.work \in SUBSET Writing
  BY DEF Content, Copied, Gone, Source

(* What a process works on is a copy, or is gone.                          *)
LEMMA PlaceType ==
    ASSUME HostTypes, NEW d, NEW b \in {0} \union DOMAIN boxes
    PROVE  WorksOn(d, b) \in Content
<1>1. \A x : InDir(x) \in Content
  BY Contents DEF InDir, HostTypes
<1>2. b # 0 => boxes[b].files \in Content
  BY DEF HostTypes, Box
<1>3. QED
  BY <1>1, <1>2 DEF WorksOn

(* A write leaves every copy where it is and takes no work away from it;   *)
(* it touches the directory it goes to and no other.                       *)
Grown(x, y) == y = [x EXCEPT !.work = y.work] /\ x.work \subseteq y.work

LEMMA WriteEffect ==
    ASSUME HostTypes, NEW d, NEW b \in {0} \union DOMAIN boxes,
           NEW writing \in Writing, Writes(d, b, writing)
    PROVE  /\ DOMAIN dirs' = DOMAIN dirs /\ DOMAIN boxes' = DOMAIN boxes
           /\ \A x \in DOMAIN dirs : /\ dirs'[x] \in Copied
                                     /\ Grown(dirs[x], dirs'[x])
           /\ \A x \in DOMAIN boxes :
                 /\ boxes'[x] \in Box /\ boxes'[x].dir = boxes[x].dir
                 /\ boxes'[x].files = Gone <=> boxes[x].files = Gone
                 /\ Grown(boxes[x].files, boxes'[x].files)
           /\ \A x \in DOMAIN dirs :
                 x # (IF b = 0 THEN d ELSE boxes[b].dir) => dirs'[x] = dirs[x]
<1> DEFINE shared == IF b = 0 THEN d ELSE boxes[b].dir
           More(x) == [x EXCEPT !.work = @ \union {writing}]
<1>1. \A x \in Copied : More(x) \in Copied /\ Grown(x, More(x)) /\ More(x) # Gone
  BY Contents DEF Copied, Grown
<1>2. \A x \in Content : Grown(x, x)
  BY Contents DEF Copied, Grown, Gone
<1>3. CASE b # 0 /\ HasFiles(b)
  <2>1. dirs' = dirs /\ boxes' = [boxes EXCEPT ![b].files.work = @ \union {writing}]
    BY <1>3 DEF Writes
  <2>2. boxes[b] \in Box /\ boxes[b].files \in Copied
    BY <1>3, Contents DEF HostTypes, Box, HasFiles
  <2>3. /\ DOMAIN boxes' = DOMAIN boxes
        /\ \A x \in DOMAIN boxes \ {b} : boxes'[x] = boxes[x]
        /\ boxes'[b] = [boxes[b] EXCEPT !.files.work = @ \union {writing}]
    BY <1>3, <2>1
  <2>4. boxes'[b].dir = boxes[b].dir /\ boxes'[b].files = More(boxes[b].files)
        /\ boxes'[b] \in Box
    BY <1>1, <2>2, <2>3, Contents DEF Box
  <2>5. \A x \in DOMAIN boxes : boxes[x].files \in Content /\ boxes[x] \in Box
    BY DEF HostTypes, Box
  <2>6. \A x \in DOMAIN dirs : dirs[x] \in Copied /\ Grown(dirs[x], dirs[x])
    BY <1>2, Contents DEF HostTypes
  <2>7. QED
    BY <1>1, <1>2, <2>1, <2>2, <2>3, <2>4, <2>5, <2>6, Contents
<1>4. CASE ~(b # 0 /\ HasFiles(b))
  <2>1. /\ boxes' = boxes
        /\ dirs' = IF shared \in DOMAIN dirs
                   THEN [dirs EXCEPT ![shared].work = @ \union {writing}]
                   ELSE dirs
    BY <1>4 DEF Writes
  <2>2. /\ DOMAIN dirs' = DOMAIN dirs
        /\ \A x \in DOMAIN dirs : dirs[x] \in Copied
        /\ \A x \in DOMAIN dirs :
              dirs'[x] = IF x = shared THEN More(dirs[x]) ELSE dirs[x]
    BY <2>1 DEF HostTypes
  <2>3. \A x \in DOMAIN dirs : dirs'[x] \in Copied /\ Grown(dirs[x], dirs'[x])
    BY <1>1, <1>2, <2>2, Contents
  <2>4. \A x \in DOMAIN boxes : boxes[x] \in Box /\ Grown(boxes[x].files, boxes[x].files)
    BY <1>2 DEF HostTypes, Box
  <2>5. QED
    BY <2>1, <2>2, <2>3, <2>4
<1>5. QED
  BY <1>3, <1>4
-------------------------------------------------------------------------------
(* What is on the host, on every host.                                     *)
LEMMA HostInit == SandboxInit => HostIInv
<1> SUFFICES ASSUME SandboxInit PROVE HostIInv
  OBVIOUS
<1>1. /\ 0 \in 0..MaxEdits /\ 0 \in 0..MaxCalls
      /\ NoCall.pc = "idle" /\ NoCall.kind = "none" /\ NoCall.box = 0
      /\ NoCall.dir = 0 /\ lab.snap = 0
  BY SandboxAssumption DEF SandboxInit, NoCall, NoLab
<1>2. HostTypes
  BY <1>1, NothingLeft, Contents
     DEF SandboxInit, HostTypes, NoCall, NoLab, NoReport, Lab, Call, Report, Out
<1>3. CallIsKnown /\ SnapIsThere /\ NothingIsForgotten
  BY <1>1, NothingLeft
     DEF SandboxInit, CallIsKnown, SnapIsThere, NothingIsForgotten
<1>4. QED
  BY <1>2, <1>3 DEF HostIInv

(* A call that is over, with whatever it told.                             *)
LEMMA CallOver ==
    ASSUME call' = NoCall
    PROVE  /\ CallIsKnown' /\ call'.dir = 0 /\ call'.box = 0
           /\ call' \in Call
<1>1. /\ call'.pc = "idle" /\ call'.kind = "none" /\ call'.dir = 0
      /\ call'.box = 0
  BY DEF NoCall
<1>2. CallIsKnown'
  BY <1>1 DEF CallIsKnown
<1>3. QED
  BY <1>1, <1>2, Contents, SandboxAssumption DEF NoCall, Call, Out

LEMMA ReportTypes ==
    ASSUME HostTypes, Refuses \/ \E out \in Out : Tells(out)
    PROVE  call' = NoCall /\ report' \in Report
<1>1. CASE Refuses
  BY <1>1, Contents DEF Refuses, NoReport, HostTypes, Call, Report, Out
<1>2. CASE \E out \in Out : Tells(out)
  <2>1. InDir(call.dir) \in Content
    BY Contents DEF InDir, HostTypes
  <2>2. QED
    BY <1>2, <2>1 DEF Tells, HostTypes, Call, Report, Out
<1>3. QED
  BY <1>1, <1>2

(* The copy of a test run goes or is stuck, that of the commands stays.    *)
LEMMA DiscardEffect ==
    ASSUME HostIInv, call.pc \in {"box", "run", "tidy"},
           NEW stuck \in SUBSET Discarded, Discards(stuck)
    PROVE  /\ DOMAIN dirs' \subseteq DOMAIN dirs
           /\ \A d \in DOMAIN dirs' : dirs'[d] = dirs[d]
           /\ \A d \in DOMAIN dirs' :
                 d = lab.snap \/ <<"copy", d>> \in lost \union Copies(stuck)
           /\ lab.snap # 0 => lab.snap \in DOMAIN dirs'
<1>1. /\ DOMAIN dirs' = (DOMAIN dirs \ Discarded) \union stuck
      /\ call.dir \in DOMAIN dirs
  BY OnlySome DEF Discards, HostIInv, CallIsKnown
<1>2. /\ \A d \in DOMAIN dirs :
            d \in {lab.snap, call.dir} \/ <<"copy", d>> \in lost
      /\ lab.snap # 0 => lab.snap \in DOMAIN dirs
  BY DEF HostIInv, NothingIsForgotten, SnapIsThere
<1>3. \A d \in stuck : <<"copy", d>> \in Copies(stuck)
  BY DEF Copies
<1>4. Discarded \subseteq DOMAIN dirs
  BY <1>1 DEF Discarded
<1>5. \A d \in DOMAIN dirs' : dirs'[d] = dirs[d]
  BY <1>1, OnlySome DEF Discards
<1>6. CASE call.kind = "tests"
  <2>1. Discarded = {call.dir} /\ lab.snap # call.dir
    BY <1>6 DEF Discarded, HostIInv, CallIsKnown
  <2>2. QED
    BY <1>1, <1>2, <1>3, <1>4, <1>5, <2>1
<1>7. CASE call.kind # "tests"
  <2>1. Discarded = {} /\ call.dir = lab.snap
    BY <1>7 DEF Discarded, HostIInv, CallIsKnown
  <2>2. QED
    BY <1>1, <1>2, <1>3, <1>4, <1>5, <2>1
<1>8. QED
  BY <1>6, <1>7

(* What is noted of a command leaves the names as they are.                *)
LEMMA NotedEffect ==
    ASSUME HostTypes
    PROVE  /\ Noted.snap = lab.snap /\ Noted.src = lab.src
           /\ Noted.container = lab.container /\ Noted.session = lab.session
           /\ Noted.backend \in {lab.backend, host.command}
           /\ Noted \in Lab
  BY SandboxAssumption DEF Noted, HostTypes, Lab

LEMMA HostBegin ==
    ASSUME HostIInv, NEW kind \in {"command", "tests"}, NEW src \in Source,
           Begin(kind, src)
    PROVE  HostIInv'
<1> DEFINE here == kind = "command" /\ lab.snap # 0
<1> USE DEF HostIInv
<1>1. /\ call = NoCall /\ call.dir = 0 /\ call.box = 0 /\ call.pc = "idle"
      /\ calls' = calls + 1 /\ calls' \in 0..MaxCalls /\ calls \in Nat
      /\ UNCHANGED <<host, edits, dirs, boxes, lab, adrift, ended, lost, left>>
  BY SandboxAssumption DEF Begin, CallIsKnown, NoCall, HostTypes
<1>2. SnapIsThere' /\ lab.snap \in 0..MaxCalls
  BY <1>1 DEF SnapIsThere, HostTypes, Lab
<1>3. /\ DOMAIN dirs' \subseteq 1..calls' /\ DOMAIN boxes' \subseteq 1..calls'
      /\ calls' \notin DOMAIN boxes /\ calls' \notin DOMAIN dirs /\ calls' # 0
  BY <1>1 DEF HostTypes
<1>4. lab.snap # calls' /\ lab.session # calls' /\ lab.container # calls'
  BY <1>1, <1>3 DEF HostTypes, SnapIsThere, Lab
<1>5. report' \in Report /\ (~(here /\ lab.src # src) => report' = NoReport)
  <2>1. NoReport \in Report
    BY Contents DEF NoReport, Report, Out
  <2>2. QED
    BY <2>1 DEF Begin, Report, Out
<1>6. /\ call' \in Call /\ CallIsKnown'
      /\ call'.dir \in {0, lab.snap} /\ call'.box = 0
  <2>1. CASE here /\ lab.src # src
    BY <1>1, <2>1, CallOver DEF Begin
  <2>2. CASE ~(here /\ lab.src # src)
    <3> DEFINE pc == IF here THEN "box" ELSE "copy"
               d  == IF here THEN lab.snap ELSE 0
    <3>1. call' = [pc |-> pc, id |-> calls', kind |-> kind, src |-> src,
                   dir |-> d, box |-> 0, seen |-> Gone, out |-> "none"]
      BY <2>2 DEF Begin
    <3>2. pc \in {"copy", "box"} /\ d \in 0..MaxCalls /\ 0 \in 0..MaxCalls
      BY <1>2, SandboxAssumption
    <3>3. /\ call' \in Call
          /\ call'.pc = pc /\ call'.id = calls' /\ call'.dir = d
          /\ call'.kind = kind /\ call'.src = src /\ call'.box = 0
      BY <1>1, <3>1, <3>2, Contents DEF Call, Out
    <3>4. CallIsKnown'
      BY <1>1, <1>2, <1>3, <1>4, <1>5, <2>2, <3>3
         DEF CallIsKnown, SnapIsThere
    <3>5. QED
      BY <3>3, <3>4
  <2>3. QED
    BY <2>1, <2>2
<1>7. HostTypes'
  BY <1>1, <1>3, <1>5, <1>6 DEF HostTypes, Lab
<1>8. NothingIsForgotten'
  BY <1>1, <1>6 DEF NothingIsForgotten, HostTypes
<1>9. QED
  BY <1>2, <1>6, <1>7, <1>8

(* A copy is made with the number of the call.                             *)
LEMMA CopyNowType ==
    ASSUME HostTypes, call.src \in Source
    PROVE  CopyNow \in Copied
  BY SandboxAssumption DEF CopyNow, Copied, HostTypes

LEMMA HostCopy ==
    ASSUME HostIInv, Copy
    PROVE  HostIInv'
<1> USE DEF HostIInv
<1>1. /\ call.pc = "copy" /\ call.id = calls /\ calls >= 1 /\ call.dir = 0
      /\ call.box = 0 /\ call.src \in Source /\ calls \in CallId
      /\ call.kind \in {"command", "tests"} /\ report = NoReport
      /\ UNCHANGED <<host, edits, calls, boxes, adrift, report, ended, lost, left>>
  BY DEF Copy, CallIsKnown, HostTypes, CallId
<1>2. dirs' = Also(dirs, calls, CopyNow)
  BY <1>1 DEF Copy
<1>3. CopyNow \in Copied
  BY <1>1, CopyNowType
<1>4. /\ DOMAIN dirs' = {calls} \union DOMAIN dirs
      /\ \A d \in DOMAIN dirs' : dirs'[d] \in Copied
  BY <1>2, <1>3 DEF Also, HostTypes
<1>5. /\ call' \in Call /\ call'.pc = "box" /\ call'.dir = calls
      /\ call'.id = calls /\ call'.kind = call.kind /\ call'.src = call.src
      /\ call'.box = 0
  BY <1>1 DEF Copy, HostTypes, Call, CallId
<1>6. /\ lab' \in Lab /\ lab'.container = lab.container
      /\ lab'.session = lab.session
      /\ call.kind = "tests" => lab' = lab
      /\ call.kind = "command" => lab'.snap = calls /\ lab.snap = 0
  BY <1>1 DEF Copy, HostTypes, Lab, CallId, CallIsKnown
<1>7. HostTypes'
  BY <1>1, <1>4, <1>5, <1>6 DEF HostTypes, Lab, CallId
<1>8. CallIsKnown'
  BY <1>1, <1>4, <1>5, <1>6 DEF CallIsKnown
<1>9. SnapIsThere' /\ NothingIsForgotten'
  BY <1>1, <1>4, <1>5, <1>6 DEF SnapIsThere, NothingIsForgotten, HostTypes
<1>10. QED
  BY <1>7, <1>8, <1>9

(* Into a box that is there, or into none.                                 *)
LEMMA HostEnter ==
    ASSUME HostIInv, Enter
    PROVE  HostIInv'
<1> USE DEF HostIInv
<1>1. /\ call.pc = "box" /\ call.kind \in {"command", "tests"}
      /\ call.id = calls
      /\ UNCHANGED <<host, edits, calls, dirs, boxes, adrift, report, ended,
                     lost, left>>
  BY DEF Enter, CallIsKnown
<1>2. /\ lab'.snap = lab.snap /\ lab'.container = lab.container
      /\ lab'.session = lab.session /\ lab' \in Lab
  BY NotedEffect DEF Enter
<1>3. /\ Kept \in {0} \union DOMAIN boxes
      /\ BackendOf(call.kind) # "direct" => Kept \in DOMAIN boxes
      /\ Kept = (CASE BackendOf(call.kind) = "docker" -> lab.container
                   [] BackendOf(call.kind) = "microsandbox" -> lab.session
                   [] OTHER -> 0)
      /\ BackendOf(call.kind) = "microsandbox" => call.kind = "command"
  BY DEF Enter, Kept, HostTypes, Lab
<1>4. WorksOn(call.dir, Kept) \in Content /\ Kept \in 0..MaxCalls
  BY <1>3, PlaceType, SandboxAssumption DEF HostTypes
<1>5. /\ call' \in Call /\ call'.pc = "run" /\ call'.box = Kept
      /\ call'.id = call.id /\ call'.kind = call.kind /\ call'.dir = call.dir
      /\ call'.src = call.src
  BY <1>4 DEF Enter, Runs, HostTypes, Call
<1>6. HostTypes'
  BY <1>1, <1>2, <1>5 DEF HostTypes, Lab
<1>7. CallIsKnown'
  <2>1. call'.box = BoxOfCall'
    BY <1>1, <1>2, <1>3, <1>5 DEF BoxOfCall, BackendOf
  <2>2. QED
    BY <1>1, <1>2, <1>3, <1>5, <2>1 DEF CallIsKnown, BackendOf
<1>8. SnapIsThere' /\ NothingIsForgotten'
  BY <1>1, <1>2, <1>3, <1>5
     DEF SnapIsThere, NothingIsForgotten, CallIsKnown, HostTypes
<1>9. QED
  BY <1>6, <1>7, <1>8

(* A new box has the number of the call.                                   *)
LEMMA NewBoxEffect ==
    ASSUME HostIInv, call.pc = "box", boxes' = Also(boxes, call.id, NewBox)
    PROVE  /\ call.id = calls /\ calls \notin DOMAIN boxes /\ calls \in CallId
           /\ DOMAIN boxes' = {calls} \union DOMAIN boxes
           /\ boxes'[calls] = NewBox
           /\ \A b \in DOMAIN boxes : boxes'[b] = boxes[b]
           /\ \A b \in DOMAIN boxes' : boxes'[b] \in Box
<1>1. call.id = calls /\ calls \notin DOMAIN boxes /\ calls \in CallId
  BY DEF HostIInv, CallIsKnown, HostTypes, CallId
<1>2. NewBox \in Box
  <2>1. InDir(call.dir) \in Content /\ Gone \in Content
    BY Contents DEF InDir, HostIInv, HostTypes
  <2>2. call.dir \in CallId
    BY SandboxAssumption DEF HostIInv, HostTypes, CallIsKnown, CallId
  <2>3. QED
    BY <2>1, <2>2 DEF NewBox, Box
<1>3. QED
  BY <1>1, <1>2 DEF Also, HostIInv, HostTypes

LEMMA HostStartBox ==
    ASSUME HostIInv, StartBox
    PROVE  HostIInv'
<1> USE DEF HostIInv
<1>1. /\ call.pc = "box" /\ BackendOf(call.kind) # "direct"
      /\ call.kind \in {"command", "tests"} /\ report = NoReport
      /\ call.id = calls /\ calls >= 1
      /\ call.dir = IF call.kind = "tests" THEN call.id ELSE lab.snap
      /\ UNCHANGED <<host, edits, calls, dirs, adrift, report, ended, lost, left>>
  BY DEF StartBox, Needed, CallIsKnown
<1>2. /\ calls \notin DOMAIN boxes /\ calls \in CallId
      /\ DOMAIN boxes' = {calls} \union DOMAIN boxes
      /\ \A b \in DOMAIN boxes' : boxes'[b] \in Box
  BY <1>1, NewBoxEffect DEF StartBox
<1>3. /\ lab'.snap = lab.snap /\ lab' \in Lab'
      /\ lab'.container = (IF BackendOf(call.kind) = "docker" THEN calls
                           ELSE lab.container)
      /\ lab'.session = (IF /\ BackendOf(call.kind) # "docker"
                            /\ call.kind = "command"
                         THEN calls ELSE lab.session)
  <2>1. CASE BackendOf(call.kind) = "docker"
    <3>1. lab' = [lab EXCEPT !.container = calls, !.backend = "docker"]
      BY <1>1, <2>1 DEF StartBox
    <3>2. lab \in Lab' /\ calls \in DOMAIN boxes' /\ "docker" \in Backend
      BY <1>2 DEF HostTypes, Lab, Backend
    <3>3. QED
      BY <2>1, <3>1, <3>2 DEF Lab
  <2>2. CASE BackendOf(call.kind) # "docker" /\ call.kind = "command"
    BY <1>1, <1>2, <2>2, NotedEffect DEF StartBox, HostTypes, Lab
  <2>3. CASE BackendOf(call.kind) # "docker" /\ call.kind # "command"
    BY <1>1, <1>2, <2>3 DEF StartBox, HostTypes, Lab
  <2>4. QED
    BY <2>1, <2>2, <2>3
<1>4. BackendOf(call.kind) \in {"docker", "microsandbox"}
  BY <1>1, SandboxAssumption DEF BackendOf, HostTypes, Backend
<1>5. InDir(call.dir) \in Content
  BY Contents DEF InDir, HostTypes
<1>6. /\ call' \in Call /\ call'.pc = "run" /\ call'.box = calls
      /\ call'.id = call.id /\ call'.kind = call.kind /\ call'.dir = call.dir
      /\ call'.src = call.src
  BY <1>1, <1>2, <1>5 DEF StartBox, Runs, HostTypes, Call, CallId
<1>7. HostTypes'
  <2>1. DOMAIN boxes' \subseteq 1..calls' /\ adrift' \subseteq CallId \X DOMAIN boxes'
    BY <1>1, <1>2 DEF HostTypes, CallId
  <2>2. QED
    BY <1>1, <1>2, <1>3, <1>6, <2>1 DEF HostTypes
<1>8. CallIsKnown'
  <2>1. call'.box = BoxOfCall'
    BY <1>1, <1>3, <1>4, <1>6 DEF BoxOfCall, BackendOf
  <2>2. call.kind = "tests" => /\ lab'.snap # calls /\ lab'.session # calls
                               /\ host.tests # "docker" => lab'.container # calls
    BY <1>1, <1>3 DEF CallIsKnown, BackendOf
  <2>3. QED
    BY <1>1, <1>2, <1>6, <1>3, <2>1, <2>2 DEF CallIsKnown
<1>9. SnapIsThere' /\ NothingIsForgotten'
  <2>1. /\ BackendOf(call.kind) = "docker" => lab.container = 0
        /\ BackendOf(call.kind) # "docker" /\ call.kind = "command" =>
              lab.session = 0
    BY <1>4 DEF StartBox, Needed, Kept
  <2>2. SnapIsThere'
    BY <1>1, <1>3 DEF SnapIsThere
  <2>3. /\ \A b \in DOMAIN boxes : b \in {lab.container, lab.session}
                                  \/ <<"box", b>> \in lost
        /\ 0 \notin DOMAIN boxes
    BY <1>1 DEF NothingIsForgotten, CallIsKnown, HostTypes
  <2>4. QED
    BY <1>1, <1>2, <1>3, <1>6, <2>1, <2>2, <2>3 DEF NothingIsForgotten
<1>10. QED
  BY <1>7, <1>8, <1>9

(* A start that fails: the copy of a test run goes or is stuck, a box that *)
(* is there all the same is lost.                                          *)
LEMMA HostFails ==
    ASSUME HostIInv, StartFails \/ PopenFails
    PROVE  HostIInv'
<1> USE DEF HostIInv
<1>1. /\ call.pc \in {"box", "run"} /\ Refuses
      /\ UNCHANGED <<host, edits, calls, adrift, ended, left>>
  BY DEF StartFails, PopenFails, Needed
<1>2. PICK stuck \in SUBSET Discarded :
        /\ Discards(stuck)
        /\ lost \union Copies(stuck) \subseteq lost'
        /\ \/ boxes' = boxes
           \/ /\ call.pc = "box" /\ boxes' = Also(boxes, call.id, NewBox)
              /\ <<"box", call.id>> \in lost'
  <2>1. CASE PopenFails
    BY <2>1 DEF PopenFails
  <2>2. CASE StartFails
    <3>1. PICK stuck \in SUBSET Discarded, there \in SUBSET {call.id} :
            /\ Discards(stuck)
            /\ boxes' = IF there = {} THEN boxes
                        ELSE Also(boxes, call.id, NewBox)
            /\ lost' = lost \union Copies(stuck) \union Boxes(there)
      BY <2>2 DEF StartFails
    <3>2. there # {} => <<"box", call.id>> \in Boxes(there)
      BY DEF Boxes
    <3>3. call.pc = "box"
      BY <2>2 DEF StartFails, Needed
    <3>4. QED
      BY <3>1, <3>2, <3>3
  <2>3. QED
    BY <2>1, <2>2
<1>3. call' = NoCall /\ report' \in Report
  BY <1>1, ReportTypes
<1>4. CallIsKnown' /\ call'.dir = 0 /\ call'.box = 0 /\ call' \in Call
  BY <1>3, CallOver
<1>5. /\ lab'.snap = lab.snap /\ lab'.container = lab.container
      /\ lab'.session = lab.session /\ lab' \in Lab
  BY NotedEffect DEF StartFails, PopenFails, HostTypes
<1>6. /\ DOMAIN boxes \subseteq DOMAIN boxes' /\ DOMAIN boxes' \subseteq 1..calls
      /\ \A b \in DOMAIN boxes' : boxes'[b] \in Box
      /\ \A b \in DOMAIN boxes' :
            b \in {lab.container, lab.session} \/ <<"box", b>> \in lost'
  <2>1. call.box \in {0, lab.container}
    <3>1. call.pc = "box" => call.box = 0
      BY DEF CallIsKnown
    <3>2. call.pc = "run" /\ BackendOf(call.kind) # "microsandbox" =>
             call.box \in {0, lab.container}
      BY DEF CallIsKnown, BoxOfCall
    <3>3. QED
      BY <3>1, <3>2 DEF StartFails, PopenFails, Needed
  <2>2. /\ 0 \notin DOMAIN boxes
        /\ \A b \in DOMAIN boxes : b \in {lab.container, lab.session}
                                  \/ <<"box", b>> \in lost'
    BY <1>2, <2>1 DEF HostTypes, NothingIsForgotten
  <2>3. CASE boxes' = boxes
    BY <2>2, <2>3 DEF HostTypes
  <2>4. CASE /\ call.pc = "box" /\ boxes' = Also(boxes, call.id, NewBox)
             /\ <<"box", call.id>> \in lost'
    BY <2>2, <2>4, NewBoxEffect DEF HostTypes, CallId
  <2>5. QED
    BY <1>2, <2>3, <2>4
<1>7. /\ DOMAIN dirs' \subseteq DOMAIN dirs
      /\ \A d \in DOMAIN dirs' : dirs'[d] = dirs[d]
      /\ \A d \in DOMAIN dirs' : d = lab.snap \/ <<"copy", d>> \in lost'
      /\ lab.snap # 0 => lab.snap \in DOMAIN dirs'
  BY <1>1, <1>2, DiscardEffect
<1>8. HostTypes'
  BY <1>1, <1>3, <1>4, <1>5, <1>6, <1>7 DEF HostTypes, Lab
<1>9. SnapIsThere' /\ NothingIsForgotten'
  BY <1>1, <1>4, <1>5, <1>6, <1>7 DEF SnapIsThere, NothingIsForgotten
<1>10. QED
  BY <1>4, <1>8, <1>9

(* A write of the call or of what goes on: the same copies and boxes.      *)
LEMMA WriteHost ==
    ASSUME HostIInv, NEW d, NEW b \in {0} \union DOMAIN boxes,
           NEW writing \in Writing, Writes(d, b, writing),
           UNCHANGED <<host, edits, calls, lab, call, report, ended, lost, left>>,
           adrift' \subseteq adrift
    PROVE  HostIInv'
<1> USE DEF HostIInv
<1>1. /\ DOMAIN dirs' = DOMAIN dirs /\ DOMAIN boxes' = DOMAIN boxes
      /\ \A x \in DOMAIN dirs : dirs'[x] \in Copied
      /\ \A x \in DOMAIN boxes : boxes'[x] \in Box
  BY WriteEffect
<1>2. HostTypes'
  BY <1>1 DEF HostTypes, Lab
<1>3. CallIsKnown'
  BY <1>1 DEF CallIsKnown, BoxOfCall, BackendOf
<1>4. SnapIsThere' /\ NothingIsForgotten'
  BY <1>1 DEF SnapIsThere, NothingIsForgotten
<1>5. QED
  BY <1>2, <1>3, <1>4

LEMMA HostWork ==
    ASSUME HostIInv, Work
    PROVE  HostIInv'
<1>1. call.box \in {0} \union DOMAIN boxes /\ <<call.id, "own">> \in Writing
  <2>1. call.pc = "run" /\ call.box = BoxOfCall /\ call.id = calls /\ calls >= 1
        /\ (BackendOf(call.kind) # "direct" => call.box \in DOMAIN boxes)
    BY DEF Work, HostIInv, CallIsKnown
  <2>2. BackendOf(call.kind) = "direct" => call.box = 0
    BY <2>1 DEF BoxOfCall
  <2>3. QED
    BY <2>1, <2>2 DEF HostIInv, HostTypes, Writing, CallId
<1>2. QED
  BY <1>1, WriteHost DEF Work

LEMMA HostLinger ==
    ASSUME HostIInv, Linger
    PROVE  HostIInv'
<1>1. PICK a \in adrift :
        /\ \/ Writes(0, a[2], <<a[1], "late">>)
           \/ UNCHANGED <<dirs, boxes>>
        /\ adrift' = adrift \ {a}
        /\ UNCHANGED <<host, edits, calls, lab, call, report, ended, lost, left>>
  BY DEF Linger
<1>2. a[2] \in DOMAIN boxes /\ <<a[1], "late">> \in Writing
  BY DEF HostIInv, HostTypes, Writing
<1>3. CASE Writes(0, a[2], <<a[1], "late">>)
  BY <1>1, <1>2, <1>3, WriteHost
<1>4. CASE UNCHANGED <<dirs, boxes>>
  BY <1>1, <1>4 DEF HostIInv, HostTypes, Lab, CallIsKnown, BoxOfCall, BackendOf,
                    SnapIsThere, NothingIsForgotten
<1>5. QED
  BY <1>1, <1>3, <1>4

(* The end of a run: a command is over, a test run has to be tidied up.    *)
LEMMA HostOver ==
    ASSUME HostIInv, Ends \/ TimesOut \/ NoAnswer
    PROVE  HostIInv'
<1> USE DEF HostIInv
<1>1. PICK out \in {"ran", "timeout", "refused"} : Over(out)
  BY DEF Ends, TimesOut, NoAnswer
<1>2. /\ call.pc = "run" /\ call.box = BoxOfCall /\ call.id = calls /\ calls >= 1
      /\ BackendOf(call.kind) # "direct" => call.box \in DOMAIN boxes
      /\ call.kind \in {"command", "tests"}
      /\ UNCHANGED <<host, edits, calls, dirs, boxes, lab, lost, left>>
  BY <1>1 DEF Ends, TimesOut, NoAnswer, CallIsKnown, Over
<1>3. adrift' \subseteq CallId \X DOMAIN boxes
  <2>1. CASE UNCHANGED adrift
    BY <2>1 DEF HostTypes
  <2>2. CASE call.box \in DOMAIN boxes /\ GoesOn
    BY <1>2, <2>2 DEF GoesOn, HostTypes, CallId
  <2>3. CASE TimesOut
    <3>1. BackendOf(call.kind) \in {"direct", "docker", "microsandbox"}
      BY <1>2, SandboxAssumption DEF BackendOf, HostTypes, Backend
    <3>2. BackendOf(call.kind) = "direct" => call.box = 0
      BY <1>2 DEF BoxOfCall
    <3>3. call.box \in DOMAIN boxes => call.box # 0
      BY DEF HostTypes
    <3>4. QED
      BY <1>2, <2>1, <2>2, <2>3, <3>1, <3>2, <3>3 DEF TimesOut
  <2>4. QED
    BY <1>2, <2>1, <2>2, <2>3 DEF Ends, NoAnswer
<1>4. CASE call.kind = "tests"
  <2>1. /\ call' = [call EXCEPT !.pc = "tidy", !.out = out]
        /\ UNCHANGED <<report, ended>>
    BY <1>1, <1>4 DEF Over
  <2>2. /\ call' \in Call /\ call'.pc = "tidy" /\ call'.id = call.id
        /\ call'.kind = call.kind /\ call'.src = call.src
        /\ call'.dir = call.dir /\ call'.box = call.box
    BY <2>1 DEF HostTypes, Call, Out
  <2>3. HostTypes'
    BY <1>2, <1>3, <2>1, <2>2 DEF HostTypes, Lab
  <2>4. CallIsKnown'
    <3>1. BoxOfCall' = BoxOfCall
      BY <1>2, <2>2 DEF BoxOfCall, BackendOf
    <3>2. QED
      BY <1>2, <1>4, <2>1, <2>2, <3>1 DEF CallIsKnown, BackendOf
  <2>5. SnapIsThere' /\ NothingIsForgotten'
    BY <1>2, <2>2 DEF SnapIsThere, NothingIsForgotten
  <2>6. QED
    BY <2>3, <2>4, <2>5
<1>5. CASE call.kind = "command"
  <2>1. Tells(out) /\ ended' \subseteq Writing
    BY <1>1, <1>2, <1>5 DEF Over, HostTypes, Writing, CallId
  <2>2. call' = NoCall /\ report' \in Report
    BY <2>1, ReportTypes DEF Out
  <2>3. CallIsKnown' /\ call'.dir = 0 /\ call'.box = 0 /\ call' \in Call
    BY <2>2, CallOver
  <2>4. HostTypes'
    BY <1>2, <1>3, <2>1, <2>2, <2>3 DEF HostTypes, Lab
  <2>5. call.dir = lab.snap /\ call.box \in {0, lab.container, lab.session}
    BY <1>2, <1>5 DEF CallIsKnown, BoxOfCall
  <2>6. SnapIsThere' /\ NothingIsForgotten'
    BY <1>2, <2>3, <2>5 DEF SnapIsThere, NothingIsForgotten, HostTypes
  <2>7. QED
    BY <2>3, <2>4, <2>6
<1>6. QED
  BY <1>2, <1>4, <1>5

(* The tidying up after a test run.                                        *)
LEMMA OwnBoxIsOwn ==
    ASSUME HostIInv, call.pc = "tidy"
    PROVE  /\ OwnBox \intersect {lab.container, lab.session} = {}
           /\ OwnBox \subseteq {call.box}
           /\ OwnBox = {} => call.box \in {0, lab.container}
<1>1. /\ call.kind = "tests" /\ call.box = BoxOfCall /\ call.id = calls
      /\ lab.session # calls /\ (host.tests # "docker" => lab.container # calls)
  BY DEF HostIInv, CallIsKnown
<1>2. host.tests = "microsandbox" => call.box = calls
  BY <1>1 DEF BoxOfCall, BackendOf
<1>3. host.tests # "microsandbox" => call.box \in {0, lab.container}
  BY <1>1 DEF BoxOfCall, BackendOf
<1>4. QED
  BY <1>1, <1>2, <1>3 DEF OwnBox

LEMMA HostTidy ==
    ASSUME HostIInv, Tidy
    PROVE  HostIInv'
<1> USE DEF HostIInv
<1>1. /\ call.pc = "tidy" /\ call.out \in Out
      /\ UNCHANGED <<host, edits, calls, lab, ended, left>>
  BY DEF Tidy, HostTypes, Call
<1>2. PICK stuck \in SUBSET Discarded, open \in SUBSET OwnBox :
        /\ Tells(call.out) \/ Refuses
        /\ Discards(stuck)
        /\ boxes' = Restrict(boxes, DOMAIN boxes \ (OwnBox \ open))
        /\ adrift' = {a \in adrift : a[2] \notin OwnBox \ open}
        /\ lost' = lost \union Copies(stuck) \union Boxes(open)
  BY DEF Tidy
<1>3. call' = NoCall /\ report' \in Report
  BY <1>1, <1>2, ReportTypes
<1>4. CallIsKnown' /\ call'.dir = 0 /\ call'.box = 0 /\ call' \in Call
  BY <1>3, CallOver
<1>5. /\ OwnBox \intersect {lab.container, lab.session} = {}
      /\ OwnBox \subseteq {call.box}
      /\ OwnBox = {} => call.box \in {0, lab.container}
  BY <1>1, OwnBoxIsOwn
<1>6. /\ DOMAIN boxes' = DOMAIN boxes \ (OwnBox \ open)
      /\ \A b \in DOMAIN boxes' : boxes'[b] = boxes[b]
  BY <1>2, OnlySome
<1>7. adrift' \subseteq CallId \X DOMAIN boxes'
  BY <1>2, <1>6 DEF HostTypes
<1>8. \A b \in DOMAIN boxes' :
         b \in {lab.container, lab.session} \/ <<"box", b>> \in lost'
  <2>1. \A b \in open : <<"box", b>> \in lost'
    BY <1>2 DEF Boxes
  <2>2. 0 \notin DOMAIN boxes
    BY DEF HostTypes
  <2>3. QED
    BY <1>2, <1>5, <1>6, <2>1, <2>2 DEF NothingIsForgotten
<1>9. /\ DOMAIN dirs' \subseteq DOMAIN dirs
      /\ \A d \in DOMAIN dirs' : dirs'[d] = dirs[d]
      /\ \A d \in DOMAIN dirs' : d = lab.snap \/ <<"copy", d>> \in lost'
      /\ lab.snap # 0 => lab.snap \in DOMAIN dirs'
  BY <1>1, <1>2, DiscardEffect
<1>10. HostTypes'
  BY <1>1, <1>3, <1>4, <1>5, <1>6, <1>7, <1>9 DEF HostTypes, Lab
<1>11. SnapIsThere' /\ NothingIsForgotten'
  BY <1>1, <1>4, <1>8, <1>9 DEF SnapIsThere, NothingIsForgotten
<1>12. QED
  BY <1>4, <1>10, <1>11

(* A copy that fails, and what it leaves when it cannot be removed.        *)
LEMMA HostCopyFails ==
    ASSUME HostIInv, CopyFails
    PROVE  HostIInv'
<1> USE DEF HostIInv
<1>1. /\ call.pc = "copy" /\ call.id = calls /\ calls \in CallId /\ Refuses
      /\ call.dir = 0 /\ call.box = 0 /\ call.src \in Source
      /\ UNCHANGED <<host, edits, calls, boxes, lab, adrift, ended, left>>
  BY DEF CopyFails, CallIsKnown, HostTypes, CallId
<1>2. call' = NoCall /\ report' \in Report
  BY <1>1, ReportTypes
<1>3. CallIsKnown' /\ call'.dir = 0 /\ call'.box = 0 /\ call' \in Call
  BY <1>2, CallOver
<1>4. \/ UNCHANGED <<dirs, lost>>
      \/ /\ dirs' = Also(dirs, calls, CopyNow)
         /\ lost \subseteq lost' /\ <<"copy", calls>> \in lost'
  BY <1>1 DEF CopyFails, Copies
<1>5. /\ DOMAIN dirs' \subseteq 1..calls /\ DOMAIN dirs \subseteq DOMAIN dirs'
      /\ \A d \in DOMAIN dirs' : dirs'[d] \in Copied
      /\ lost \subseteq lost'
      /\ \A d \in DOMAIN dirs' : d \in DOMAIN dirs \/ <<"copy", d>> \in lost'
  <2>1. CopyNow \in Copied
    BY <1>1, CopyNowType
  <2>2. QED
    BY <1>1, <1>4, <2>1 DEF Also, HostTypes, CallId
<1>6. HostTypes'
  BY <1>1, <1>2, <1>3, <1>5 DEF HostTypes, Lab
<1>7. SnapIsThere' /\ NothingIsForgotten'
  <2>1. 0 \notin DOMAIN dirs /\ 0 \notin DOMAIN boxes
    BY DEF HostTypes
  <2>2. QED
    BY <1>1, <1>3, <1>5, <2>1 DEF SnapIsThere, NothingIsForgotten
<1>8. QED
  BY <1>3, <1>6, <1>7

(* An export, and what other hands do.                                     *)
LEMMA HostAside ==
    ASSUME HostIInv, CommandRefused \/ Export \/ Edit
    PROVE  HostIInv'
<1> USE DEF HostIInv
<1>1. UNCHANGED <<host, dirs, boxes, lab, adrift, ended, lost, left>>
  BY DEF CommandRefused, Export, Edit
<1>2. CASE CommandRefused
  <2>1. Refuses /\ UNCHANGED <<edits, calls>>
    BY <1>2 DEF CommandRefused
  <2>2. call' = NoCall /\ report' \in Report
    BY <2>1, ReportTypes
  <2>3. CallIsKnown' /\ call'.dir = 0 /\ call'.box = 0 /\ call' \in Call
    BY <2>2, CallOver
  <2>4. /\ call.box = 0
        /\ call.dir = lab.snap
    BY <1>2 DEF CommandRefused, CallIsKnown
  <2>5. HostTypes'
    BY <1>1, <2>1, <2>2, <2>3 DEF HostTypes, Lab
  <2>6. SnapIsThere' /\ NothingIsForgotten'
    BY <1>1, <2>3, <2>4 DEF SnapIsThere, NothingIsForgotten, HostTypes
  <2>7. QED
    BY <2>3, <2>5, <2>6
<1>3. CASE Export
  <2>1. /\ call = NoCall /\ call' = call /\ edits' = edits
        /\ calls' = calls + 1 /\ calls' \in 0..MaxCalls /\ calls \in Nat
    BY <1>3, SandboxAssumption DEF Export, CallIsKnown, HostTypes
  <2>2. Packed \in Content
    <3>1. lab.session # 0 => boxes[lab.session].files \in Content
      BY DEF HostTypes, Lab, Box
    <3>2. InDir(lab.snap) \in Content
      BY Contents DEF InDir, HostTypes
    <3>3. QED
      BY <3>1, <3>2 DEF Packed
  <2>3. report' \in Report
    <3>1. NoReport \in Report
      BY Contents DEF NoReport, Report, Out
    <3>2. lab.src \in Source \union {"none"}
      BY DEF HostTypes, Lab
    <3>3. QED
      BY <1>3, <2>2, <3>1, <3>2 DEF Export, Report, Out
  <2>4. HostTypes'
    BY <1>1, <2>1, <2>3 DEF HostTypes, Lab
  <2>5. CallIsKnown'
    BY <2>1, CallOver
  <2>6. SnapIsThere' /\ NothingIsForgotten'
    BY <1>1, <2>1 DEF SnapIsThere, NothingIsForgotten
  <2>7. QED
    BY <2>4, <2>5, <2>6
<1>4. CASE Edit
  <2>1. edits' \in 0..MaxEdits /\ UNCHANGED <<calls, call, report>>
    BY <1>4, SandboxAssumption DEF Edit, HostTypes
  <2>2. HostTypes'
    BY <1>1, <2>1 DEF HostTypes, Lab
  <2>3. QED
    BY <1>1, <2>1, <2>2
       DEF CallIsKnown, BoxOfCall, BackendOf, SnapIsThere, NothingIsForgotten
<1>5. QED
  BY <1>2, <1>3, <1>4

(* The end of the execution: what is left is what could not be removed.    *)
LEMMA HostForgets ==
    ASSUME HostIInv, Cleanup \/ Kill
    PROVE  HostIInv'
<1> USE DEF HostIInv
<1>1. Forgets /\ UNCHANGED <<host, edits, calls>> /\ call' = NoCall
  BY DEF Cleanup, Kill, CallIsKnown
<1>2. left' = {}
  <2>1. CASE Kill
    BY <2>1 DEF Kill, NothingIsForgotten
  <2>2. CASE Cleanup
    <3>1. PICK failed \in SUBSET {x \in Removable : lab[x] # 0} :
            LET removed  == Removable \ failed
                boxesNow == DOMAIN boxes \ {lab[x] : x \in removed \ {"snap"}}
                dirsNow  == IF "snap" \in removed THEN DOMAIN dirs \ {lab.snap}
                            ELSE DOMAIN dirs
                excused  == lost \union UNION {Named(x) : x \in failed}
            IN  left' = left \union
                        ((Boxes(boxesNow) \union Copies(dirsNow)) \ excused)
      BY <2>2 DEF Cleanup
    <3> DEFINE removed  == Removable \ failed
               boxesNow == DOMAIN boxes \ {lab[x] : x \in removed \ {"snap"}}
               dirsNow  == IF "snap" \in removed THEN DOMAIN dirs \ {lab.snap}
                           ELSE DOMAIN dirs
               excused  == lost \union UNION {Named(x) : x \in failed}
    <3>2. call.dir = 0 /\ call.box = 0
      BY <2>2 DEF Cleanup, CallIsKnown, NoCall
    <3>3. /\ \A d \in DOMAIN dirs : d = lab.snap \/ <<"copy", d>> \in lost
          /\ \A b \in DOMAIN boxes :
                b \in {lab.container, lab.session} \/ <<"box", b>> \in lost
      BY <3>2 DEF NothingIsForgotten, HostTypes
    <3>4. \A x \in failed : Named(x) \subseteq excused
      OBVIOUS
    <3>5. \A b \in boxesNow : <<"box", b>> \in excused
      <4> TAKE b \in boxesNow
      <4>1. b \notin {lab[x] : x \in removed \ {"snap"}} /\ b \in DOMAIN boxes
        OBVIOUS
      <4>2. \A x \in {"session", "container"} : b = lab[x] => x \in failed
        BY <4>1 DEF Removable
      <4>3. \A x \in {"session", "container"} :
               b = lab[x] => <<"box", b>> \in Named(x)
        BY DEF Named, Boxes
      <4>4. CASE <<"box", b>> \in lost
        BY <4>4
      <4>5. CASE b = lab["container"]
        BY <3>4, <4>2, <4>3, <4>5
      <4>6. CASE b = lab["session"]
        BY <3>4, <4>2, <4>3, <4>6
      <4>7. QED
        BY <3>3, <4>1, <4>4, <4>5, <4>6
    <3>6. \A d \in dirsNow : <<"copy", d>> \in excused
      <4> TAKE d \in dirsNow
      <4>1. CASE <<"copy", d>> \in lost
        BY <4>1
      <4>2. CASE d = lab.snap
        <5>1. "snap" \in failed
          BY <4>2 DEF Removable
        <5>2. <<"copy", d>> \in Named("snap")
          BY <4>2 DEF Named, Copies
        <5>3. QED
          BY <3>4, <5>1, <5>2
      <4>3. QED
        BY <3>3, <4>1, <4>2
    <3>7. left' = left \union ((Boxes(boxesNow) \union Copies(dirsNow)) \ excused)
      BY <3>1
    <3>8. left = {}
      BY DEF NothingIsForgotten
    <3> HIDE DEF boxesNow, dirsNow, excused
    <3>9. Boxes(boxesNow) \subseteq excused /\ Copies(dirsNow) \subseteq excused
      BY <3>5, <3>6 DEF Boxes, Copies
    <3>10. QED
      BY <3>7, <3>8, <3>9
  <2>3. QED
    BY <2>1, <2>2
<1>3. CallIsKnown' /\ call'.dir = 0 /\ call'.box = 0 /\ call' \in Call
  BY <1>1, CallOver
<1>4. /\ lab' = NoLab /\ report' = NoReport /\ DOMAIN dirs' = {}
      /\ DOMAIN boxes' = {} /\ adrift' = {} /\ ended' = {} /\ lost' = {}
  BY <1>1, NothingLeft DEF Forgets
<1>5. lab' \in Lab' /\ lab'.snap = 0 /\ report' \in Report
  BY <1>4, Contents, SandboxAssumption DEF NoLab, Lab, NoReport, Report, Out
<1>6. HostTypes'
  BY <1>1, <1>3, <1>4, <1>5 DEF HostTypes
<1>7. QED
  BY <1>2, <1>3, <1>4, <1>5, <1>6 DEF SnapIsThere, NothingIsForgotten

LEMMA HostStep == HostIInv /\ [SandboxNext]_vars => HostIInv'
<1> SUFFICES ASSUME HostIInv, [SandboxNext]_vars PROVE HostIInv'
  OBVIOUS
<1>1. CASE UNCHANGED vars
  BY <1>1 DEF vars, HostIInv, HostTypes, Lab, CallIsKnown, BoxOfCall, BackendOf,
              SnapIsThere, NothingIsForgotten
<1>2. CASE SandboxNext
  BY <1>2, HostBegin, HostCopy, HostEnter, HostStartBox, HostFails, HostWork,
     HostLinger, HostOver, HostTidy, HostCopyFails, HostAside, HostForgets DEF SandboxNext
<1>3. QED
  BY <1>1, <1>2

THEOREM HostInvariance == SandboxSpec => []HostIInv
  BY HostInit, HostStep, PTL DEF SandboxSpec

(* Nothing an execution makes is forgotten, on any host: a copy, container *)
(* or microVM has a name that _cleanup_sandbox_state or a finally clause   *)
(* removes it by, unless its own start or removal failed.                  *)
THEOREM HostTheorem == SandboxSpec => []HostIsKnown
<1>1. HostIInv => HostIsKnown
  <2> SUFFICES ASSUME HostIInv PROVE HostIsKnown
    OBVIOUS
  <2>1. SandboxTypeOK
    <3>1. /\ \A d \in DOMAIN dirs : d \in CallId /\ dirs[d] \in Content \ {Gone}
          /\ \A b \in DOMAIN boxes : b \in CallId
      BY Contents, SandboxAssumption DEF HostIInv, HostTypes, CallId
    <3>2. lab.snap \in {0} \union CallId
      BY <3>1 DEF HostIInv, SnapIsThere
    <3>3. QED
      BY <3>1, <3>2
         DEF HostIInv, HostTypes, SandboxTypeOK, Lab, Call, Report, Box
  <2>2. QED
    BY <2>1 DEF HostIInv, HostIsKnown
<1>2. QED
  BY <1>1, HostInvariance, PTL
-------------------------------------------------------------------------------
(* What is in the place of the commands.                                   *)
LEMMA PlaceOfCommands ==
    ASSUME BoxesOfCommands, Fits
    PROVE  CommandPlace = IF lab.session # 0 /\ host.guest
                          THEN boxes[lab.session].files ELSE InDir(lab.snap)
<1>1. CASE lab.session # 0
  BY <1>1 DEF BoxesOfCommands, CommandPlace, CommandBox, WorksOn
<1>2. CASE host.command = "docker" /\ lab.container # 0
  <2>1. boxes[lab.container].dir = lab.snap /\ ~HasFiles(lab.container)
    BY <1>2 DEF Fits, ContainerFits, BackendOf, BoxesOfCommands
  <2>2. lab.session = 0 /\ CommandBox = lab.container
    BY <1>2 DEF BoxesOfCommands, CommandBox
  <2>3. QED
    BY <1>2, <2>1, <2>2 DEF CommandPlace, WorksOn
<1>3. CASE lab.session = 0 /\ ~(host.command = "docker" /\ lab.container # 0)
  <2>1. CommandBox = 0
    BY <1>3 DEF CommandBox
  <2>2. QED
    BY <1>3, <2>1 DEF CommandPlace, WorksOn
<1>4. QED
  BY <1>1, <1>2, <1>3

(* A step that leaves the copy and the boxes of the commands in their      *)
(* place, with at least the work that is in them.                          *)
PlaceKept ==
    /\ UNCHANGED <<host, ended>>
    /\ lab'.snap = lab.snap /\ lab'.src = lab.src
    /\ lab'.session = lab.session
    /\ lab'.backend \in {lab.backend, host.command, "docker"}
    /\ lab.snap # 0 => lab.snap \in DOMAIN dirs' /\ Grown(dirs[lab.snap], dirs'[lab.snap])
    /\ lab.session # 0 =>
          LET b == lab.session
          IN  /\ boxes'[b].dir = boxes[b].dir
              /\ boxes'[b].files = Gone <=> boxes[b].files = Gone
              /\ Grown(boxes[b].files, boxes'[b].files)
    /\ lab'.container # 0 => boxes'[lab'.container].files = Gone
    /\ \A b \in DOMAIN boxes' : boxes'[b].dir <= b

(* Most steps leave the container as it is, too.                           *)
ContainerKept ==
    lab'.container = lab.container
    /\ (lab.container # 0 =>
          boxes'[lab.container].dir = boxes[lab.container].dir)

LEMMA FitsKept ==
    ASSUME PlaceKept, ContainerKept
    PROVE  /\ Fits' = Fits
           /\ lab'.backend = lab.backend => PlaceIsTheirs' = PlaceIsTheirs
           /\ calls' = calls =>
                 ContainerFits("tests", calls)' = ContainerFits("tests", calls)
  BY DEF PlaceKept, ContainerKept, Fits, PlaceIsTheirs, ContainerFits, BackendOf

LEMMA PlaceFrame ==
    ASSUME LabIInv, PlaceKept, Fits' => Fits
    PROVE  BoxesOfCommands' /\ PlaceHasWork'
<1> USE DEF LabIInv, HostIInv
<1>1. BoxesOfCommands'
  BY DEF PlaceKept, BoxesOfCommands, HasFiles
<1>2. Fits => CommandPlace = (IF lab.session # 0 /\ host.guest
                              THEN boxes[lab.session].files ELSE InDir(lab.snap))
  BY PlaceOfCommands
<1>3. Fits' => CommandPlace' = (IF lab.session # 0 /\ host.guest
                                THEN boxes'[lab.session].files ELSE InDir(lab.snap)')
  <2> SUFFICES ASSUME Fits'
               PROVE  CommandPlace' = (IF lab.session # 0 /\ host.guest
                                       THEN boxes'[lab.session].files
                                       ELSE InDir(lab.snap)')
    OBVIOUS
  <2>1. CASE lab.session # 0
    BY <1>1, <2>1
       DEF PlaceKept, BoxesOfCommands, CommandPlace, CommandBox, WorksOn
  <2>2. CASE host.command = "docker" /\ lab'.container # 0
    <3>1. boxes'[lab'.container].dir = lab.snap /\ boxes'[lab'.container].files = Gone
      BY <2>2 DEF Fits, ContainerFits, BackendOf, PlaceKept
    <3>2. lab.session = 0 /\ CommandBox' = lab'.container
      BY <2>2 DEF BoxesOfCommands, CommandBox, PlaceKept
    <3>3. QED
      BY <2>2, <3>1, <3>2 DEF CommandPlace, WorksOn, HasFiles, InDir, PlaceKept
  <2>3. CASE lab.session = 0 /\ ~(host.command = "docker" /\ lab'.container # 0)
    <3>1. CommandBox' = 0
      BY <2>3 DEF CommandBox, PlaceKept
    <3>2. QED
      BY <2>3, <3>1 DEF CommandPlace, WorksOn, PlaceKept
  <2>4. QED
    BY <2>1, <2>2, <2>3
<1>4. ASSUME lab.snap # 0, Fits' PROVE Grown(CommandPlace, CommandPlace')
  <2>1. InDir(lab.snap) = dirs[lab.snap] /\ InDir(lab.snap)' = dirs'[lab.snap]
    BY <1>4 DEF InDir, SnapIsThere, PlaceKept
  <2>2. QED
    BY <1>2, <1>3, <1>4, <2>1 DEF PlaceKept
<1>5. ASSUME lab.snap # 0, Fits'
      PROVE  CommandPlace'.src = CommandPlace.src
             /\ CommandPlace.work \subseteq CommandPlace'.work
  <2>1. CommandPlace \in Content
    <3>1. lab.session # 0 => boxes[lab.session].files \in Content
      BY DEF HostTypes, Lab, Box
    <3>2. InDir(lab.snap) \in Content
      BY Contents DEF InDir, HostTypes
    <3>3. QED
      BY <1>2, <1>5, <3>1, <3>2
  <2>2. \A x \in Content : \A y :
         Grown(x, y) => y.src = x.src /\ x.work \subseteq y.work
    BY DEF Grown, Content, Gone
  <2>3. QED
    BY <1>4, <1>5, <2>1, <2>2
<1>6. PlaceHasWork'
  BY <1>5 DEF PlaceHasWork, PlaceKept
<1>7. QED
  BY <1>1, <1>6

(* What does not change does not shrink.                                   *)
LEMMA SameGrown ==
    ASSUME HostTypes
    PROVE  /\ \A d \in DOMAIN dirs : Grown(dirs[d], dirs[d])
           /\ \A b \in DOMAIN boxes : Grown(boxes[b].files, boxes[b].files)
           /\ \A b \in {lab.container, lab.session} \ {0} : b \in DOMAIN boxes
<1>1. \A x \in Content : Grown(x, x)
  BY Contents DEF Copied, Grown, Gone
<1>2. QED
  BY <1>1, Contents DEF HostTypes, Box, Lab

(* A step that changes neither the copy nor the boxes of the commands.     *)
LEMMA PlaceSame ==
    ASSUME LabIInv, UNCHANGED <<host, boxes, lab, ended>>,
           \A d \in DOMAIN dirs \ {calls} : d \in DOMAIN dirs' /\ dirs'[d] = dirs[d],
           lab.snap # calls \/ UNCHANGED dirs
    PROVE  /\ BoxesOfCommands' /\ PlaceHasWork' /\ Fits' = Fits
           /\ PlaceIsTheirs' = PlaceIsTheirs
           /\ calls' = calls =>
                 ContainerFits("tests", calls)' = ContainerFits("tests", calls)
<1>1. HostTypes /\ SnapIsThere /\ BoxesOfCommands
  BY DEF LabIInv, HostIInv
<1>2. PlaceKept /\ ContainerKept /\ lab'.backend = lab.backend
  BY <1>1, SameGrown
     DEF PlaceKept, ContainerKept, BoxesOfCommands, SnapIsThere, HasFiles
<1>3. QED
  BY <1>2, FitsKept, PlaceFrame

LEMMA LabInit == SandboxInit => LabIInv
<1> SUFFICES ASSUME SandboxInit PROVE LabIInv
  OBVIOUS
<1>1. /\ lab.snap = 0 /\ lab.container = 0 /\ lab.session = 0 /\ DOMAIN boxes = {}
      /\ call.kind = "none" /\ report.kind = "none" /\ ended = {}
  BY NothingLeft DEF SandboxInit, NoLab, NoCall, NoReport
<1>2. QED
  BY <1>1, HostInit DEF LabIInv, BoxesOfCommands, PlaceHasWork, CallSharesWork,
        CopyIsFresh, FittingTestsSeeTheirCopy, TestsSeeTheirCopy,
        CommandsShareTheirWork

(* Once a call is over, and refused, there is nothing to say of it.        *)
LEMMA RefusedCall ==
    ASSUME call' = NoCall, report'.out = "refused"
    PROVE  /\ CallSharesWork' /\ CopyIsFresh'
           /\ FittingTestsSeeTheirCopy' /\ CommandsShareTheirWork'
  BY DEF NoCall, CallSharesWork, CopyIsFresh, FittingTestsSeeTheirCopy,
         TestsSeeTheirCopy, CommandsShareTheirWork

LEMMA RefusesOut ==
    ASSUME Refuses
    PROVE  call' = NoCall /\ report'.out = "refused" /\ report'.kind = call.kind
  BY DEF Refuses, NoReport

(* Nor is there while it is under way.                                     *)
LEMMA NothingTold ==
    ASSUME report' = NoReport
    PROVE  FittingTestsSeeTheirCopy' /\ CommandsShareTheirWork'
  BY DEF NoReport, FittingTestsSeeTheirCopy, TestsSeeTheirCopy,
         CommandsShareTheirWork

LEMMA LabBegin ==
    ASSUME LabIInv, NEW kind \in {"command", "tests"}, NEW src \in Source,
           Begin(kind, src)
    PROVE  LabIInv'
<1>1. HostIInv'
  BY HostBegin DEF LabIInv
<1>2. UNCHANGED <<host, dirs, boxes, lab, ended>> /\ call = NoCall
  BY DEF Begin, LabIInv, HostIInv, CallIsKnown
<1>3. BoxesOfCommands' /\ PlaceHasWork'
  BY <1>2, PlaceSame
<1>4. /\ FittingTestsSeeTheirCopy' /\ CommandsShareTheirWork'
      /\ CallSharesWork' /\ CopyIsFresh'
  <2>1. CASE kind = "command" /\ lab.snap # 0 /\ lab.src # src
    BY <1>2, <2>1, RefusedCall DEF Begin, NoReport
  <2>2. CASE ~(kind = "command" /\ lab.snap # 0 /\ lab.src # src)
    <3>1. /\ report' = NoReport /\ call'.kind = kind /\ call'.src = src
          /\ call'.pc = IF kind = "command" /\ lab.snap # 0 THEN "box" ELSE "copy"
      BY <2>2 DEF Begin
    <3>2. CallSharesWork' /\ CopyIsFresh'
      BY <1>2, <2>2, <3>1 DEF CallSharesWork, CopyIsFresh
    <3>3. QED
      BY <3>1, <3>2, NothingTold
  <2>3. QED
    BY <2>1, <2>2
<1>5. QED
  BY <1>1, <1>3, <1>4 DEF LabIInv

LEMMA LabCopy ==
    ASSUME LabIInv, Copy
    PROVE  LabIInv'
<1>1. HostIInv' /\ HostIInv /\ HostTypes /\ BoxesOfCommands
  BY HostCopy DEF LabIInv, HostIInv
<1>2. /\ call.pc = "copy" /\ call.id = calls /\ call.kind \in {"command", "tests"}
      /\ call.src \in Source /\ calls >= 1 /\ report' = NoReport
      /\ calls \notin DOMAIN boxes
      /\ UNCHANGED <<host, calls, boxes, ended>>
  BY <1>1 DEF Copy, HostIInv, CallIsKnown
<1>3. /\ call'.pc = "box" /\ call'.kind = call.kind /\ call'.src = call.src
      /\ call'.dir = calls
  BY <1>1, <1>2 DEF Copy, HostTypes, Call
<1>4. /\ dirs'[calls] = CopyNow /\ calls \in DOMAIN dirs'
      /\ DOMAIN dirs \subseteq DOMAIN dirs'
      /\ \A d \in DOMAIN dirs \ {calls} : dirs'[d] = dirs[d]
      /\ CopyNow.work = {} /\ CopyNow.src = call.src
  BY <1>2 DEF Copy, Also, CopyNow
<1>5. FittingTestsSeeTheirCopy' /\ CommandsShareTheirWork'
  BY <1>2, NothingTold
<1>6. CASE call.kind = "tests"
  <2>1. lab' = lab /\ lab.snap # calls
    BY <1>1, <1>2, <1>6 DEF Copy, HostIInv, CallIsKnown
  <2>2. BoxesOfCommands' /\ PlaceHasWork'
    BY <1>2, <1>4, <2>1, PlaceSame
  <2>3. CallSharesWork' /\ CopyIsFresh'
    BY <1>3, <1>4, <1>6 DEF CallSharesWork, CopyIsFresh
  <2>4. QED
    BY <1>1, <1>5, <2>2, <2>3 DEF LabIInv
<1>7. CASE call.kind = "command"
  <2>1. lab.snap = 0 /\ lab.session = 0 /\ ended = {}
    BY <1>1, <1>2, <1>7
       DEF HostIInv, CallIsKnown, BoxesOfCommands, LabIInv, PlaceHasWork
  <2>2. /\ lab'.snap = calls /\ lab'.src = call.src
        /\ lab'.container = lab.container /\ lab'.session = 0
    BY <1>1, <1>2, <1>7, <2>1 DEF Copy, HostTypes, Lab
  <2>3. BoxesOfCommands'
    BY <1>1, <1>2, <2>2 DEF BoxesOfCommands, HasFiles
  <2>4. Fits' => CommandPlace' = CopyNow
    <3>1. ASSUME lab.container # 0 PROVE boxes[lab.container].dir # calls
      <4>1. /\ lab.container \in DOMAIN boxes /\ lab.container \in 1..calls
            /\ boxes[lab.container].dir <= lab.container
            /\ boxes[lab.container].dir \in Int /\ calls \in Int
        BY <1>1, <1>2, <3>1 DEF HostTypes, Lab, BoxesOfCommands, Box, CallId
      <4>2. lab.container # calls
        BY <1>2, <4>1
      <4>3. QED
        BY <4>1, <4>2
    <3>2. Fits' => CommandBox' = 0
      BY <1>2, <2>2, <3>1 DEF CommandBox, Fits, ContainerFits, BackendOf
    <3>3. QED
      BY <1>4, <2>2, <3>2 DEF CommandPlace, WorksOn, InDir
  <2>5. PlaceHasWork'
    BY <1>2, <1>4, <2>1, <2>2, <2>4 DEF PlaceHasWork
  <2>6. CallSharesWork' /\ CopyIsFresh'
    BY <1>3, <1>7, <2>2 DEF CallSharesWork, CopyIsFresh
  <2>7. QED
    BY <1>1, <1>5, <2>3, <2>5, <2>6 DEF LabIInv
<1>8. QED
  BY <1>2, <1>6, <1>7

(* What a call that runs or enters works on.                               *)
LEMMA OwnCopy ==
    ASSUME HostIInv, call.pc \in {"box", "run", "tidy"}
    PROVE  /\ call.dir \in DOMAIN dirs /\ InDir(call.dir) = dirs[call.dir]
           /\ InDir(call.dir) # Gone /\ InDir(call.dir) \in Copied
           /\ call.kind \in {"command", "tests"} /\ call.id = calls
           /\ call.src \in Source /\ report = NoReport
           /\ call.kind = "command" => call.dir = lab.snap /\ lab.snap # 0
           /\ call.kind = "tests" => call.dir = calls /\ lab.snap # calls
<1>1. call.dir \in DOMAIN dirs /\ call.dir # 0
  BY DEF HostIInv, HostTypes, CallIsKnown
<1>2. QED
  BY <1>1, Contents DEF HostIInv, HostTypes, CallIsKnown, InDir

(* The container a test run finds is older than its copy.                  *)
LEMMA FoundIsOlder ==
    ASSUME HostIInv, BoxesOfCommands, calls \notin DOMAIN boxes, calls >= 1
    PROVE  /\ \A b \in DOMAIN boxes : boxes[b].dir # calls
           /\ host.tests = "docker" /\ lab.container # 0 =>
                 ~ContainerFits("tests", calls)
<1>1. \A b \in DOMAIN boxes : /\ b \in 1..calls /\ boxes[b].dir <= b
                              /\ boxes[b].dir \in Int /\ calls \in Int
  BY DEF HostIInv, HostTypes, Box, CallId, BoxesOfCommands
<1>2. \A b \in DOMAIN boxes : b # calls
  OBVIOUS
<1>3. \A b \in DOMAIN boxes : boxes[b].dir # calls
  BY <1>1, <1>2
<1>4. lab.container # 0 => lab.container \in DOMAIN boxes
  BY DEF HostIInv, HostTypes, Lab
<1>5. QED
  BY <1>3, <1>4 DEF ContainerFits, BackendOf

LEMMA LabEnter ==
    ASSUME LabIInv, Enter
    PROVE  LabIInv'
<1> USE DEF LabIInv
<1>1. HostIInv' /\ HostIInv /\ HostTypes
  BY HostEnter DEF HostIInv
<1>2. /\ call.pc = "box" /\ UNCHANGED <<host, calls, dirs, boxes, ended, report>>
      /\ lab' = Noted
  BY DEF Enter
<1>3. PlaceKept /\ ContainerKept
  BY <1>1, <1>2, SameGrown, NotedEffect
     DEF PlaceKept, ContainerKept, BoxesOfCommands, HasFiles, HostIInv, SnapIsThere
<1>4. /\ BoxesOfCommands' /\ PlaceHasWork' /\ Fits' = Fits
      /\ ContainerFits("tests", calls)' = ContainerFits("tests", calls)
  BY <1>2, <1>3, FitsKept, PlaceFrame
<1>5. FittingTestsSeeTheirCopy' /\ CommandsShareTheirWork'
  BY <1>1, <1>2, OwnCopy, NothingTold
<1>6. /\ call'.pc = "run" /\ call'.kind = call.kind /\ call'.src = call.src
      /\ call'.dir = call.dir /\ call'.seen = WorksOn(call.dir, Kept)
  BY <1>1 DEF Enter, Runs, HostTypes, Call
<1>7. CASE call.kind = "command"
  <2>1. Kept = CommandBox
    BY <1>1, <1>7, SandboxAssumption
       DEF Kept, CommandBox, BackendOf, HostTypes, Backend
  <2>2. call'.seen = CommandPlace
    BY <1>1, <1>2, <1>6, <1>7, <2>1, OwnCopy DEF CommandPlace
  <2>3. CallSharesWork' /\ CopyIsFresh'
    BY <1>1, <1>2, <1>4, <1>6, <1>7, <2>2, OwnCopy, NotedEffect
       DEF CallSharesWork, CopyIsFresh, PlaceHasWork
  <2>4. QED
    BY <1>1, <1>4, <1>5, <2>3
<1>8. CASE call.kind = "tests"
  <2>1. ContainerFits("tests", calls) => Kept = 0
    <3>1. host.tests = "docker" /\ lab.container # 0 => ~ContainerFits("tests", calls)
      BY <1>1, <1>2, FoundIsOlder DEF HostIInv, CallIsKnown
    <3>2. QED
      BY <1>8, <3>1 DEF Kept, BackendOf
  <2>2. /\ Kept = 0 => call'.seen = dirs[call.dir]
        /\ dirs[call.dir].work = {} /\ dirs[call.dir] \in Copied
    BY <1>1, <1>2, <1>6, <1>8, OwnCopy DEF WorksOn, CopyIsFresh
  <2>3. [dirs[call.dir] EXCEPT !.work = {}] = dirs[call.dir]
    BY <2>2 DEF Copied
  <2>4. CallSharesWork' /\ CopyIsFresh'
    BY <1>2, <1>4, <1>6, <1>8, <2>1, <2>2, <2>3 DEF CallSharesWork, CopyIsFresh
  <2>5. QED
    BY <1>1, <1>4, <1>5, <2>4
<1>9. QED
  BY <1>1, <1>2, <1>7, <1>8, OwnCopy

(* A container or microVM that starts is made out of the copy of the call. *)
LEMMA LabStartBox ==
    ASSUME LabIInv, StartBox
    PROVE  LabIInv'
<1> USE DEF LabIInv
<1>1. HostIInv' /\ HostIInv /\ HostTypes
  BY HostStartBox DEF HostIInv
<1>2. /\ call.pc = "box" /\ UNCHANGED <<host, calls, dirs, ended, report>>
      /\ BackendOf(call.kind) # "direct" /\ Kept = 0
      /\ boxes' = Also(boxes, call.id, NewBox)
  BY DEF StartBox, Needed
<1>3. /\ calls \notin DOMAIN boxes /\ calls \in CallId /\ call.id = calls
      /\ DOMAIN boxes' = {calls} \union DOMAIN boxes
      /\ boxes'[calls] = NewBox /\ calls # 0
      /\ \A b \in DOMAIN boxes : boxes'[b] = boxes[b]
  BY <1>1, <1>2, NewBoxEffect DEF CallId
<1>4. FittingTestsSeeTheirCopy' /\ CommandsShareTheirWork'
  BY <1>1, <1>2, OwnCopy, NothingTold
<1>5. /\ call'.pc = "run" /\ call'.kind = call.kind /\ call'.src = call.src
      /\ call'.dir = call.dir /\ call'.seen = InDir(call.dir)
  BY <1>1 DEF StartBox, Runs, HostTypes, Call
<1>6. NewBox.dir <= calls /\ NewBox.dir = call.dir
  BY <1>1, <1>2, OwnCopy DEF NewBox, HostTypes
<1>7. /\ \A b \in {lab.container, lab.session} \ {0} :
            /\ b \in DOMAIN boxes /\ boxes'[b] = boxes[b]
            /\ Grown(boxes[b].files, boxes[b].files)
      /\ \A b \in DOMAIN boxes' : boxes'[b].dir <= b
      /\ lab.snap # 0 => lab.snap \in DOMAIN dirs
                         /\ Grown(dirs[lab.snap], dirs[lab.snap])
      /\ lab.container # 0 => boxes[lab.container].files = Gone
  BY <1>1, <1>3, <1>6, SameGrown
     DEF BoxesOfCommands, HostIInv, SnapIsThere, HasFiles
<1>8. CASE call.kind = "tests"
  <2>1. /\ lab'.snap = lab.snap /\ lab'.src = lab.src /\ lab'.session = lab.session
        /\ lab'.backend \in {lab.backend, "docker"}
        /\ IF host.tests = "docker"
           THEN lab.container = 0 /\ lab'.container = calls /\ NewBox.files = Gone
           ELSE lab'.container = lab.container
    <3>1. CASE host.tests = "docker"
      <4>1. lab' = [lab EXCEPT !.container = calls, !.backend = "docker"]
        BY <1>3, <1>8, <3>1 DEF StartBox, BackendOf
      <4>2. lab.container = 0 /\ NewBox.files = Gone
        BY <1>2, <1>8, <3>1 DEF Kept, BackendOf, NewBox
      <4>3. QED
        BY <1>1, <3>1, <4>1, <4>2 DEF HostTypes, Lab
    <3>2. CASE host.tests # "docker"
      BY <1>8, <3>2 DEF StartBox, BackendOf
    <3>3. QED
      BY <3>1, <3>2
  <2>2. PlaceKept
    BY <1>2, <1>3, <1>7, <2>1 DEF PlaceKept
  <2>3. Fits' => Fits
    <3>1. CASE host.tests = "docker"
      <4>1. boxes'[calls].dir = calls /\ lab.snap # calls
        BY <1>1, <1>2, <1>3, <1>6, <1>8, OwnCopy
      <4>2. QED
        BY <1>2, <1>3, <2>1, <3>1, <4>1 DEF Fits, ContainerFits, BackendOf
    <3>2. CASE host.tests # "docker"
      BY <1>2, <1>7, <2>1, <3>2 DEF Fits, ContainerFits, BackendOf
    <3>3. QED
      BY <3>1, <3>2
  <2>4. call'.seen = dirs[call.dir] /\ dirs[call.dir].work = {}
        /\ dirs[call.dir] \in Copied
    BY <1>1, <1>2, <1>5, <1>8, OwnCopy DEF CopyIsFresh
  <2>5. [dirs[call.dir] EXCEPT !.work = {}] = dirs[call.dir]
    BY <2>4 DEF Copied
  <2>6. CallSharesWork' /\ CopyIsFresh'
    BY <1>2, <1>5, <1>8, <2>4, <2>5 DEF CallSharesWork, CopyIsFresh
  <2>7. QED
    BY <1>1, <1>4, <2>2, <2>3, <2>6, PlaceFrame
<1>9. CASE call.kind = "command"
  <2>1. /\ BackendOf(call.kind) = host.command /\ call.dir = lab.snap
        /\ lab.snap # 0 /\ host.command \in {"docker", "microsandbox"}
    BY <1>1, <1>2, <1>9, OwnCopy, SandboxAssumption
       DEF BackendOf, HostTypes, Backend
  <2>2. lab.session = 0 /\ (host.command = "docker" => lab.container = 0) /\ Fits
    BY <1>2, <1>9, <2>1 DEF Kept, BoxesOfCommands, Fits, ContainerFits, BackendOf
  <2>3. CommandPlace = InDir(lab.snap) /\ InDir(lab.snap) # Gone
    BY <1>1, <1>2, <2>1, <2>2, PlaceOfCommands, OwnCopy
  <2>4. /\ lab'.snap = lab.snap /\ lab'.src = lab.src
        /\ lab'.container =
              (IF host.command = "docker" THEN calls ELSE lab.container)
        /\ lab'.session = (IF host.command = "docker" THEN 0 ELSE calls)
        /\ lab'.backend = host.command
    BY <1>1, <1>3, <1>9, <2>1, <2>2
       DEF StartBox, Noted, HostTypes, Lab
  <2>5. /\ NewBox.dir = lab.snap
        /\ NewBox.files = (IF host.guest /\ host.command = "microsandbox"
                           THEN InDir(lab.snap) ELSE Gone)
    BY <2>1 DEF NewBox
  <2>6. BoxesOfCommands'
    <3>1. lab'.container # 0 => boxes'[lab'.container].files = Gone
      BY <1>3, <1>7, <2>1, <2>4, <2>5
    <3>2. QED
      BY <1>2, <1>3, <1>7, <2>1, <2>3, <2>4, <2>5, <3>1
         DEF BoxesOfCommands, HasFiles
  <2>7. CommandPlace' = InDir(lab.snap)
    <3>1. InDir(lab.snap)' = InDir(lab.snap)
      BY <1>2, <2>4 DEF InDir
    <3>2. CommandBox' = calls
      BY <1>2, <2>1, <2>4 DEF CommandBox
    <3>3. QED
      BY <1>2, <1>3, <2>3, <2>4, <2>5, <3>1, <3>2
         DEF CommandPlace, WorksOn, HasFiles, InDir
  <2>8. PlaceHasWork'
    BY <1>2, <2>2, <2>3, <2>4, <2>7 DEF PlaceHasWork
  <2>9. CallSharesWork' /\ CopyIsFresh'
    BY <1>2, <1>5, <1>9, <2>1, <2>2, <2>3, <2>4
       DEF CallSharesWork, CopyIsFresh, PlaceHasWork
  <2>10. QED
    BY <1>1, <1>4, <2>6, <2>8, <2>9
<1>10. QED
  BY <1>1, <1>2, <1>8, <1>9, OwnCopy

LEMMA LabFails ==
    ASSUME LabIInv, StartFails \/ PopenFails
    PROVE  LabIInv'
<1> USE DEF LabIInv
<1>1. HostIInv' /\ HostIInv /\ HostTypes
  BY HostFails DEF HostIInv
<1>2. /\ Refuses /\ call.pc \in {"box", "run"}
      /\ UNCHANGED <<host, ended>>
      /\ \E stuck \in SUBSET Discarded : Discards(stuck)
  BY DEF StartFails, PopenFails, Needed
<1>3. /\ \A d \in DOMAIN dirs' : dirs'[d] = dirs[d]
      /\ lab.snap # 0 => lab.snap \in DOMAIN dirs'
  BY <1>1, <1>2, DiscardEffect
<1>4. /\ lab'.snap = lab.snap /\ lab'.src = lab.src
      /\ lab'.container = lab.container /\ lab'.session = lab.session
      /\ lab'.backend \in {lab.backend, host.command}
  BY <1>1, NotedEffect DEF StartFails, PopenFails
<1>5. /\ \A b \in DOMAIN boxes : boxes'[b] = boxes[b]
      /\ \A b \in DOMAIN boxes' : boxes'[b].dir <= b
  <2>1. CASE boxes' = boxes
    BY <2>1 DEF BoxesOfCommands
  <2>2. CASE call.pc = "box" /\ boxes' = Also(boxes, call.id, NewBox)
    <3>1. NewBox.dir <= calls
      BY <1>1, <2>2, OwnCopy DEF NewBox, HostTypes
    <3>2. QED
      BY <1>1, <2>2, <3>1, NewBoxEffect DEF BoxesOfCommands
  <2>3. QED
    BY <2>1, <2>2 DEF StartFails, PopenFails, Needed
<1>6. PlaceKept /\ ContainerKept
  BY <1>1, <1>2, <1>3, <1>4, <1>5, SameGrown
     DEF PlaceKept, ContainerKept, BoxesOfCommands, HasFiles, HostIInv, SnapIsThere
<1>7. QED
  BY <1>1, <1>2, <1>6, FitsKept, PlaceFrame, RefusesOut, RefusedCall

(* A write adds work: of the call under way, or of a process that goes on. *)
(* The copy of a test run that has not begun is not where it goes.         *)
LEMMA LabWrite ==
    ASSUME LabIInv, HostIInv', NEW d, NEW b \in {0} \union DOMAIN boxes,
           NEW writing \in Writing, Writes(d, b, writing),
           UNCHANGED <<host, calls, lab, call, report, ended>>,
           call.kind = "tests" /\ call.pc = "box" =>
               (IF b = 0 THEN d ELSE boxes[b].dir) # call.dir
    PROVE  LabIInv'
<1> USE DEF LabIInv
<1>1. HostTypes
  BY DEF HostIInv
<1>2. /\ DOMAIN dirs' = DOMAIN dirs /\ DOMAIN boxes' = DOMAIN boxes
      /\ \A x \in DOMAIN dirs : Grown(dirs[x], dirs'[x])
      /\ \A x \in DOMAIN boxes :
            /\ boxes'[x].dir = boxes[x].dir
            /\ boxes'[x].files = Gone <=> boxes[x].files = Gone
            /\ Grown(boxes[x].files, boxes'[x].files)
      /\ \A x \in DOMAIN dirs :
            x # (IF b = 0 THEN d ELSE boxes[b].dir) => dirs'[x] = dirs[x]
  BY <1>1, WriteEffect
<1>3. PlaceKept /\ ContainerKept
  BY <1>1, <1>2, SameGrown
     DEF PlaceKept, ContainerKept, BoxesOfCommands, HasFiles, HostIInv, SnapIsThere
<1>4. /\ BoxesOfCommands' /\ PlaceHasWork' /\ Fits' = Fits
      /\ PlaceIsTheirs' = PlaceIsTheirs
      /\ ContainerFits("tests", calls)' = ContainerFits("tests", calls)
  BY <1>3, FitsKept, PlaceFrame
<1>5. CallSharesWork' /\ FittingTestsSeeTheirCopy' /\ CommandsShareTheirWork'
  BY <1>4 DEF CallSharesWork, FittingTestsSeeTheirCopy, TestsSeeTheirCopy,
              CommandsShareTheirWork
<1>6. CopyIsFresh'
  <2> SUFFICES ASSUME call.kind = "tests", call.pc \in {"box", "run", "tidy"}
               PROVE  CopyIsFresh'
    BY DEF CopyIsFresh
  <2>1. call.dir \in DOMAIN dirs /\ dirs[call.dir] \in Copied
    BY OwnCopy
  <2>2. CASE call.pc = "box"
    BY <1>2, <2>1, <2>2 DEF CopyIsFresh
  <2>3. CASE call.pc \in {"run", "tidy"}
    <3>1. Grown(dirs[call.dir], dirs'[call.dir])
      BY <1>2, <2>1
    <3>2. \A x \in Copied : \A y :
             Grown(x, y) => [y EXCEPT !.work = {}] = [x EXCEPT !.work = {}]
      BY DEF Copied, Grown
    <3>3. ContainerFits("tests", calls) =>
             call.seen = [dirs[call.dir] EXCEPT !.work = {}]
      BY <2>3 DEF CopyIsFresh
    <3>4. ContainerFits("tests", calls) =>
             call.seen = [dirs'[call.dir] EXCEPT !.work = {}]
      BY <2>1, <3>1, <3>2, <3>3
    <3>5. QED
      BY <1>4, <2>3, <3>4 DEF CopyIsFresh
  <2>4. QED
    BY <2>2, <2>3
<1>7. QED
  BY <1>4, <1>5, <1>6

(* A step that changes nothing the laboratory is about.                    *)
LEMMA LabSame ==
    ASSUME LabIInv, HostIInv',
           UNCHANGED <<host, calls, dirs, boxes, lab, call, report, ended>>
    PROVE  LabIInv'
<1>1. /\ BoxesOfCommands' /\ PlaceHasWork' /\ Fits' = Fits
      /\ PlaceIsTheirs' = PlaceIsTheirs
      /\ ContainerFits("tests", calls)' = ContainerFits("tests", calls)
  BY PlaceSame
<1>2. QED
  BY <1>1 DEF LabIInv, CallSharesWork, CopyIsFresh, FittingTestsSeeTheirCopy,
              TestsSeeTheirCopy, CommandsShareTheirWork

LEMMA LabWork ==
    ASSUME LabIInv, Work
    PROVE  LabIInv'
<1>1. HostIInv /\ HostIInv'
  BY HostWork DEF LabIInv
<1>2. call.box \in {0} \union DOMAIN boxes /\ <<call.id, "own">> \in Writing
  <2>1. call.pc = "run" /\ call.box = BoxOfCall /\ call.id = calls /\ calls >= 1
        /\ (BackendOf(call.kind) # "direct" => call.box \in DOMAIN boxes)
    BY <1>1 DEF Work, HostIInv, CallIsKnown
  <2>2. BackendOf(call.kind) = "direct" => call.box = 0
    BY <2>1 DEF BoxOfCall
  <2>3. QED
    BY <1>1, <2>1, <2>2 DEF HostIInv, HostTypes, Writing, CallId
<1>3. QED
  BY <1>1, <1>2, LabWrite DEF Work

(* A box that goes on is older than the copy of a test run that has not    *)
(* begun, so it was not made out of it.                                    *)
LEMMA LabLinger ==
    ASSUME LabIInv, Linger
    PROVE  LabIInv'
<1>1. HostIInv /\ HostIInv' /\ HostTypes
  BY HostLinger DEF LabIInv, HostIInv
<1>2. PICK a \in adrift :
        /\ \/ Writes(0, a[2], <<a[1], "late">>)
           \/ UNCHANGED <<dirs, boxes>>
        /\ adrift' = adrift \ {a}
        /\ UNCHANGED <<host, edits, calls, lab, call, report, ended, lost, left>>
  BY DEF Linger
<1>3. a[2] \in DOMAIN boxes /\ <<a[1], "late">> \in Writing /\ a[2] # 0
  BY <1>1 DEF HostTypes, Writing
<1>4. CASE Writes(0, a[2], <<a[1], "late">>)
  <2>1. call.kind = "tests" /\ call.pc = "box" => boxes[a[2]].dir # call.dir
    BY <1>1, <1>3, FoundIsOlder DEF HostIInv, CallIsKnown, LabIInv
  <2>2. QED
    BY <1>1, <1>2, <1>3, <1>4, <2>1, LabWrite
<1>5. CASE UNCHANGED <<dirs, boxes>>
  BY <1>1, <1>2, <1>5, LabSame
<1>6. QED
  BY <1>2, <1>4, <1>5

(* The end of a command: it tells what it found, and what it wrote is in   *)
(* the place of the commands.  The end of a test run.                      *)
LEMMA LabOver ==
    ASSUME LabIInv, Ends \/ TimesOut \/ NoAnswer
    PROVE  LabIInv'
<1> USE DEF LabIInv
<1>1. HostIInv /\ HostIInv' /\ HostTypes
  BY HostOver DEF HostIInv
<1>2. PICK out \in {"ran", "timeout", "refused"} : Over(out)
  BY DEF Ends, TimesOut, NoAnswer
<1>3. /\ call.pc = "run" /\ call.box = BoxOfCall /\ call.id = calls
      /\ UNCHANGED <<host, calls, dirs, boxes, lab>>
  BY <1>1, <1>2 DEF Ends, TimesOut, NoAnswer, HostIInv, CallIsKnown, Over
<1>4. BoxesOfCommands'
  BY <1>3 DEF BoxesOfCommands, HasFiles
<1>5. /\ CommandPlace' = CommandPlace /\ Fits' = Fits
      /\ PlaceIsTheirs' = PlaceIsTheirs
      /\ ContainerFits("tests", calls)' = ContainerFits("tests", calls)
  BY <1>3 DEF CommandPlace, CommandBox, WorksOn, HasFiles, InDir, Fits,
              PlaceIsTheirs, ContainerFits, BackendOf
<1>6. CASE call.kind = "tests"
  <2>1. /\ call' = [call EXCEPT !.pc = "tidy", !.out = out]
        /\ UNCHANGED <<report, ended>>
    BY <1>2, <1>6 DEF Over
  <2>2. /\ call'.kind = call.kind /\ call'.pc = "tidy"
        /\ call'.dir = call.dir /\ call'.seen = call.seen
    BY <1>1, <2>1 DEF HostTypes, Call
  <2>3. PlaceHasWork' /\ FittingTestsSeeTheirCopy' /\ CommandsShareTheirWork'
    BY <1>3, <1>5, <2>1
       DEF PlaceHasWork, FittingTestsSeeTheirCopy, TestsSeeTheirCopy,
           CommandsShareTheirWork
  <2>4. CallSharesWork' /\ CopyIsFresh'
    BY <1>3, <1>5, <1>6, <2>2 DEF CallSharesWork, CopyIsFresh
  <2>5. QED
    BY <1>1, <1>4, <2>3, <2>4
<1>7. CASE call.kind = "command"
  <2>1. /\ Tells(out)
        /\ ended' = ended \union (WorksOn(call.dir, call.box).work
                                  \intersect {<<calls, "own">>})
    BY <1>2, <1>3, <1>7 DEF Over
  <2>2. call.dir = lab.snap /\ lab.snap # 0 /\ call.box = CommandBox
    BY <1>1, <1>3, <1>7, OwnCopy, SandboxAssumption
       DEF BoxOfCall, CommandBox, BackendOf, HostTypes, Backend
  <2>3. WorksOn(call.dir, call.box) = CommandPlace
    BY <2>2 DEF CommandPlace
  <2>4. PlaceHasWork'
    BY <1>3, <1>5, <2>1, <2>2, <2>3 DEF PlaceHasWork
  <2>5. call'.kind = "none"
    BY <2>1 DEF Tells, NoCall
  <2>6. CallSharesWork' /\ CopyIsFresh'
    BY <2>5 DEF CallSharesWork, CopyIsFresh
  <2>7. /\ report'.kind = "command" /\ report'.src = call.src
        /\ report'.seen = call.seen
    BY <1>7, <2>1 DEF Tells
  <2>8. Fits => call.seen.src = call.src /\ ended \subseteq call.seen.work
    BY <1>3, <1>7 DEF CallSharesWork
  <2>9. FittingTestsSeeTheirCopy' /\ CommandsShareTheirWork'
    <3>1. FittingTestsSeeTheirCopy'
      BY <2>7 DEF FittingTestsSeeTheirCopy, TestsSeeTheirCopy
    <3>2. PlaceIsTheirs => Fits
      BY DEF PlaceIsTheirs, Fits
    <3>3. QED
      BY <1>3, <1>5, <2>1, <2>7, <2>8, <3>1, <3>2 DEF CommandsShareTheirWork
  <2>10. QED
    BY <1>1, <1>4, <2>4, <2>6, <2>9
<1>8. QED
  BY <1>1, <1>3, <1>6, <1>7, OwnCopy

(* The end of a test run tells what it saw; the boxes of the commands stay.*)
LEMMA LabTidy ==
    ASSUME LabIInv, Tidy
    PROVE  LabIInv'
<1> USE DEF LabIInv
<1>1. HostIInv /\ HostIInv' /\ HostTypes
  BY HostTidy DEF HostIInv
<1>2. /\ call.pc = "tidy" /\ call.kind = "tests" /\ call.id = calls
      /\ UNCHANGED <<host, calls, lab, ended>>
  BY <1>1 DEF Tidy, HostIInv, CallIsKnown
<1>3. PICK stuck \in SUBSET Discarded, open \in SUBSET OwnBox :
        /\ Tells(call.out) \/ Refuses
        /\ Discards(stuck)
        /\ boxes' = Restrict(boxes, DOMAIN boxes \ (OwnBox \ open))
  BY DEF Tidy
<1>4. /\ \A d \in DOMAIN dirs' : dirs'[d] = dirs[d]
      /\ lab.snap # 0 => lab.snap \in DOMAIN dirs'
  BY <1>1, <1>2, <1>3, DiscardEffect
<1>5. /\ \A b \in {lab.container, lab.session} \ {0} : boxes'[b] = boxes[b]
      /\ \A b \in DOMAIN boxes' : boxes'[b].dir <= b
  BY <1>1, <1>2, <1>3, OwnBoxIsOwn, OnlySome, SameGrown DEF BoxesOfCommands
<1>6. PlaceKept /\ ContainerKept
  BY <1>1, <1>2, <1>4, <1>5, SameGrown
     DEF PlaceKept, ContainerKept, BoxesOfCommands, HasFiles, HostIInv, SnapIsThere
<1>7. /\ BoxesOfCommands' /\ PlaceHasWork'
      /\ ContainerFits("tests", calls)' = ContainerFits("tests", calls)
  BY <1>2, <1>6, FitsKept, PlaceFrame
<1>8. CASE Refuses
  BY <1>1, <1>7, <1>8, RefusesOut, RefusedCall
<1>9. CASE Tells(call.out)
  <2>1. /\ call'.kind = "none" /\ report'.kind = "tests"
        /\ report'.seen = call.seen /\ report'.copy = InDir(call.dir)
    BY <1>2, <1>9 DEF Tells, NoCall
  <2>2. ContainerFits("tests", calls) =>
           call.seen = [InDir(call.dir) EXCEPT !.work = {}]
    BY <1>1, <1>2, OwnCopy DEF CopyIsFresh
  <2>3. /\ CallSharesWork' /\ CopyIsFresh'
        /\ FittingTestsSeeTheirCopy' /\ CommandsShareTheirWork'
    BY <1>7, <2>1, <2>2
       DEF CallSharesWork, CopyIsFresh, FittingTestsSeeTheirCopy,
           TestsSeeTheirCopy, CommandsShareTheirWork
  <2>4. QED
    BY <1>1, <1>7, <2>3
<1>10. QED
  BY <1>3, <1>8, <1>9

LEMMA LabCopyFails ==
    ASSUME LabIInv, CopyFails
    PROVE  LabIInv'
<1>1. HostIInv /\ HostIInv'
  BY HostCopyFails DEF LabIInv
<1>2. /\ Refuses /\ UNCHANGED <<host, boxes, lab, ended>>
      /\ call.pc = "copy" /\ call.id = calls
      /\ dirs' = dirs \/ dirs' = Also(dirs, calls, CopyNow)
  BY <1>1 DEF CopyFails, HostIInv, CallIsKnown
<1>3. \A d \in DOMAIN dirs \ {calls} : d \in DOMAIN dirs' /\ dirs'[d] = dirs[d]
  <2>1. CASE dirs' = dirs
    BY <2>1
  <2>2. CASE dirs' = Also(dirs, calls, CopyNow)
    BY <2>2 DEF Also
  <2>3. QED
    BY <1>2, <2>1, <2>2
<1>4. lab.snap # calls
  <2>1. /\ call.kind \in {"command", "tests"} /\ calls >= 1
        /\ call.kind = "command" => lab.snap = 0
        /\ call.kind = "tests" => lab.snap # calls
    BY <1>1, <1>2 DEF HostIInv, CallIsKnown
  <2>2. QED
    BY <2>1
<1>5. QED
  BY <1>1, <1>2, <1>3, <1>4, PlaceSame, RefusesOut, RefusedCall DEF LabIInv

(* An export packs the place of the commands.                              *)
LEMMA LabAside ==
    ASSUME LabIInv, CommandRefused \/ Export \/ Edit
    PROVE  LabIInv'
<1> USE DEF LabIInv
<1>1. HostIInv /\ HostIInv' /\ HostTypes
  BY HostAside DEF HostIInv
<1>2. UNCHANGED <<host, dirs, boxes, lab, ended>>
  BY DEF CommandRefused, Export, Edit
<1>3. /\ BoxesOfCommands' /\ PlaceHasWork'
      /\ PlaceIsTheirs' = PlaceIsTheirs
  BY <1>2, PlaceSame
<1>4. CASE CommandRefused
  BY <1>1, <1>3, <1>4, RefusesOut, RefusedCall DEF CommandRefused
<1>5. CASE Export
  <2>1. /\ call' = call /\ call = NoCall /\ lab.snap # 0
        /\ report' = [NoReport EXCEPT !.kind = "export", !.src = lab.src,
                                      !.out = "ran", !.seen = Packed]
    BY <1>1, <1>5 DEF Export, HostIInv, CallIsKnown
  <2>2. report'.kind = "export" /\ report'.src = lab.src /\ report'.seen = Packed
    BY <2>1 DEF NoReport
  <2>3. PlaceIsTheirs => Fits /\ Packed = CommandPlace
    BY PlaceOfCommands DEF Packed, BoxesOfCommands, PlaceIsTheirs, Fits
  <2>4. call'.kind = "none"
    BY <2>1 DEF NoCall
  <2>5. FittingTestsSeeTheirCopy' /\ CommandsShareTheirWork'
    BY <1>2, <1>3, <2>1, <2>2, <2>3
       DEF FittingTestsSeeTheirCopy, TestsSeeTheirCopy, CommandsShareTheirWork,
           PlaceHasWork
  <2>6. CallSharesWork' /\ CopyIsFresh'
    BY <2>4 DEF CallSharesWork, CopyIsFresh
  <2>7. QED
    BY <1>1, <1>3, <2>5, <2>6
<1>6. CASE Edit
  BY <1>1, <1>2, <1>6, LabSame DEF Edit
<1>7. QED
  BY <1>4, <1>5, <1>6

LEMMA LabForgets ==
    ASSUME LabIInv, Cleanup \/ Kill
    PROVE  LabIInv'
<1>1. HostIInv'
  BY HostForgets DEF LabIInv
<1>2. Forgets /\ call' = NoCall
  BY DEF LabIInv, HostIInv, Cleanup, Kill, CallIsKnown
<1>3. /\ lab'.snap = 0 /\ lab'.container = 0 /\ lab'.session = 0
      /\ DOMAIN boxes' = {} /\ call'.kind = "none" /\ report'.kind = "none"
      /\ ended' = {}
  BY <1>2, NothingLeft DEF Forgets, NoLab, NoCall, NoReport
<1>4. QED
  BY <1>1, <1>3 DEF LabIInv, BoxesOfCommands, PlaceHasWork, CallSharesWork,
        CopyIsFresh, FittingTestsSeeTheirCopy, TestsSeeTheirCopy,
        CommandsShareTheirWork

LEMMA LabStep == LabIInv /\ [SandboxNext]_vars => LabIInv'
<1> SUFFICES ASSUME LabIInv, [SandboxNext]_vars PROVE LabIInv'
  OBVIOUS
<1>1. CASE UNCHANGED vars
  <2>1. HostIInv'
    BY HostStep DEF LabIInv
  <2>2. QED
    BY <1>1, <2>1, LabSame DEF vars
<1>2. CASE SandboxNext
  BY <1>2, LabBegin, LabCopy, LabCopyFails, LabEnter, LabStartBox, LabFails,
     LabWork, LabLinger, LabOver, LabTidy, LabAside, LabForgets DEF SandboxNext
<1>3. QED
  BY <1>1, <1>2

THEOREM LabInvariance == SandboxSpec => []LabIInv
  BY LabInit, LabStep, PTL DEF SandboxSpec

(* A test run that is reported worked on the copy made for it, as it was   *)
(* made, on every host and after whatever was run before, unless it found  *)
(* the container of another copy: without Docker every test run, with it   *)
(* the one that starts the container.                                      *)
THEOREM TestsTheorem == SandboxSpec => []FittingTestsSeeTheirCopy
<1>1. LabIInv => FittingTestsSeeTheirCopy
  BY DEF LabIInv
<1>2. QED
  BY <1>1, LabInvariance, PTL

(* The commands of an execution share one copy, each finds what all the    *)
(* earlier ones left, and an export is that copy, on every host, through   *)
(* timeouts, failed starts, processes that go on and test runs between, as *)
(* long as no test run has put its container in their place.               *)
THEOREM CommandsTheorem == SandboxSpec => []CommandsShareTheirWork
<1>1. LabIInv => CommandsShareTheirWork
  BY DEF LabIInv
<1>2. QED
  BY <1>1, LabInvariance, PTL

===============================================================================
