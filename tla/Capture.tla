------------------------------ MODULE Capture -------------------------------
(***************************************************************************)
(* What the OAuth manager captures of the traffic, in                      *)
(*   src/oauth-manager/.../service/CaptureService.java                     *)
(*   src/oauth-manager/.../repository/CaptureTemplateMemoryRepository.java *)
(*   src/oauth-manager/.../event/ClientCaptureEventListener.java           *)
(*   src/oauth-manager/.../controller/PainelController.java                *)
(* A capture reads the whole file that tcpdump goes on writing, keeps the  *)
(* packets it takes for new in one list of the process, between two marks, *)
(* and chooses among them.  Whatever fails, it starts over.  Requests and  *)
(* listeners capture at the same time, and nothing guards the lists.       *)
(***************************************************************************)
EXTENDS Naturals, Sequences, Positions

CONSTANTS
    Webs,       \* the threads of the manager's pages: captures of type "sync"
    Listeners,  \* the listeners of a process that was started: "async"
    Traffic,    \* what tcpdump may come to write: sequences of "request",
                \* "response", "other" and "bare", a request without the
                \* parameters that the analysis expects
    MaxCaptures, MaxFaults, MaxTries   \* bounds

\* What is written is made of these payloads.
Lines == {"request", "response", "other", "bare"}
CaptureAssumption == \A s \in Traffic : s \in Seq(Lines)

VARIABLES
    traffic,  \* the payloads, of which the file has those
    file,     \* that were written already; of the two files, for http and for
              \* https, the user's kind of server chooses one
    allPcapFiles,
    lists,    \* "sync", "async" -> the captures that returned
    task,     \* capturer -> what it is doing; seen is how long the list was when
              \* a forEach began, from (history) when the capture began
    begun, faults,
    overlapped, cleaned   \* history, what the properties below except: whether
                          \* captures of one type, or of the two, ran at a time

counts == <<begun, faults, overlapped, cleaned>>
captureVars == <<traffic, file, allPcapFiles, lists, task, begun, faults, overlapped, cleaned>>

Capturers == Webs \cup Listeners
Type(c) == IF c \in Webs THEN "sync" ELSE "async"
IdleTask == [at |-> "idle", id |-> 0, init |-> 0, counter |-> 1, seen |-> 0,
             tries |-> 0, from |-> 0, captured |-> <<>>]
Mark(which, c, id) == [mark |-> which, type |-> Type(c), id |-> id]
Packet(n) == [mark |-> "packet", n |-> n, line |-> file[n]]
Busy(c) == task[c].at # "idle"
Others(c) == {d \in Capturers \ {c} : task[d].at = "read"}

Go(c, at) == task' = [task EXCEPT ![c].at = at]

CaptureInit ==
    /\ traffic \in Traffic /\ file = <<>> /\ allPcapFiles = <<>>
    /\ lists = [t \in {"sync", "async"} |-> <<>>]
    /\ task = [c \in Capturers |-> IdleTask]
    /\ begun = 0 /\ faults = 0
    /\ overlapped = {} /\ cleaned = FALSE

\* tcpdump writes.
Write ==
    /\ Len(file) < Len(traffic)
    /\ file' = Append(file, traffic[Len(file) + 1])
    /\ UNCHANGED <<traffic, allPcapFiles, lists, task, counts>>

\* The identifier is that of the next capture to return.
Begin(c) ==
    /\ ~Busy(c) /\ begun < MaxCaptures
    /\ LET id == Len(lists[Type(c)]) + 1
       IN /\ task' = [task EXCEPT ![c] = [IdleTask EXCEPT !.at = "sleep", !.id = id,
                                                !.from = Len(allPcapFiles)]]
          /\ allPcapFiles' = Append(allPcapFiles, Mark("init", c, id))
    /\ begun' = begun + 1
    /\ overlapped' = overlapped \cup {IF Type(d) = Type(c) THEN "same" ELSE "other" :
                                         d \in {b \in Capturers : Busy(b)}}
    /\ UNCHANGED <<traffic, file, lists, faults, cleaned>>

\* Mutation: an attempt takes every packet of the file for new.
OpenFromStart(c) ==
    /\ task[c].at = "sleep" /\ task[c].tries < MaxTries
    /\ task' = [task EXCEPT ![c].at = "read", ![c].counter = 1, ![c].init = 1,
                            ![c].tries = @ + 1]
    /\ UNCHANGED <<traffic, file, allPcapFiles, lists, counts>>

\* The first packet kept is the one whose number is the length of the list,
\* which has the marks as well as the packets.
Open(c) ==
    /\ task[c].at = "sleep" /\ task[c].tries < MaxTries
    /\ task' = [task EXCEPT ![c].at = "read", ![c].counter = 1,
                            ![c].init = Len(allPcapFiles), ![c].tries = @ + 1]
    /\ UNCHANGED <<traffic, file, allPcapFiles, lists, counts>>

\* Two threads that add to the list at the same time may leave one's element.
AddLine(c, x) == \/ allPcapFiles' = Append(allPcapFiles, x)
                 \/ Others(c) # {} /\ UNCHANGED allPcapFiles

nextPacket(c) ==
    /\ task[c].at = "read" /\ task[c].counter <= Len(file)
    /\ IF task[c].counter >= task[c].init
       THEN AddLine(c, Packet(task[c].counter)) ELSE UNCHANGED allPcapFiles
    /\ task' = [task EXCEPT ![c].counter = @ + 1]
    /\ UNCHANGED <<traffic, file, lists, counts>>

EndOfFile(c) ==
    /\ task[c].at = "read" /\ task[c].counter > Len(file)
    /\ AddLine(c, Mark("end", c, task[c].id))
    /\ task' = [task EXCEPT ![c].at = "print", ![c].seen = Len(allPcapFiles')]
    /\ UNCHANGED <<traffic, file, lists, counts>>

\* Mutation: what failed is not tried again.
AgainNever(c) == Go(c, "failed")

Again(c) == Go(c, "sleep")

\* The file is not there, or ends within a packet.
ReadFails(c) ==
    /\ task[c].at \in {"sleep", "read"} /\ faults < MaxFaults
    /\ faults' = faults + 1
    /\ Again(c)
    /\ UNCHANGED <<traffic, file, allPcapFiles, lists, begun, overlapped, cleaned>>

\* forEach fails when someone added to the list meanwhile.
PrintMarks(c) ==
    /\ task[c].at = "print"
    /\ IF Len(allPcapFiles) # task[c].seen THEN Again(c) ELSE Go(c, "find")
    /\ UNCHANGED <<traffic, file, allPcapFiles, lists, counts>>

\* From each first mark with this identifier to the next last mark.
getCapturedByIdAndType(c) ==
    LET first == Mark("init", c, task[c].id)
        last == Mark("end", c, task[c].id)
        within(i) == \E a \in 1..i : /\ allPcapFiles[a] = first
                                     /\ \A e \in a..i - 1 : allPcapFiles[e] # last
    IN SelectPositions(allPcapFiles, {i \in 1..Len(allPcapFiles) : within(i)})

SameLine(x, y) == x.mark = "packet" /\ y.mark = "packet" /\ x.line = y.line
removeDuplicates(s) ==
    SelectPositions(s, {i \in 1..Len(s) : i = 1 \/ ~SameLine(s[i - 1], s[i])})

\* Mutation: after a request only a response is looked for.
ChosenAlternately(s) ==
    LET is(i, what) == s[i].mark = "packet" /\ s[i].line \in what
        asked(i) == \E a \in 1..i - 1 :
                       /\ is(a, {"request", "bare"})
                       /\ \A b \in a + 1..i - 1 : ~is(b, {"response"})
    IN SelectPositions(s, {i \in 1..Len(s) : \/ is(i, {"request", "bare"}) /\ ~asked(i)
                                             \/ is(i, {"response"}) /\ asked(i)})

\* Requests, and the first response after one.  (A payload is added once for each
\* text looked for that it contains; those of a flow's requests contain one.)
Chosen(s) ==
    LET is(i, what) == s[i].mark = "packet" /\ s[i].line \in what
        asked(i) == \E a \in 1..i - 1 :
                       /\ is(a, {"request", "bare"})
                       /\ \A b \in a + 1..i - 1 : ~is(b, {"response"})
    IN SelectPositions(s, {i \in 1..Len(s) : \/ is(i, {"request", "bare"})
                                             \/ is(i, {"response"}) /\ asked(i)})

\* Mutation: what is found is not limited to this capture.
AddFoundAll(c) ==
    /\ task[c].at = "find"
    /\ IF Len(allPcapFiles) # task[c].seen
       THEN Again(c)
       ELSE \E lines \in {removeDuplicates(allPcapFiles)} :
              task' = [task EXCEPT ![c].at = "verify",
                                   ![c].captured = @ \o Chosen(lines)]
    /\ UNCHANGED <<traffic, file, allPcapFiles, lists, counts>>

AddFound(c) ==
    /\ task[c].at = "find"
    /\ IF Len(allPcapFiles) # task[c].seen
       THEN Again(c)
       ELSE \E listBySpecificID \in {getCapturedByIdAndType(c)} :
            \E lines \in {removeDuplicates(listBySpecificID)} :
              task' = [task EXCEPT ![c].at = "verify",
                                   ![c].captured = @ \o Chosen(lines)]
    /\ UNCHANGED <<traffic, file, allPcapFiles, lists, counts>>

\* Of a capture of a listener every request with parameters is analysed.
Parseable(s) == \A i \in 1..Len(s) : s[i].line # "bare"
verifyVulnerabilities(c) ==
    /\ task[c].at = "verify"
    /\ IF Type(c) = "sync" \/ Parseable(task[c].captured)
       THEN Go(c, "return") ELSE Again(c)
    /\ UNCHANGED <<traffic, file, allPcapFiles, lists, counts>>

addCaptureTemplate(c) ==
    /\ task[c].at = "return"
    /\ lists' = [lists EXCEPT ![Type(c)] =
                   Append(@, [id |-> task[c].id, from |-> task[c].from,
                              captured |-> task[c].captured])]
    /\ task' = [task EXCEPT ![c] = IdleTask]
    /\ UNCHANGED <<traffic, file, allPcapFiles, counts>>

\* The page of all captures, cleared: the marks stay in the list of lines.
getCleanList ==
    /\ lists["sync"] # <<>>
    /\ lists' = [lists EXCEPT !["sync"] = <<>>]
    /\ cleaned' = TRUE
    /\ UNCHANGED <<traffic, file, allPcapFiles, task, begun, faults, overlapped>>

Step(c) == \/ Open(c) \/ nextPacket(c) \/ EndOfFile(c) \/ PrintMarks(c)
           \/ AddFound(c) \/ verifyVulnerabilities(c) \/ addCaptureTemplate(c)

CaptureNext ==
    \/ Write
    \/ \E c \in Capturers : Begin(c) \/ Step(c) \/ ReadFails(c)
    \/ getCleanList

CaptureSpec == CaptureInit /\ [][CaptureNext]_captureVars
CaptureFairSpec == CaptureSpec /\ \A c \in Capturers : WF_captureVars(Step(c))

-----------------------------------------------------------------------------
\* What the list and the captures are made of.
Types == {"sync", "async"}
Packets == [mark : {"packet"}, n : Nat, line : Lines]
Kept == [mark : {"init", "end"}, type : Types, id : Nat] \cup Packets
Captured == [id : Nat, from : Nat, captured : Seq(Packets)]
Tasks == [at : {"idle", "sleep", "read", "print", "find", "verify", "return"},
          id : Nat, init : Nat, counter : Nat \ {0}, seen : Nat, tries : Nat,
          from : Nat, captured : Seq(Packets)]
CaptureTypeOK ==
    /\ traffic \in Seq(Lines) /\ file \in Seq(Lines) /\ Len(file) <= Len(traffic)
    /\ allPcapFiles \in Seq(Kept)
    /\ lists \in [Types -> Seq(Captured)] /\ task \in [Capturers -> Tasks]
    /\ begun \in Nat /\ faults \in Nat
    /\ overlapped \subseteq {"same", "other"} /\ cleaned \in BOOLEAN

Injective(s) == \A i, j \in 1..Len(s) : s[i] = s[j] => i = j
Captures(t) == 1..Len(lists[t])

\* However often a capture had to start over, in the middle of the file too,
\* no packet is kept twice, unless two captures ran at the same time.
KeptOnce ==
    overlapped = {} =>
       \A i, j \in 1..Len(allPcapFiles) :
          (allPcapFiles[i].mark = "packet" /\ allPcapFiles[i] = allPcapFiles[j]) => i = j

\* A packet is shown in one capture, and there once, unless two captures ran at
\* the same time or the identifiers began again.
CapturedOnce ==
    (overlapped = {} /\ ~cleaned) =>
       \A t, u \in {"sync", "async"} : \A i \in Captures(t), j \in Captures(u) :
          LET s == lists[t][i].captured  r == lists[u][j].captured
          IN /\ Injective(s)
             /\ (t # u \/ i # j) => \A m \in 1..Len(s), n \in 1..Len(r) : s[m] # r[n]

\* What a capture shows was kept after it began, by itself or by a capture of
\* the other type that ran at the same time, unless identifiers began again or
\* two captures of one type, which have the same, ran at the same time.
ShownSinceBegun ==
    ("same" \notin overlapped /\ ~cleaned) =>
       \A t \in {"sync", "async"} : \A i \in Captures(t) :
          \A m \in 1..Len(lists[t][i].captured) :
             \E p \in lists[t][i].from + 1..Len(allPcapFiles) :
                allPcapFiles[p] = lists[t][i].captured[m]

\* The packet kept at p is in s, or the one is that begins the run of packets with
\* its line which it ends: of such a run only the first is shown.
ShownIn(s, p) ==
    \E q \in 1..p :
       /\ \E m \in 1..Len(s) : s[m] = allPcapFiles[q]
       /\ \A k \in q..p : SameLine(allPcapFiles[k], allPcapFiles[p])

\* What was kept of the traffic is shown: when no capture is under way, every
\* request of the list is in a capture, itself or the first of the same lines
\* that it directly follows, unless two captures ran at the same time or they
\* were cleared.
KeptIsShown ==
    (overlapped = {} /\ ~cleaned /\ \A c \in Capturers : ~Busy(c)) =>
       \A p \in 1..Len(allPcapFiles) :
          (allPcapFiles[p].mark = "packet" /\ allPcapFiles[p].line \in {"request", "bare"}) =>
             \E t \in {"sync", "async"} : \E i \in Captures(t) :
                ShownIn(lists[t][i].captured, p)

\* A capture returns, however often reading failed, unless it has a request that
\* its analysis can never read, or another one ran at the same time: two that
\* add to the list in turn can make each other start over.
Returned(c) ==
    ~Busy(c) \/ overlapped # {} \/ \E i \in DOMAIN file : file[i] = "bare"
CaptureReturns == \A c \in Capturers : Busy(c) ~> Returned(c)
=============================================================================
