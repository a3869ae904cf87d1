--------------------------- MODULE DownloadService ---------------------------
(***************************************************************************)
(* core::DownloadService: jobs that stream a reply into <name>.part, hash  *)
(* what they receive, promote the file to <name> and install it on         *)
(* request.  Everything runs on the GUI thread, and every callback to a    *)
(* listener is made in the middle of a handler: the listener may start,    *)
(* cancel and install from inside it, and QNetworkReply::abort() of an     *)
(* http reply delivers finished() before it returns.  `stack` holds the    *)
(* callbacks under way, each with what its handler does afterwards.        *)
(*                                                                         *)
(* Files are modelled by inode: two jobs of one destName open the same     *)
(* .part, each at its own offset, and go on writing to what they opened    *)
(* after it is renamed or unlinked.  `data` says, chunk by chunk, whose    *)
(* bytes an inode holds (0 for a hole).                                    *)
(***************************************************************************)
EXTENDS ArchiveInstall, FiniteSets

CONSTANTS
    MaxJobs,         \* bound: jobs started in a run
    MaxDepth,        \* bound: callbacks under way at once
    MaxCalls,        \* bound: calls a listener makes from one callback
    Size,            \* chunks of every download
    Names,           \* legal destNames
    Requests,        \* [scheme, dest, sha, archive]
    Callers,         \* plugins: [id, granted, minor]
    Targets          \* InstallSpec.targetDir values asked for

ASSUME DownloadAssumption ==
    MaxJobs \in Nat \ {0} /\ MaxDepth \in Nat \ {0} /\ MaxCalls \in Nat /\ Size \in Nat \ {0}

VARIABLES
    job,             \* id -> the job: "none" before start, "gone" once deleted
    part, staged,    \* name -> inode of <name>.part and <name>, 0 for no file
    data,            \* inode -> whose chunk each of its chunks is
    tree,            \* what the install roots hold, by slot: from, files, ruin
    stack,           \* callbacks under way, innermost last
    verdicts,        \* id -> download verdicts its listener was given
    shared,          \* ghost: jobs whose destName another live job had as well
    torn,            \* ghost: jobs that lost a chunk of their tail
    panel            \* "up", "down" after the destructor, "crashed"

vars == <<job, part, staged, data, tree, stack, verdicts, shared, torn, panel>>

Jobs == 1 .. MaxJobs
NoJob == [state |-> "none"]
Live(j) == job[j].state \in {"Downloading", "Cancelling", "Failed"}
Known(j) == j \in Jobs /\ job[j].state \notin {"none", "gone"}

(* A file after its chunks k to n were written by job j.                   *)
Written(file, k, n, j) ==
    [i \in 1 .. (IF n > Len(file) THEN n ELSE Len(file)) |->
        IF i \in k .. n THEN j ELSE IF i <= Len(file) THEN file[i] ELSE 0]

(* A file that holds the first n chunks of job j, and nothing else.        *)
Filled(j, n) == [i \in 1 .. n |-> j]
Whole(j) == Filled(j, Size)

(* A callback under way: the job it is about, what it tells, what its      *)
(* handler does after it, and the calls its listener has made so far.      *)
Frame(j, told, then) == [job |-> j, told |-> told, then |-> then, calls |-> 0]
Top == stack[Len(stack)]
Called == IF stack = <<>> THEN <<>> ELSE [stack EXCEPT ![Len(stack)].calls = @ + 1]
Push(j, told, then) == stack' = Append(Called, Frame(j, told, then))
Verdict(j) == verdicts' = [verdicts EXCEPT ![j] = @ + 1]

(* The plugin may call the service from the event loop or from a callback. *)
MayCall ==
    /\ panel = "up" /\ Len(stack) < MaxDepth
    /\ (IF stack = <<>> THEN 0 ELSE Top.calls) < MaxCalls
EventLoop == panel = "up" /\ stack = <<>>

-----------------------------------------------------------------------------
(* start() *)

ValidateRequest(r) ==
    r.scheme \in {"https", "file"} /\ r.dest \in Names /\ r.sha # "malformed"

Opened(j, name) == IF part[name] = 0 THEN j ELSE part[name]

SameName(r) == {i \in Jobs : Live(i) /\ job[i].dest = r.dest}

(* Refused requests, a factory without a reply and a .part that cannot be  *)
(* opened answer through the listener with job 0.                          *)
StartRefused ==
    /\ MayCall
    /\ Push(0, "error", "return")
    /\ UNCHANGED <<job, part, staged, data, tree, verdicts, shared, torn, panel>>

StartJob(c, r) ==
    LET j == 1 + Cardinality({i \in Jobs : job[i].state # "none"})
        file == Opened(j, r.dest)
    IN  /\ MayCall /\ c.granted /\ ValidateRequest(r)
        /\ j \in Jobs
        /\ job' = [job EXCEPT ![j] = [state |-> "Downloading", dest |-> r.dest, got |-> 0,
                      file |-> file, scheme |-> r.scheme, sha |-> r.sha, archive |-> r.archive]]
        /\ part' = [part EXCEPT ![r.dest] = file]
        /\ data' = [data EXCEPT ![file] = <<>>]
        /\ shared' = IF SameName(r) = {} THEN shared ELSE shared \cup SameName(r) \cup {j}
        /\ stack' = Called
        /\ UNCHANGED <<staged, tree, verdicts, torn, panel>>

-----------------------------------------------------------------------------
(* Handlers of the reply *)

SetState(j, s) == job' = [job EXCEPT ![j].state = s]

(* handleReadyRead: one chunk, then onProgress.  A failed write tells the  *)
(* listener BEFORE the job is marked as failed.                            *)
HandleReadyRead(j) ==
    /\ EventLoop /\ job[j].state = "Downloading" /\ job[j].got < Size
    /\ \/ /\ job' = [job EXCEPT ![j].got = @ + 1]
          /\ data' = [data EXCEPT ![job[j].file] = Written(@, job[j].got + 1, job[j].got + 1, j)]
          /\ Push(j, "progress", "return")
          /\ UNCHANGED verdicts
       \/ /\ Push(j, "error", "failStaging")
          /\ Verdict(j)
          /\ UNCHANGED <<job, data>>
    /\ UNCHANGED <<part, staged, tree, shared, torn, panel>>

HandleError(j) ==
    /\ EventLoop /\ job[j].state = "Downloading"
    /\ SetState(j, "Failed")
    /\ Push(j, "error", "cleanup")
    /\ Verdict(j)
    /\ UNCHANGED <<part, staged, data, tree, shared, torn, panel>>

(* handleFinished of a cancelled job: the one place that says Cancelled.   *)
ReportCancelledUnmarked(j) ==       \* tells before it marks
    /\ UNCHANGED job
    /\ Push(j, "cancelled", "cleanup")
    /\ Verdict(j)

ReportCancelled(j) ==
    /\ SetState(j, "Failed")
    /\ Push(j, "cancelled", "cleanup")
    /\ Verdict(j)

FinishCancelledSilently(j) ==
    /\ EventLoop /\ job[j].state = "Cancelling"
    /\ SetState(j, "gone")
    /\ UNCHANGED <<part, staged, data, tree, stack, verdicts, shared, torn, panel>>

FinishCancelled(j) ==
    /\ EventLoop /\ job[j].state = "Cancelling"
    /\ ReportCancelled(j)
    /\ UNCHANGED <<part, staged, data, tree, shared, torn, panel>>

(* The tail is written without looking at the result.                      *)
WithTail(j, lost) ==
    [data EXCEPT ![job[j].file] = IF lost \/ job[j].got = Size THEN @
                                  ELSE Written(@, job[j].got + 1, Size, j)]

DigestUnchecked(j) == TRUE
DigestOk(j) == job[j].sha # "wrong"

(* handleFinished of a download: drain, compare, promote, report.          *)
HandleFinished(j, lost, renamed) ==
    LET name == job[j].dest
        promoted == DigestOk(j) /\ renamed /\ part[name] # 0
        drained == [job EXCEPT ![j].got = Size]
    IN  /\ EventLoop /\ job[j].state = "Downloading"
        /\ lost => job[j].got < Size
        /\ data' = WithTail(j, lost)
        /\ torn' = IF lost THEN torn \cup {j} ELSE torn
        /\ job' = [drained EXCEPT ![j].state = IF promoted THEN "Finished" ELSE "Failed"]
        /\ staged' = [staged EXCEPT ![name] = CASE promoted -> part[name]
                                                [] DigestOk(j) -> 0
                                                [] OTHER -> @]
        /\ part' = IF promoted THEN [part EXCEPT ![name] = 0] ELSE part
        /\ IF promoted THEN Push(j, "finished", "return") ELSE Push(j, "error", "cleanup")
        /\ Verdict(j)
        /\ UNCHANGED <<tree, shared, panel>>

(* cancel(): an http reply finishes inside abort(), a file reply has its   *)
(* finished() queued already and is answered when that arrives.            *)
Cancel(c, j) ==
    /\ MayCall /\ c.granted
    /\ job[j].state = "Downloading"
    /\ IF job[j].scheme = "https"
       THEN ReportCancelled(j)
       ELSE SetState(j, "Cancelling") /\ stack' = Called /\ UNCHANGED verdicts
    /\ UNCHANGED <<part, staged, data, tree, shared, torn, panel>>

-----------------------------------------------------------------------------
(* installArchive() *)

(* The archive a staged file holds: readable only when it is the whole of  *)
(* one download, checksums catching every mixture.                         *)
Holds(name) == IF staged[name] = 0 THEN <<>>
               ELSE LET file == data[staged[name]]
                    IN  IF \E k \in Jobs : file = Whole(k)
                        THEN job[file[1]].archive ELSE <<>>

Owner(c) == IF c.minor >= 13 THEN c.id ELSE NoOwner

Installable(c, j, target) ==
    /\ IsAllowedTarget(target) /\ IsValidOwner(Owner(c))
    /\ HasLayout(Holds(job[j].dest), target)
    /\ Decompresses(Holds(job[j].dest))

(* A rejection reaches the listener with the job's id, whatever the job's  *)
(* own verdict was.                                                        *)
InstallRejected(c, j) ==
    /\ MayCall /\ c.granted /\ Known(j)
    /\ Push(j, "rejected", "return")
    /\ UNCHANGED <<job, part, staged, data, tree, verdicts, shared, torn, panel>>

(* What the removal of the old item leaves: nothing, or, since its result  *)
(* is not looked at, any part of it.                                       *)
Leftovers(slot) == IF slot \in DOMAIN tree THEN SUBSET tree[slot].files ELSE {{}}

Without(slot) == [s \in DOMAIN tree \ {slot} |-> tree[s]]
Placed(slot, item) == [s \in DOMAIN tree \cup {slot} |-> IF s = slot THEN item ELSE tree[s]]

(* The old item is removed before the new one is moved in: a rename that   *)
(* fails (another file system) leaves neither, and one onto what could not *)
(* be removed fails.                                                       *)
InstallMoves(c, j, target, moved) ==
    LET archive == Holds(job[j].dest)
        slot == Slot(archive, target, Owner(c))
    IN  /\ MayCall /\ c.granted
        /\ job[j].state = "Finished" /\ Installable(c, j, target)
        /\ \E left \in Leftovers(slot) :
              /\ moved => left = {}
              /\ tree' = IF moved THEN Placed(slot, [from |-> archive, ruin |-> FALSE,
                                                    files |-> Extracted(archive)])
                         ELSE IF left = {} THEN Without(slot)
                         ELSE Placed(slot, [tree[slot] EXCEPT !.files = left, !.ruin = TRUE])
        /\ Push(j, IF moved THEN "installed" ELSE "rejected", "return")
        /\ UNCHANGED <<job, part, staged, data, verdicts, shared, torn, panel>>

-----------------------------------------------------------------------------
(* The listener returns and the handler goes on.                           *)

Pop == stack' = Front(stack)

Returns ==
    /\ panel = "up" /\ stack # <<>> /\ Top.then = "return"
    /\ Pop
    /\ UNCHANGED <<job, part, staged, data, tree, verdicts, shared, torn, panel>>

(* cleanupJob and the QFile::remove of the handlers: by NAME, whoever has  *)
(* the file open by now.                                                   *)
CleanupJob ==
    /\ panel = "up" /\ stack # <<>>
    /\ Top.then = "cleanup" \/ (Top.then = "failStaging" /\ Live(Top.job))
    /\ job' = [job EXCEPT ![Top.job].state = "gone"]
    /\ part' = [part EXCEPT ![job[Top.job].dest] = 0]
    /\ Pop
    /\ UNCHANGED <<staged, data, tree, verdicts, shared, torn, panel>>

(* handleReadyRead goes on with a job its listener's cancel() deleted:     *)
(* j->state and j->reply are read after the free.  The build may crash or  *)
(* come through.                                                           *)
UseAfterFree ==
    /\ panel = "up" /\ stack # <<>>
    /\ Top.then = "failStaging" /\ ~Live(Top.job)
    /\ panel' \in {"up", "crashed"}
    /\ Pop
    /\ UNCHANGED <<job, part, staged, data, tree, verdicts, shared, torn>>

(* ~DownloadService: no callbacks, the .part files go.                     *)
Shutdown ==
    /\ EventLoop
    /\ panel' = "down"
    /\ part' = [n \in Names |->
                   IF \E j \in Jobs : Known(j) /\ job[j].dest = n THEN 0 ELSE part[n]]
    /\ job' = [j \in Jobs |-> IF Known(j) THEN [job[j] EXCEPT !.state = "gone"] ELSE job[j]]
    /\ UNCHANGED <<staged, data, tree, stack, verdicts, shared, torn>>

-----------------------------------------------------------------------------
DownloadInit ==
    /\ job = [j \in Jobs |-> NoJob]
    /\ part = [n \in Names |-> 0] /\ staged = [n \in Names |-> 0]
    /\ data = [j \in Jobs |-> <<>>]
    /\ tree = [s \in {} |-> <<>>]
    /\ stack = <<>> /\ verdicts = [j \in Jobs |-> 0]
    /\ shared = {} /\ torn = {} /\ panel = "up"

Handlers ==
    \E j \in Jobs : \/ HandleReadyRead(j)
                    \/ HandleError(j)
                    \/ FinishCancelled(j)
                    \/ \E lost, renamed \in BOOLEAN : HandleFinished(j, lost, renamed)

Calls ==
    \/ StartRefused
    \/ \E c \in Callers :
          \/ \E r \in Requests : StartJob(c, r)
          \/ \E j \in Jobs :
                \/ Cancel(c, j)
                \/ InstallRejected(c, j)
                \/ \E t \in Targets, moved \in BOOLEAN : InstallMoves(c, j, t, moved)

DownloadNext == Handlers \/ Calls \/ Returns \/ CleanupJob \/ UseAfterFree \/ Shutdown

(* A listener returns from its callback, and the finished() that a file    *)
(* reply has queued is delivered by the event loop.                        *)
DownloadSpec ==
    /\ DownloadInit /\ [][DownloadNext]_vars
    /\ WF_vars(Returns \/ CleanupJob \/ UseAfterFree)
    /\ \A j \in Jobs : SF_vars(FinishCancelled(j))

-----------------------------------------------------------------------------
(* Properties *)

Used(j) == job[j].state # "none"
Writing(j) == job[j].state = "Downloading"

States == {"Downloading", "Cancelling", "Failed", "Finished", "gone"}
Started == [state : States, dest : Names, got : 0 .. Size, file : Jobs,
            scheme : {r.scheme : r \in Requests}, sha : {r.sha : r \in Requests},
            archive : {r.archive : r \in Requests}]
Tidings == {"progress", "error", "cancelled", "finished", "rejected", "installed"}
Frames == [job : 0 .. MaxJobs, told : Tidings, then : {"return", "cleanup", "failStaging"}, calls : Nat]

DownloadTypeOK ==
    /\ job \in [Jobs -> {NoJob} \cup Started]
    /\ part \in [Names -> 0 .. MaxJobs] /\ staged \in [Names -> 0 .. MaxJobs]
    /\ data \in [Jobs -> Seq(0 .. MaxJobs)]
    /\ stack \in Seq(Frames)
    /\ verdicts \in [Jobs -> Nat]
    /\ shared \subseteq Jobs /\ torn \subseteq Jobs
    /\ panel \in {"up", "down", "crashed"}

(* A listener hears one download verdict per job; the one way to a second  *)
(* is to cancel from the error callback of a failed staging write, which   *)
(* handleReadyRead makes before it marks the job (DownloadService.cpp:230).*)
VerdictsAreFinal ==
    [][\A j \in Jobs :
          verdicts[j] > 0 /\ verdicts'[j] > verdicts[j] =>
              \E i \in DOMAIN stack : stack[i].job = j /\ stack[i].then = "failStaging"]_vars

(* IDownloadApi.hpp: "No further callbacks for this job after onError."    *)
(* The statement of the interface, refuted by the re-entrant cancel.       *)
ErrorIsFinal == \A j \in Jobs : verdicts[j] <= 1

(* A file reported as finished is, byte for byte, the download that was    *)
(* hashed: for a job that had its destName to itself and lost nothing of   *)
(* its tail.  Both exceptions are the code's: nothing refuses a destName   *)
(* in use, and handleFinished ignores the result of its last write.        *)
VerifiedIsWhole ==
    \A j \in Jobs :
        job[j].state = "Finished" /\ j \notin shared \cup torn =>
            job[j].sha # "wrong" /\ data[job[j].file] = Whole(j)

(* Ids are given out in order.                                             *)
IdsAreInOrder == \E n \in 0 .. MaxJobs : \A j \in Jobs : Used(j) <=> j <= n

(* An inode keeps the destName of the job that made it, under whatever     *)
(* name and by whichever jobs it is open.                                  *)
InodesKeepNames ==
    /\ \A n \in Names : part[n] # 0 => Used(part[n]) /\ job[part[n]].dest = n
    /\ \A j \in Jobs : Used(j) => Used(job[j].file) /\ job[job[j].file].dest = job[j].dest

(* Two live jobs of one destName have met.                                 *)
NamesakesHaveMet ==
    \A i, j \in Jobs : Live(i) /\ Live(j) /\ job[i].dest = job[j].dest => i = j \/ i \in shared

(* A download that met no namesake fills its inode alone, from the start;  *)
(* when it is finished nobody writes to the inode or finds it by name.     *)
FilledAlone ==
    \A j \in Jobs \ shared :
        /\ Writing(j) => data[job[j].file] = Filled(j, job[j].got)
        /\ job[j].state = "Finished" =>
               /\ part[job[j].dest] # job[j].file
               /\ \A i \in Jobs : Writing(i) => job[i].file # job[j].file

(* A handler has one cleanup to do for a job, which it has marked; one     *)
(* whose staging write failed was called by the event loop.                *)
CleanupsAreDue ==
    /\ \A i \in DOMAIN stack : stack[i].then # "return" => stack[i].job \in Jobs
    /\ \A i \in DOMAIN stack : stack[i].then = "cleanup" => job[stack[i].job].state = "Failed"
    /\ \A i, k \in DOMAIN stack :
          stack[i].then = "cleanup" /\ stack[k].then = "cleanup" /\ stack[i].job = stack[k].job => i = k
    /\ \A i \in DOMAIN stack : stack[i].then = "failStaging" => i = 1

(* A job that may still give a verdict has given none, except the one a    *)
(* failed staging write is giving.                                         *)
VerdictsAreOwed ==
    \A j \in Jobs : verdicts[j] > 0 =>
        /\ Used(j)
        /\ job[j].state \in {"Downloading", "Cancelling"} =>
              \E i \in DOMAIN stack : stack[i].job = j /\ stack[i].then = "failStaging"

DownloadInv ==
    /\ DownloadTypeOK /\ IdsAreInOrder /\ InodesKeepNames /\ NamesakesHaveMet
    /\ FilledAlone /\ VerifiedIsWhole /\ CleanupsAreDue /\ VerdictsAreOwed

(* What an install root holds came from an archive that passed the path    *)
(* gate and has the layout the scanner of that root looks for, lies in its *)
(* owner's root, and is there with every file of the archive: a rejected,  *)
(* failed or repeated install leaves no half of an item, unless the old    *)
(* one could not be removed.                                               *)
TreeIsSound ==
    \A s \in DOMAIN tree :
        LET entries == ToSet(tree[s].from) IN
        /\ \A e \in entries : ".." \notin ToSet(CleanPath(e.path))
        /\ \E e \in entries : CleanPath(e.path) = Sentinel(s[1][2], s[2])
        /\ s[1][1] \in ValidOwners \cup {NoOwner}
        /\ ~tree[s].ruin => tree[s].files = RegularFiles(tree[s].from)

(* Every accepted cancel ends in the Cancelled report, in the failure that *)
(* was being reported when it came, or with the service.                   *)
CancelIsAnswered ==
    \A j \in Jobs : (job[j].state = "Cancelling") ~> (verdicts[j] > 0 \/ panel # "up")
=============================================================================
