---------------------------- MODULE DownloadProofs ----------------------------
(***************************************************************************)
(* Proofs about DownloadService and the archives it installs, for any      *)
(* number of jobs, chunks, nested callbacks, requests, plugins and         *)
(* archives: what is reported as finished is whole, a verdict is final but *)
(* for the one way round it, and what an install root holds passed the     *)
(* path gate.                                                              *)
(***************************************************************************)
EXTENDS DownloadService, FiniteSetTheorems, TLAPS

-----------------------------------------------------------------------------
(* The callbacks under way *)

LEMMA CalledCounts ==
    ASSUME stack \in Seq(Frames)
    PROVE /\ Called \in Seq(Frames) /\ Len(Called) = Len(stack)
          /\ \A i \in 1 .. Len(stack) : Called[i].job = stack[i].job /\ Called[i].then = stack[i].then
<1>1. CASE stack = <<>>
  BY <1>1 DEF Called
<1>2. CASE stack # <<>>
  <2>1. Len(stack) \in Nat /\ Len(stack) \in 1 .. Len(stack) /\ stack[Len(stack)] \in Frames
    BY <1>2
  <2> DEFINE top == [stack[Len(stack)] EXCEPT !.calls = @ + 1]
  <2>2. top \in Frames /\ top.job = stack[Len(stack)].job /\ top.then = stack[Len(stack)].then
    BY <2>1, SMTT(30) DEF Frames
  <2>3. Called = [stack EXCEPT ![Len(stack)] = top]
    BY <1>2 DEF Called
  <2> HIDE DEF top
  <2> QED
    BY <2>1, <2>2, <2>3
<1> QED
  BY <1>1, <1>2

\* A callback that begins is innermost; those below it stay what they are.
LEMMA Pushed ==
    ASSUME stack \in Seq(Frames), NEW j \in 0 .. MaxJobs, NEW told \in Tidings,
           NEW then \in {"return", "cleanup", "failStaging"}, Push(j, told, then)
    PROVE /\ stack' \in Seq(Frames) /\ Len(stack') = Len(stack) + 1 /\ DOMAIN stack' = 1 .. Len(stack) + 1
          /\ DOMAIN stack = 1 .. Len(stack) /\ Len(stack) \in Nat
          /\ \A i \in 1 .. Len(stack) : stack'[i].job = stack[i].job /\ stack'[i].then = stack[i].then
          /\ stack'[Len(stack) + 1].job = j /\ stack'[Len(stack) + 1].then = then
<1>1. Frame(j, told, then) \in Frames /\ Frame(j, told, then).job = j /\ Frame(j, told, then).then = then
  BY DEF Frame, Frames
<1> DEFINE f == Frame(j, told, then)
<1>2. stack' = Append(Called, f)
  BY DEF Push
<1> HIDE DEF f
<1>3. f \in Frames /\ f.job = j /\ f.then = then
  BY <1>1 DEF f
<1> QED
  BY <1>2, <1>3, CalledCounts

LEMMA Popped ==
    ASSUME stack \in Seq(Frames), stack # <<>>, Pop
    PROVE /\ stack' \in Seq(Frames) /\ DOMAIN stack' = 1 .. Len(stack) - 1 /\ DOMAIN stack = 1 .. Len(stack)
          /\ Len(stack) \in Nat \ {0} /\ Len(stack') = Len(stack) - 1
          /\ \A i \in 1 .. Len(stack) - 1 : stack'[i] = stack[i]
<1>1. Len(stack) \in Nat \ {0} /\ DOMAIN stack = 1 .. Len(stack)
  OBVIOUS
<1>2. stack' = SubSeq(stack, 1, Len(stack) - 1)
  BY DEF Pop, Front
<1>3. /\ SubSeq(stack, 1, Len(stack) - 1) \in Seq(Frames)
      /\ Len(SubSeq(stack, 1, Len(stack) - 1)) = Len(stack) - 1
      /\ \A i \in 1 .. Len(stack) - 1 : SubSeq(stack, 1, Len(stack) - 1)[i] = stack[i]
  BY <1>1
<1> DEFINE s == SubSeq(stack, 1, Len(stack) - 1)
<1> HIDE DEF s
<1>4. DOMAIN s = 1 .. Len(stack) - 1 /\ s \in Seq(Frames) /\ Len(s) = Len(stack) - 1
      /\ \A i \in 1 .. Len(stack) - 1 : s[i] = stack[i]
  BY <1>1, <1>3 DEF s
<1> QED
  BY <1>1, <1>2, <1>4 DEF s

-----------------------------------------------------------------------------
(* Jobs *)

LEMMA UsedIsStarted ==
    ASSUME DownloadTypeOK, NEW j \in Jobs
    PROVE /\ Used(j) => job[j] \in Started
          /\ Used(j) <=> job[j] # NoJob
          /\ job[j].state \in States \cup {"none"}
BY DEF DownloadTypeOK, Used, NoJob, Started, States

\* Setting the state of a started job leaves the rest of it and the others.
LEMMA StateIsSet ==
    ASSUME DownloadTypeOK, NEW j \in Jobs, Used(j), NEW s \in States, SetState(j, s)
    PROVE /\ job' \in [Jobs -> {NoJob} \cup Started]
          /\ job'[j].state = s /\ job'[j].dest = job[j].dest /\ job'[j].file = job[j].file
          /\ job'[j].got = job[j].got /\ job'[j].sha = job[j].sha
          /\ \A i \in Jobs \ {j} : job'[i] = job[i]
<1> DEFINE r == [job[j] EXCEPT !.state = s]
<1>1. job[j] \in Started
  BY UsedIsStarted
<1>2. /\ r \in Started /\ r.state = s /\ r.dest = job[j].dest /\ r.file = job[j].file
      /\ r.got = job[j].got /\ r.sha = job[j].sha
  BY <1>1 DEF Started
<1>3. job' = [job EXCEPT ![j] = r]
  BY DEF SetState
<1> HIDE DEF r
<1> QED
  BY <1>2, <1>3 DEF DownloadTypeOK

-----------------------------------------------------------------------------
(* Most steps only settle jobs: none starts, none is finished, nobody       *)
(* writes, and a .part that changes is gone.                                *)

Settles(i) ==
    /\ job'[i].dest = job[i].dest /\ job'[i].file = job[i].file /\ job'[i].sha = job[i].sha
    /\ (job'[i].state = "none") <=> (job[i].state = "none")
    /\ job'[i].state \in {"Downloading", "Cancelling", "Failed"} =>
          job[i].state \in {"Downloading", "Cancelling", "Failed"}
    /\ job'[i].state = "Downloading" => job[i].state = "Downloading" /\ job'[i].got = job[i].got
    /\ job'[i].state = "Finished" => job[i].state = "Finished"

FilesAreKept ==
    IdsAreInOrder /\ InodesKeepNames /\ NamesakesHaveMet /\ FilledAlone /\ VerifiedIsWhole

LEMMA SettlingKeepsFiles ==
    ASSUME DownloadTypeOK, FilesAreKept,
           \A i \in Jobs : Settles(i), \A n \in Names : part'[n] \in {part[n], 0},
           UNCHANGED <<data, shared, torn>>
    PROVE FilesAreKept'
<1>1. IdsAreInOrder'
  BY DEF FilesAreKept, IdsAreInOrder, Used, Settles
<1>2. \A j \in Jobs : Used(j) => job[j].file \in Jobs /\ job[j].dest \in Names
  BY UsedIsStarted DEF Started
<1>3. InodesKeepNames'
  <2>1. ASSUME NEW n \in Names, part'[n] # 0 PROVE Used(part[n])' /\ job'[part[n]].dest = n /\ part'[n] = part[n]
    <3>1. part'[n] = part[n] /\ part[n] \in Jobs
      BY <2>1 DEF DownloadTypeOK, Jobs
    <3> QED
      BY <2>1, <3>1 DEF FilesAreKept, InodesKeepNames, Used, Settles
  <2>2. ASSUME NEW j \in Jobs, Used(j)' PROVE Used(job[j].file)' /\ job'[job'[j].file].dest = job'[j].dest
    <3>1. Used(j) /\ job'[j].file = job[j].file /\ job'[j].dest = job[j].dest
      BY <2>2 DEF Used, Settles
    <3> QED
      BY <1>2, <3>1 DEF FilesAreKept, InodesKeepNames, Used, Settles
  <2> QED
    BY <2>1, <2>2 DEF InodesKeepNames, Used
<1>4. NamesakesHaveMet'
  BY DEF FilesAreKept, NamesakesHaveMet, Live, Settles
<1>5. FilledAlone'
  <2> SUFFICES ASSUME NEW j \in Jobs \ shared
               PROVE /\ Writing(j)' => data[job'[j].file] = Filled(j, job'[j].got)
                     /\ job'[j].state = "Finished" =>
                            /\ part'[job'[j].dest] # job'[j].file
                            /\ \A i \in Jobs : Writing(i)' => job'[i].file # job'[j].file
    BY DEF FilledAlone, Writing
  <2>1. Writing(j)' => data[job'[j].file] = Filled(j, job'[j].got)
    BY DEF FilesAreKept, FilledAlone, Writing, Settles
  <2>2. ASSUME job'[j].state = "Finished"
        PROVE /\ part'[job'[j].dest] # job'[j].file
              /\ \A i \in Jobs : Writing(i)' => job'[i].file # job'[j].file
    <3>1. job[j].state = "Finished" /\ Used(j) /\ job'[j].dest = job[j].dest /\ job'[j].file = job[j].file
      BY <2>2 DEF Used, Settles
    <3>2. part[job[j].dest] # job[j].file /\ \A i \in Jobs : Writing(i) => job[i].file # job[j].file
      BY <3>1 DEF FilesAreKept, FilledAlone
    <3>3. job[j].file # 0 /\ job[j].dest \in Names
      BY <1>2, <3>1 DEF Jobs
    <3> QED
      BY <3>1, <3>2, <3>3 DEF Writing, Settles
  <2> QED
    BY <2>1, <2>2
<1>6. VerifiedIsWhole'
  BY DEF FilesAreKept, VerifiedIsWhole, Settles
<1> QED
  BY <1>1, <1>3, <1>4, <1>5, <1>6 DEF FilesAreKept

-----------------------------------------------------------------------------
(* The debts of the callbacks under way *)

CallbacksAreSound == CleanupsAreDue /\ VerdictsAreOwed
Undecided(state) == state \in {"Downloading", "Cancelling"}

LEMMA PushKeepsCallbacks ==
    ASSUME DownloadTypeOK, CallbacksAreSound,
           NEW j \in 0 .. MaxJobs, NEW told \in Tidings,
           NEW then \in {"return", "cleanup", "failStaging"}, Push(j, told, then),
           \A i \in Jobs : /\ job[i].state = "Failed" => job'[i].state = "Failed"
                           /\ job[i].state # "none" => job'[i].state # "none"
                           /\ Undecided(job'[i].state) => Undecided(job[i].state),
           then # "return" => j \in Jobs /\ job[j].state # "Failed",
           then = "cleanup" => job'[j].state = "Failed",
           then = "failStaging" => stack = <<>>,
           \A i \in Jobs : \/ verdicts'[i] = verdicts[i]
                           \/ /\ i = j /\ job'[j].state # "none"
                              /\ ~Undecided(job'[j].state) \/ then = "failStaging"
    PROVE CallbacksAreSound'
<1> DEFINE n == Len(stack)
<1>1. /\ DOMAIN stack = 1 .. n /\ DOMAIN stack' = 1 .. n + 1 /\ n \in Nat
      /\ \A i \in 1 .. n : stack'[i].job = stack[i].job /\ stack'[i].then = stack[i].then
      /\ stack'[n + 1].job = j /\ stack'[n + 1].then = then
  BY Pushed DEF DownloadTypeOK
<1> HIDE DEF n
<1>2. \A i \in 1 .. n + 1 : i \in 1 .. n \/ i = n + 1
  BY <1>1
<1>3. CleanupsAreDue'
  <2>0. \A i \in 1 .. n :
          /\ stack[i].then # "return" => stack[i].job \in Jobs
          /\ stack[i].then = "cleanup" => job[stack[i].job].state = "Failed"
    BY <1>1 DEF CallbacksAreSound, CleanupsAreDue
  <2>1. \A i \in 1 .. n + 1 : stack'[i].then # "return" => stack'[i].job \in Jobs
    BY <1>1, <1>2, <2>0
  <2>2. ASSUME NEW i \in 1 .. n + 1, stack'[i].then = "cleanup" PROVE job'[stack'[i].job].state = "Failed"
    <3>1. CASE i \in 1 .. n
      <4>1. stack'[i].job = stack[i].job /\ stack[i].job \in Jobs /\ job[stack[i].job].state = "Failed"
        BY <1>1, <2>0, <2>2, <3>1
      <4> QED
        BY <4>1
    <3>2. CASE i = n + 1
      BY <1>1, <2>2, <3>2
    <3> QED
      BY <1>2, <3>1, <3>2
  <2>3. \A i, k \in 1 .. n + 1 :
          stack'[i].then = "cleanup" /\ stack'[k].then = "cleanup" /\ stack'[i].job = stack'[k].job => i = k
    BY <1>1, <1>2 DEF CallbacksAreSound, CleanupsAreDue
  <2>4. \A i \in 1 .. n + 1 : stack'[i].then = "failStaging" => i = 1
    BY <1>1, <1>2 DEF CallbacksAreSound, CleanupsAreDue, n
  <2> QED
    BY <1>1, <2>1, <2>2, <2>3, <2>4 DEF CleanupsAreDue
<1>4. VerdictsAreOwed'
  <2> SUFFICES ASSUME NEW i \in Jobs, verdicts'[i] > 0
               PROVE /\ job'[i].state # "none"
                     /\ Undecided(job'[i].state) =>
                            \E k \in 1 .. n + 1 : stack'[k].job = i /\ stack'[k].then = "failStaging"
    BY <1>1 DEF VerdictsAreOwed, Used, Undecided
  <2>1. CASE verdicts'[i] = verdicts[i]
    <3>1. /\ job[i].state # "none"
          /\ Undecided(job[i].state) =>
                \E k \in 1 .. n : stack[k].job = i /\ stack[k].then = "failStaging"
      BY <1>1, <2>1 DEF CallbacksAreSound, VerdictsAreOwed, Used, Undecided
    <3>2. \A k \in 1 .. n : k \in 1 .. n + 1
      BY <1>1
    <3> QED
      BY <1>1, <3>1, <3>2
  <2>2. CASE i = j /\ job'[j].state # "none" /\ (~Undecided(job'[j].state) \/ then = "failStaging")
    BY <1>1, <2>2
  <2> QED
    BY <2>1, <2>2
<1> QED
  BY <1>3, <1>4 DEF CallbacksAreSound

\* A call that is over before it returns: it may start a job.
LEMMA CallKeepsCallbacks ==
    ASSUME DownloadTypeOK, CallbacksAreSound, stack' = Called, UNCHANGED verdicts,
           \A i \in Jobs : /\ job[i].state = "Failed" => job'[i].state = "Failed"
                           /\ job[i].state # "none" => job'[i].state # "none"
                           /\ Undecided(job'[i].state) => Undecided(job[i].state) \/ job[i].state = "none"
    PROVE CallbacksAreSound'
<1> DEFINE n == Len(stack)
<1>1. /\ DOMAIN stack = 1 .. n /\ DOMAIN stack' = 1 .. n /\ n \in Nat
      /\ \A i \in 1 .. n : stack'[i].job = stack[i].job /\ stack'[i].then = stack[i].then
  <2>1. stack \in Seq(Frames)
    BY DEF DownloadTypeOK
  <2> QED
    BY <2>1, CalledCounts
<1> HIDE DEF n
<1>2. CleanupsAreDue'
  <2>1. \A i \in 1 .. n :
          /\ stack[i].then # "return" => stack[i].job \in Jobs
          /\ stack[i].then = "cleanup" => job[stack[i].job].state = "Failed"
          /\ stack[i].then = "failStaging" => i = 1
    BY <1>1 DEF CallbacksAreSound, CleanupsAreDue
  <2>2. \A i, k \in 1 .. n :
          stack[i].then = "cleanup" /\ stack[k].then = "cleanup" /\ stack[i].job = stack[k].job => i = k
    BY <1>1 DEF CallbacksAreSound, CleanupsAreDue
  <2>3. \A i \in 1 .. n : stack[i].then = "cleanup" => job'[stack[i].job].state = "Failed"
    BY <2>1
  <2> QED
    BY <1>1, <2>1, <2>2, <2>3 DEF CleanupsAreDue
<1>3. VerdictsAreOwed'
  <2> SUFFICES ASSUME NEW i \in Jobs, verdicts[i] > 0
               PROVE /\ job'[i].state # "none"
                     /\ Undecided(job'[i].state) =>
                            \E k \in 1 .. n : stack'[k].job = i /\ stack'[k].then = "failStaging"
    BY <1>1 DEF VerdictsAreOwed, Used, Undecided
  <2>1. /\ job[i].state # "none"
        /\ Undecided(job[i].state) =>
              \E k \in 1 .. n : stack[k].job = i /\ stack[k].then = "failStaging"
    BY <1>1 DEF CallbacksAreSound, VerdictsAreOwed, Used, Undecided
  <2> QED
    BY <1>1, <2>1
<1> QED
  BY <1>2, <1>3 DEF CallbacksAreSound

LEMMA PopKeepsCallbacks ==
    ASSUME DownloadTypeOK, CallbacksAreSound, stack # <<>>, Pop, UNCHANGED verdicts,
           \A i \in Jobs : \/ job'[i].state = job[i].state
                           \/ i = Top.job /\ job'[i].state = "gone" /\ Top.then # "return",
           Top.then = "failStaging" => ~Undecided(job'[Top.job].state),
           Top.then = "return" => UNCHANGED job
    PROVE CallbacksAreSound'
<1> DEFINE n == Len(stack)
<1>1. /\ DOMAIN stack = 1 .. n /\ DOMAIN stack' = 1 .. n - 1 /\ n \in Nat \ {0}
      /\ \A i \in 1 .. n - 1 : stack'[i] = stack[i]
  BY Popped DEF DownloadTypeOK
<1>2. Top = stack[n]
  BY DEF Top
<1> HIDE DEF n
<1>3. CleanupsAreDue'
  <2>1. ASSUME NEW i \in 1 .. n - 1, stack[i].then = "cleanup" PROVE job'[stack[i].job].state = "Failed"
    <3>1. job[stack[i].job].state = "Failed" /\ stack[i].job \in Jobs
      BY <1>1, <2>1 DEF CallbacksAreSound, CleanupsAreDue
    <3>2. Top.then = "cleanup" => stack[i].job # Top.job
      BY <1>1, <1>2, <2>1 DEF CallbacksAreSound, CleanupsAreDue
    <3>3. Top.then = "failStaging" => n = 1
      BY <1>1, <1>2 DEF CallbacksAreSound, CleanupsAreDue
    <3>4. Top.then \in {"return", "cleanup", "failStaging"}
      <4>1. stack[n] \in Frames
        BY <1>1 DEF DownloadTypeOK
      <4> QED
        BY <1>2, <4>1 DEF Frames
    <3> QED
      BY <1>1, <3>1, <3>2, <3>3, <3>4
  <2> QED
    BY <1>1, <2>1 DEF CallbacksAreSound, CleanupsAreDue
<1>4. VerdictsAreOwed'
  <2> SUFFICES ASSUME NEW i \in Jobs, verdicts[i] > 0
               PROVE /\ job'[i].state # "none"
                     /\ Undecided(job'[i].state) =>
                            \E k \in 1 .. n - 1 : stack'[k].job = i /\ stack'[k].then = "failStaging"
    BY <1>1 DEF VerdictsAreOwed, Used, Undecided
  <2>1. /\ job[i].state # "none"
        /\ Undecided(job[i].state) =>
              \E k \in 1 .. n : stack[k].job = i /\ stack[k].then = "failStaging"
    BY <1>1 DEF CallbacksAreSound, VerdictsAreOwed, Used, Undecided
  <2>2. \A k \in 1 .. n : k \in 1 .. n - 1 \/ k = n
    BY <1>1
  <2> QED
    BY <1>1, <1>2, <2>1, <2>2 DEF Undecided
<1> QED
  BY <1>3, <1>4 DEF CallbacksAreSound

-----------------------------------------------------------------------------
(* Writing to a file *)

LEMMA WrittenIsAFile ==
    ASSUME NEW file \in Seq(0 .. MaxJobs), NEW k \in Nat, NEW n \in Nat, NEW j \in Jobs
    PROVE Written(file, k, n, j) \in Seq(0 .. MaxJobs)
<1> DEFINE m == IF n > Len(file) THEN n ELSE Len(file)
<1>1. Len(file) \in Nat /\ \A i \in 1 .. Len(file) : file[i] \in 0 .. MaxJobs
  <2> DEFINE S == 0 .. MaxJobs
  <2>1. file \in Seq(S)
    OBVIOUS
  <2> HIDE DEF S
  <2>2. Len(file) \in Nat /\ \A i \in 1 .. Len(file) : file[i] \in S
    BY <2>1
  <2> QED
    BY <2>2 DEF S
<1>0. m \in Nat
  BY <1>1
<1> HIDE DEF m
<1>2. \A i \in 1 .. m : (IF i \in k .. n THEN j ELSE IF i <= Len(file) THEN file[i] ELSE 0) \in 0 .. MaxJobs
  BY <1>1, DownloadAssumption DEF Jobs, DownloadAssumption
<1>3. Written(file, k, n, j) = [i \in 1 .. m |-> IF i \in k .. n THEN j ELSE IF i <= Len(file) THEN file[i] ELSE 0]
  BY DEF Written, m
<1> QED
  BY <1>0, <1>2, <1>3

\* Who fills a file alone and in order goes on doing so.
LEMMA WrittenOn ==
    ASSUME NEW g \in Nat, NEW n \in Nat, g <= n, NEW j \in Jobs
    PROVE Written(Filled(j, g), g + 1, n, j) = Filled(j, n)
<1> DEFINE file == [i \in 1 .. g |-> j]
<1>1. Len(file) = g /\ \A i \in 1 .. g : file[i] = j
  OBVIOUS
<1> HIDE DEF file
<1>2. Written(file, g + 1, n, j) =
          [i \in 1 .. n |-> IF i \in g + 1 .. n THEN j ELSE IF i <= g THEN file[i] ELSE 0]
  BY <1>1 DEF Written
<1>3. \A i \in 1 .. n : (IF i \in g + 1 .. n THEN j ELSE IF i <= g THEN file[i] ELSE 0) = j
  BY <1>1
<1> QED
  BY <1>2, <1>3 DEF file, Filled

\* A job that writes disturbs no other that has its file for itself, and is
\* not disturbed when it has met no namesake.
LEMMA WritingKeepsFiles ==
    ASSUME DownloadTypeOK, FilesAreKept, NEW j \in Jobs, Writing(j), NEW f,
           data' = [data EXCEPT ![job[j].file] = f],
           \A i \in Jobs \ {j} : job'[i] = job[i],
           job'[j].dest = job[j].dest, job'[j].file = job[j].file, job'[j].sha = job[j].sha,
           job'[j].state \in {"Downloading", "Failed", "Finished"},
           j \notin shared /\ job'[j].state = "Downloading" => f = Filled(j, job'[j].got),
           job'[j].state = "Finished" => part'[job[j].dest] = 0 /\ job[j].sha # "wrong",
           job'[j].state = "Finished" /\ j \notin shared \cup torn' => f = Whole(j),
           \A n \in Names : part'[n] \in {part[n], 0},
           UNCHANGED shared, torn \subseteq torn'
    PROVE FilesAreKept'
<1>1. \A i \in Jobs : /\ job'[i].dest = job[i].dest /\ job'[i].file = job[i].file
                      /\ Used(i)' <=> Used(i)
                      /\ Live(i)' => Live(i)
                      /\ Writing(i)' => Writing(i)
  BY DEF Used, Live, Writing
<1>2. \A i \in Jobs : Used(i) => job[i].file \in Jobs /\ job[i].dest \in Names
  BY UsedIsStarted DEF Started
<1>3. IdsAreInOrder'
  BY <1>1 DEF FilesAreKept, IdsAreInOrder
<1>4. InodesKeepNames'
  <2>1. ASSUME NEW n \in Names, part'[n] # 0 PROVE Used(part[n])' /\ job'[part[n]].dest = n /\ part'[n] = part[n]
    <3>1. part'[n] = part[n] /\ part[n] \in Jobs
      BY <2>1 DEF DownloadTypeOK, Jobs
    <3> QED
      BY <1>1, <2>1, <3>1 DEF FilesAreKept, InodesKeepNames
  <2>2. ASSUME NEW i \in Jobs, Used(i)' PROVE Used(job[i].file)' /\ job'[job'[i].file].dest = job'[i].dest
    BY <1>1, <1>2, <2>2 DEF FilesAreKept, InodesKeepNames
  <2> QED
    BY <1>1, <2>1, <2>2 DEF InodesKeepNames, Used
<1>5. NamesakesHaveMet'
  BY <1>1 DEF FilesAreKept, NamesakesHaveMet
<1>6. ASSUME NEW i \in Jobs, Writing(i), i # j, i \notin shared \/ j \notin shared PROVE job[i].file # job[j].file
  <2>1. Live(i) /\ Live(j) /\ Used(i) /\ Used(j)
    BY <1>6 DEF Writing, Live, Used
  <2>2. job[i].file = job[j].file => job[i].dest = job[j].dest
    BY <2>1 DEF FilesAreKept, InodesKeepNames
  <2> QED
    BY <1>6, <2>1, <2>2 DEF FilesAreKept, NamesakesHaveMet
<1>7. \A i \in Jobs \ {j} : i \notin shared /\ job[i].state = "Finished" => job[i].file # job[j].file
  BY DEF FilesAreKept, FilledAlone
<1>8. /\ \A i \in Jobs : i # job[j].file => data'[i] = data[i]
      /\ data'[job[j].file] = f
  BY <1>2 DEF DownloadTypeOK, Writing, Used
<1>9. FilledAlone'
  <2> SUFFICES ASSUME NEW i \in Jobs, i \notin shared
               PROVE /\ Writing(i)' => data'[job'[i].file] = Filled(i, job'[i].got)
                     /\ job'[i].state = "Finished" =>
                            /\ part'[job'[i].dest] # job'[i].file
                            /\ \A k \in Jobs : Writing(k)' => job'[k].file # job'[i].file
    BY DEF FilledAlone, Writing
  <2>1. CASE i = j
    <3>1. Writing(j)' => data'[job'[j].file] = Filled(j, job'[j].got)
      BY <1>8, <2>1 DEF Writing
    <3>2. ASSUME job'[j].state = "Finished"
          PROVE /\ part'[job'[j].dest] # job'[j].file
                /\ \A k \in Jobs : Writing(k)' => job'[k].file # job'[j].file
      BY <1>1, <1>2, <1>6, <2>1, <3>2 DEF Writing, Used, Jobs
    <3> QED
      BY <2>1, <3>1, <3>2
  <2>2. CASE i # j
    <3>1. job'[i] = job[i]
      BY <2>2
    <3>2. Writing(i) => data[job[i].file] = Filled(i, job[i].got) /\ job[i].file \in Jobs
      BY <1>2 DEF FilesAreKept, FilledAlone, Writing, Used
    <3>3. Writing(i)' => data'[job'[i].file] = Filled(i, job'[i].got)
      BY <1>6, <1>8, <2>2, <3>1, <3>2 DEF Writing
    <3>4. ASSUME job'[i].state = "Finished"
          PROVE /\ part'[job'[i].dest] # job'[i].file
                /\ \A k \in Jobs : Writing(k)' => job'[k].file # job'[i].file
      <4>1. Used(i) /\ job[i].file # 0 /\ job[i].dest \in Names
        BY <1>2, <3>1, <3>4 DEF Used, Jobs
      <4>2. part[job[i].dest] # job[i].file /\ \A k \in Jobs : Writing(k) => job[k].file # job[i].file
        BY <3>1, <3>4 DEF FilesAreKept, FilledAlone
      <4> QED
        BY <1>1, <3>1, <4>1, <4>2
    <3> QED
      BY <3>3, <3>4
  <2> QED
    BY <2>1, <2>2
<1>10. VerifiedIsWhole'
  <2> SUFFICES ASSUME NEW i \in Jobs, job'[i].state = "Finished", i \notin shared \cup torn'
               PROVE job'[i].sha # "wrong" /\ data'[job'[i].file] = Whole(i)
    BY DEF VerifiedIsWhole, Whole
  <2>1. CASE i = j
    BY <1>8, <2>1
  <2>2. CASE i # j
    <3>1. job'[i] = job[i] /\ job[i].file \in Jobs
      BY <1>2, <2>2 DEF Used
    <3>2. job[i].sha # "wrong" /\ data[job[i].file] = Whole(i)
      BY <3>1 DEF FilesAreKept, VerifiedIsWhole
    <3> QED
      BY <1>7, <1>8, <2>2, <3>1, <3>2
  <2> QED
    BY <2>1, <2>2
<1> QED
  BY <1>3, <1>4, <1>5, <1>9, <1>10 DEF FilesAreKept

-----------------------------------------------------------------------------
(* The steps *)

Inv == DownloadTypeOK /\ FilesAreKept /\ CallbacksAreSound

\* What a step leaves in place besides the jobs and their files.
LEMMA QuietStep ==
    ASSUME Inv, stack' \in Seq(Frames), UNCHANGED <<job, part, staged, data, verdicts, shared, torn>>,
           panel' \in {"up", "down", "crashed"}
    PROVE DownloadTypeOK' /\ FilesAreKept'
<1>1. DownloadTypeOK'
  BY DEF Inv, DownloadTypeOK
<1>2. \A i \in Jobs : Settles(i)
  BY DEF Settles
<1> QED
  BY <1>1, <1>2, SettlingKeepsFiles DEF Inv

\* A callback that is only told something.
LEMMA ToldOnly ==
    ASSUME Inv, NEW j \in 0 .. MaxJobs, NEW told \in Tidings, Push(j, told, "return"),
           UNCHANGED <<job, part, staged, data, verdicts, shared, torn, panel>>
    PROVE Inv'
<1>1. stack' \in Seq(Frames)
  BY Pushed DEF Inv, DownloadTypeOK
<1>2. DownloadTypeOK' /\ FilesAreKept'
  BY <1>1, QuietStep DEF Inv, DownloadTypeOK
<1>3. CallbacksAreSound'
  BY PushKeepsCallbacks DEF Inv
<1> QED
  BY <1>2, <1>3 DEF Inv

LEMMA VerdictGiven ==
    ASSUME DownloadTypeOK, NEW j \in Jobs, Verdict(j)
    PROVE verdicts' \in [Jobs -> Nat] /\ \A i \in Jobs \ {j} : verdicts'[i] = verdicts[i]
BY DEF DownloadTypeOK, Verdict

LEMMA JobsAreNumbers == \A j \in Jobs : j \in 0 .. MaxJobs
BY DownloadAssumption DEF Jobs, DownloadAssumption

LEMMA AllAreTidings == {"progress", "error", "cancelled", "finished", "rejected", "installed"} \subseteq Tidings
BY DEF Tidings

\* A job fails, with its last verdict.
LEMMA Failing ==
    ASSUME Inv, NEW j \in Jobs, job[j].state \in {"Downloading", "Cancelling"}, SetState(j, "Failed"),
           NEW told \in Tidings, Push(j, told, "cleanup"), Verdict(j),
           UNCHANGED <<part, staged, data, shared, torn, panel>>
    PROVE Inv'
<1>1. Used(j)
  BY DEF Used
<1>2. /\ job' \in [Jobs -> {NoJob} \cup Started]
      /\ job'[j].state = "Failed" /\ job'[j].dest = job[j].dest /\ job'[j].file = job[j].file
      /\ job'[j].got = job[j].got /\ job'[j].sha = job[j].sha
      /\ \A i \in Jobs \ {j} : job'[i] = job[i]
  BY <1>1, StateIsSet DEF Inv, States
<1>3. stack' \in Seq(Frames)
  BY JobsAreNumbers, AllAreTidings, Pushed DEF Inv, DownloadTypeOK
<1>4. verdicts' \in [Jobs -> Nat] /\ \A i \in Jobs \ {j} : verdicts'[i] = verdicts[i]
  BY VerdictGiven DEF Inv
<1>5. DownloadTypeOK'
  BY <1>2, <1>3, <1>4 DEF Inv, DownloadTypeOK
<1>6. FilesAreKept'
  <2>1. \A i \in Jobs : Settles(i)
    BY <1>2 DEF Settles
  <2> QED
    BY <2>1, SettlingKeepsFiles DEF Inv
<1>7. CallbacksAreSound'
  BY <1>2, <1>4, JobsAreNumbers, AllAreTidings, PushKeepsCallbacks DEF Inv, Undecided
<1> QED
  BY <1>5, <1>6, <1>7 DEF Inv

LEMMA StepReadyRead ==
    ASSUME Inv, NEW j \in Jobs, HandleReadyRead(j)
    PROVE Inv'
<1>0. job[j].state = "Downloading" /\ job[j].got < Size /\ stack = <<>> /\ Used(j) /\ Writing(j)
  BY DEF HandleReadyRead, EventLoop, Used, Writing
<1>1. CASE /\ job' = [job EXCEPT ![j].got = @ + 1]
           /\ data' = [data EXCEPT ![job[j].file] = Written(@, job[j].got + 1, job[j].got + 1, j)]
           /\ Push(j, "progress", "return") /\ UNCHANGED verdicts
  <2> DEFINE r == [job[j] EXCEPT !.got = @ + 1]
             f == Written(data[job[j].file], job[j].got + 1, job[j].got + 1, j)
  <2>1. job[j] \in Started /\ job[j].got \in Nat /\ Size \in Nat /\ job[j].file \in Jobs
    BY <1>0, UsedIsStarted, DownloadAssumption DEF Inv, Started, DownloadAssumption
  <2>2. /\ r \in Started /\ r.state = job[j].state /\ r.dest = job[j].dest /\ r.file = job[j].file
        /\ r.sha = job[j].sha /\ r.got = job[j].got + 1
    BY <1>0, <2>1 DEF Started
  <2>3. job' = [job EXCEPT ![j] = r]
    BY <1>1
  <2>4. f \in Seq(0 .. MaxJobs) /\ data' = [data EXCEPT ![job[j].file] = f]
    <3>1. data[job[j].file] \in Seq(0 .. MaxJobs) /\ job[j].got + 1 \in Nat
      BY <2>1 DEF Inv, DownloadTypeOK
    <3> QED
      BY <1>1, <3>1, WrittenIsAFile
  <2>5. j \notin shared => f = Filled(j, job[j].got + 1)
    <3>1. j \notin shared => data[job[j].file] = Filled(j, job[j].got)
      BY <1>0 DEF Inv, FilesAreKept, FilledAlone
    <3>2. Written(Filled(j, job[j].got), job[j].got + 1, job[j].got + 1, j) = Filled(j, job[j].got + 1)
      BY <2>1, WrittenOn
    <3> QED
      BY <3>1, <3>2
  <2> HIDE DEF r, f
  <2>6. UNCHANGED <<part, staged, shared, torn, panel>>
    BY DEF HandleReadyRead
  <2>7. job' \in [Jobs -> {NoJob} \cup Started] /\ job'[j] = r /\ \A i \in Jobs \ {j} : job'[i] = job[i]
    BY <2>2, <2>3 DEF Inv, DownloadTypeOK
  <2>8. stack' \in Seq(Frames)
    BY <1>1, JobsAreNumbers, AllAreTidings, Pushed DEF Inv, DownloadTypeOK
  <2>9. DownloadTypeOK'
    <3>1. data' \in [Jobs -> Seq(0 .. MaxJobs)]
      BY <2>4 DEF Inv, DownloadTypeOK
    <3> QED
      BY <1>1, <2>6, <2>7, <2>8, <3>1 DEF Inv, DownloadTypeOK
  <2>10. FilesAreKept'
    BY <1>0, <2>2, <2>4, <2>5, <2>6, <2>7, WritingKeepsFiles DEF Inv
  <2>11. CallbacksAreSound'
    BY <1>1, <2>2, <2>7, JobsAreNumbers, AllAreTidings, PushKeepsCallbacks DEF Inv
  <2> QED
    BY <2>9, <2>10, <2>11 DEF Inv
<1>2. CASE Push(j, "error", "failStaging") /\ Verdict(j) /\ UNCHANGED <<job, data>>
  <2>1. UNCHANGED <<part, staged, shared, torn, panel>>
    BY DEF HandleReadyRead
  <2>2. stack' \in Seq(Frames)
    BY <1>2, JobsAreNumbers, AllAreTidings, Pushed DEF Inv, DownloadTypeOK
  <2>3. verdicts' \in [Jobs -> Nat] /\ \A i \in Jobs \ {j} : verdicts'[i] = verdicts[i]
    BY <1>2, VerdictGiven DEF Inv
  <2>4. DownloadTypeOK'
    BY <1>2, <2>1, <2>2, <2>3 DEF Inv, DownloadTypeOK
  <2>5. FilesAreKept'
    <3>1. \A i \in Jobs : Settles(i)
      BY <1>2 DEF Settles
    <3> QED
      BY <1>2, <2>1, <3>1, SettlingKeepsFiles DEF Inv
  <2>6. CallbacksAreSound'
    BY <1>0, <1>2, <2>3, JobsAreNumbers, AllAreTidings, PushKeepsCallbacks DEF Inv
  <2> QED
    BY <2>4, <2>5, <2>6 DEF Inv
<1> QED
  BY <1>1, <1>2 DEF HandleReadyRead

LEMMA StepFinished ==
    ASSUME Inv, NEW j \in Jobs, NEW lost \in BOOLEAN, NEW renamed \in BOOLEAN, HandleFinished(j, lost, renamed)
    PROVE Inv'
<1> DEFINE name == job[j].dest
           promoted == DigestOk(j) /\ renamed /\ part[name] # 0
           drained == [job[j] EXCEPT !.got = Size]
           r == [drained EXCEPT !.state = IF promoted THEN "Finished" ELSE "Failed"]
           f == IF lost \/ job[j].got = Size THEN data[job[j].file]
                ELSE Written(data[job[j].file], job[j].got + 1, Size, j)
<1>0. job[j].state = "Downloading" /\ Used(j) /\ Writing(j)
  BY DEF HandleFinished, Used, Writing
<1>1. /\ job[j] \in Started /\ job[j].got \in 0 .. Size /\ Size \in Nat
      /\ job[j].file \in Jobs /\ name \in Names
  BY <1>0, UsedIsStarted, DownloadAssumption DEF Inv, Started, DownloadAssumption
<1>2. /\ drained \in Started /\ drained.dest = name /\ drained.file = job[j].file
      /\ drained.sha = job[j].sha /\ drained.got = Size
  BY <1>1 DEF Started
<1>3. /\ r \in Started /\ r.state = (IF promoted THEN "Finished" ELSE "Failed")
      /\ r.dest = name /\ r.file = job[j].file /\ r.sha = job[j].sha
  <2> HIDE DEF drained, promoted
  <2> QED
    BY <1>2 DEF Started, States
<1>4. job' = [job EXCEPT ![j] = r]
  BY <1>0 DEF HandleFinished, Inv, DownloadTypeOK
<1>5. data' = [data EXCEPT ![job[j].file] = f]
  BY DEF HandleFinished, WithTail
<1>6. f \in Seq(0 .. MaxJobs)
  <2>1. data[job[j].file] \in Seq(0 .. MaxJobs)
    BY <1>1 DEF Inv, DownloadTypeOK
  <2>2. job[j].got + 1 \in Nat
    BY <1>1
  <2>3. Written(data[job[j].file], job[j].got + 1, Size, j) \in Seq(0 .. MaxJobs)
    BY <1>1, <2>1, <2>2, WrittenIsAFile
  <2> QED
    BY <2>1, <2>3
<1>7. j \notin shared /\ ~lost => f = Whole(j)
  <2>1. j \notin shared => data[job[j].file] = Filled(j, job[j].got)
    BY <1>0 DEF Inv, FilesAreKept, FilledAlone
  <2>2. Written(Filled(j, job[j].got), job[j].got + 1, Size, j) = Whole(j)
    BY <1>1, WrittenOn DEF Whole
  <2> QED
    BY <2>1, <2>2 DEF Whole
<1>8. /\ torn' = (IF lost THEN torn \cup {j} ELSE torn)
      /\ staged' = [staged EXCEPT ![name] = CASE promoted -> part[name] [] DigestOk(j) -> 0 [] OTHER -> @]
      /\ part' = (IF promoted THEN [part EXCEPT ![name] = 0] ELSE part)
      /\ IF promoted THEN Push(j, "finished", "return") ELSE Push(j, "error", "cleanup")
      /\ Verdict(j) /\ UNCHANGED <<shared, panel>> /\ stack = <<>>
  BY DEF HandleFinished, EventLoop
<1>9. promoted => job[j].sha # "wrong"
  BY DEF DigestOk
<1> HIDE DEF r, f, drained, promoted, name
<1>10. job' \in [Jobs -> {NoJob} \cup Started] /\ job'[j] = r /\ \A i \in Jobs \ {j} : job'[i] = job[i]
  BY <1>3, <1>4 DEF Inv, DownloadTypeOK
<1>11. stack' \in Seq(Frames)
  BY <1>8, JobsAreNumbers, AllAreTidings, Pushed DEF Inv, DownloadTypeOK
<1>12. verdicts' \in [Jobs -> Nat] /\ \A i \in Jobs \ {j} : verdicts'[i] = verdicts[i]
  BY <1>8, VerdictGiven DEF Inv
<1>13. part' \in [Names -> 0 .. MaxJobs] /\ staged' \in [Names -> 0 .. MaxJobs]
  <2>1. part[name] \in 0 .. MaxJobs /\ 0 \in 0 .. MaxJobs
    BY <1>1, DownloadAssumption DEF Inv, DownloadTypeOK, DownloadAssumption
  <2> QED
    BY <1>8, <2>1 DEF Inv, DownloadTypeOK
<1>14. DownloadTypeOK'
  BY <1>5, <1>6, <1>8, <1>10, <1>11, <1>12, <1>13 DEF Inv, DownloadTypeOK
<1>15. FilesAreKept'
  <2>1. promoted => part'[name] = 0
    BY <1>1, <1>8 DEF Inv, DownloadTypeOK
  <2>2. \A n \in Names : part'[n] \in {part[n], 0}
    BY <1>8 DEF Inv, DownloadTypeOK
  <2>3. job'[j].state = "Finished" <=> promoted
    BY <1>3, <1>10
  <2>4. torn \subseteq torn' /\ (j \notin torn' => ~lost)
    BY <1>8
  <2> QED
    BY <1>0, <1>3, <1>5, <1>7, <1>8, <1>9, <1>10, <2>1, <2>2, <2>3, <2>4, WritingKeepsFiles DEF Inv, name
<1>16. CallbacksAreSound'
  BY <1>0, <1>3, <1>8, <1>10, <1>12, JobsAreNumbers, AllAreTidings, PushKeepsCallbacks DEF Inv, Undecided
<1> QED
  BY <1>14, <1>15, <1>16 DEF Inv

\* A call that is answered later, or that starts a job, keeps the debts.
LEMMA StepCancel ==
    ASSUME Inv, NEW j \in Jobs, NEW c \in Callers, Cancel(c, j)
    PROVE Inv'
<1>0. job[j].state = "Downloading" /\ Used(j) /\ UNCHANGED <<part, staged, data, shared, torn, panel>>
  BY DEF Cancel, Used
<1>1. CASE ReportCancelled(j)
  BY <1>0, <1>1, AllAreTidings, Failing DEF ReportCancelled
<1>2. CASE SetState(j, "Cancelling") /\ stack' = Called /\ UNCHANGED verdicts
  <2>1. /\ job' \in [Jobs -> {NoJob} \cup Started]
        /\ job'[j].state = "Cancelling" /\ job'[j].dest = job[j].dest /\ job'[j].file = job[j].file
        /\ job'[j].sha = job[j].sha /\ \A i \in Jobs \ {j} : job'[i] = job[i]
    BY <1>0, <1>2, StateIsSet DEF Inv, States
  <2>2. stack' \in Seq(Frames)
    BY <1>2, CalledCounts DEF Inv, DownloadTypeOK
  <2>3. DownloadTypeOK'
    BY <1>0, <1>2, <2>1, <2>2 DEF Inv, DownloadTypeOK
  <2>4. FilesAreKept'
    <3>1. \A i \in Jobs : Settles(i)
      BY <1>0, <2>1 DEF Settles
    <3> QED
      BY <1>0, <3>1, SettlingKeepsFiles DEF Inv
  <2>5. CallbacksAreSound'
    BY <1>0, <1>2, <2>1, CallKeepsCallbacks DEF Inv, Undecided
  <2> QED
    BY <2>3, <2>4, <2>5 DEF Inv
<1> QED
  BY <1>1, <1>2 DEF Cancel

\* The next id is one that no job had.
LEMMA NextIsFresh ==
    ASSUME IdsAreInOrder
    PROVE LET n == Cardinality({i \in Jobs : job[i].state # "none"})
          IN  n \in 0 .. MaxJobs /\ \A i \in Jobs : Used(i) <=> i <= n
<1>1. PICK n \in 0 .. MaxJobs : \A i \in Jobs : Used(i) <=> i <= n
  BY DEF IdsAreInOrder
<1>2. {i \in Jobs : job[i].state # "none"} = 1 .. n
  BY <1>1, DownloadAssumption DEF Jobs, Used, DownloadAssumption
<1>3. Cardinality(1 .. n) = n
  BY DownloadAssumption, FS_Interval DEF DownloadAssumption
<1> QED
  BY <1>1, <1>2, <1>3

LEMMA StepStart ==
    ASSUME Inv, NEW c \in Callers, NEW r \in Requests, StartJob(c, r)
    PROVE Inv'
<1> DEFINE j == 1 + Cardinality({i \in Jobs : job[i].state # "none"})
           file == Opened(j, r.dest)
           new == [state |-> "Downloading", dest |-> r.dest, got |-> 0,
                   file |-> file, scheme |-> r.scheme, sha |-> r.sha, archive |-> r.archive]
<1>1. /\ r.dest \in Names /\ j \in Jobs
      /\ job' = [job EXCEPT ![j] = new]
      /\ part' = [part EXCEPT ![r.dest] = file]
      /\ data' = [data EXCEPT ![file] = <<>>]
      /\ shared' = (IF SameName(r) = {} THEN shared ELSE shared \cup SameName(r) \cup {j})
      /\ stack' = Called
      /\ UNCHANGED <<staged, tree, verdicts, torn, panel>>
  BY DEF StartJob, ValidateRequest
<1>2. j - 1 \in 0 .. MaxJobs /\ \A i \in Jobs : Used(i) <=> i <= j - 1
  <2> DEFINE n == Cardinality({i \in Jobs : job[i].state # "none"})
  <2>1. n \in 0 .. MaxJobs /\ \A i \in Jobs : Used(i) <=> i <= n
    BY NextIsFresh DEF Inv, FilesAreKept
  <2>2. j = 1 + n
    OBVIOUS
  <2> HIDE DEF j, n
  <2>3. j - 1 = n
    BY <2>1, <2>2, DownloadAssumption DEF DownloadAssumption
  <2> QED
    BY <2>1, <2>3
<1>3. file = j \/ (file = part[r.dest] /\ file # 0)
  BY DEF Opened
<1> HIDE DEF j
<1>4. j \in 1 .. MaxJobs /\ ~Used(j) /\ \A i \in Jobs : (Used(i) \/ i = j) <=> i <= j
  BY <1>1, <1>2, DownloadAssumption DEF Jobs, DownloadAssumption
<1> HIDE DEF file
<1>5. file \in Jobs
  BY <1>1, <1>3 DEF Inv, DownloadTypeOK, Jobs
<1>6. /\ new \in Started /\ new.state = "Downloading" /\ new.dest = r.dest /\ new.got = 0
      /\ new.file = file
  BY <1>1, <1>5, DownloadAssumption DEF Started, States, DownloadAssumption
<1> HIDE DEF new
<1>7. job' \in [Jobs -> {NoJob} \cup Started] /\ job'[j] = new /\ \A i \in Jobs \ {j} : job'[i] = job[i]
  BY <1>1, <1>6 DEF Inv, DownloadTypeOK
<1>8. /\ data' \in [Jobs -> Seq(0 .. MaxJobs)] /\ data'[file] = <<>>
      /\ \A i \in Jobs \ {file} : data'[i] = data[i]
  <2> DEFINE S == Seq(0 .. MaxJobs)
  <2>1. <<>> \in S
    OBVIOUS
  <2>2. data \in [Jobs -> S]
    BY DEF Inv, DownloadTypeOK
  <2> HIDE DEF S
  <2>3. data' \in [Jobs -> S] /\ data'[file] = <<>> /\ \A i \in Jobs \ {file} : data'[i] = data[i]
    BY <1>1, <1>5, <2>1, <2>2
  <2> QED
    BY <2>3 DEF S
<1>9. /\ part' \in [Names -> 0 .. MaxJobs] /\ part'[r.dest] = file
      /\ \A n \in Names \ {r.dest} : part'[n] = part[n]
  BY <1>1, <1>5, JobsAreNumbers DEF Inv, DownloadTypeOK
<1>10. SameName(r) \subseteq Jobs /\ shared \subseteq shared' /\ shared' \subseteq Jobs
  BY <1>1 DEF SameName, Inv, DownloadTypeOK
<1>11. DownloadTypeOK'
  <2>1. stack' \in Seq(Frames)
    BY <1>1, CalledCounts DEF Inv, DownloadTypeOK
  <2> QED
    BY <1>1, <1>7, <1>8, <1>9, <1>10, <2>1 DEF Inv, DownloadTypeOK
<1>12. /\ job'[j].state # "none" /\ \A i \in Jobs \ {j} : Used(i)' <=> Used(i)
       /\ \A i \in Jobs : Used(i) => i # j /\ job[i].file \in Jobs /\ job[i].dest \in Names
  <2>1. \A i \in Jobs : Used(i) => job[i].file \in Jobs /\ job[i].dest \in Names
    BY UsedIsStarted DEF Inv, Started
  <2> QED
    BY <1>4, <1>6, <1>7, <2>1 DEF Used
<1>13. /\ \A i \in Jobs : Used(i) => Used(job[i].file) /\ job[job[i].file].dest = job[i].dest
       /\ \A n \in Names : part[n] # 0 => part[n] \in Jobs /\ Used(part[n]) /\ job[part[n]].dest = n
  BY DEF Inv, DownloadTypeOK, FilesAreKept, InodesKeepNames, Jobs
<1>14. file # j => Used(file) /\ job[file].dest = r.dest
  BY <1>1, <1>3, <1>13
<1>15. IdsAreInOrder'
  <2>1. \A i \in Jobs : job'[i].state # "none" <=> i <= j
    BY <1>4, <1>12 DEF Used
  <2>2. j \in 0 .. MaxJobs
    BY <1>4, DownloadAssumption DEF DownloadAssumption
  <2>3. \E n \in 0 .. MaxJobs : \A i \in Jobs : job'[i].state # "none" <=> i <= n
    BY <2>1, <2>2
  <2> QED
    BY <2>3 DEF IdsAreInOrder, Used
<1>16. InodesKeepNames'
  <2>1. job'[file].state # "none" /\ job'[file].dest = r.dest
    BY <1>5, <1>6, <1>7, <1>12, <1>14 DEF Used
  <2>2. ASSUME NEW n \in Names, part'[n] # 0 PROVE job'[part'[n]].state # "none" /\ job'[part'[n]].dest = n
    <3>1. CASE n = r.dest
      BY <1>9, <2>1, <3>1 DEF Used
    <3>2. CASE n # r.dest
      <4>1. part'[n] = part[n] /\ part[n] \in Jobs /\ Used(part[n]) /\ job[part[n]].dest = n /\ part[n] # j
        BY <1>9, <1>12, <1>13, <2>2, <3>2
      <4> QED
        BY <1>7, <4>1 DEF Used
    <3> QED
      BY <3>1, <3>2
  <2>3. ASSUME NEW i \in Jobs, Used(i)'
        PROVE job'[job'[i].file].state # "none" /\ job'[job'[i].file].dest = job'[i].dest
    <3>1. CASE i = j
      BY <1>6, <1>7, <2>1, <3>1 DEF Used
    <3>2. CASE i # j
      <4>1. Used(i) /\ job'[i] = job[i] /\ job[i].file \in Jobs /\ Used(job[i].file)
            /\ job[job[i].file].dest = job[i].dest /\ job[i].file # j
        BY <1>7, <1>12, <1>13, <2>3, <3>2
      <4> QED
        BY <1>7, <4>1 DEF Used
    <3> QED
      BY <3>1, <3>2
  <2> QED
    BY <2>2, <2>3 DEF InodesKeepNames, Used
<1>17. NamesakesHaveMet'
  <2> SUFFICES ASSUME NEW i \in Jobs, NEW k \in Jobs, Live(i)', Live(k)', job'[i].dest = job'[k].dest, i # k
               PROVE i \in shared'
    BY DEF NamesakesHaveMet
  <2>1. CASE i # j /\ k # j
    BY <1>7, <1>10, <2>1 DEF Inv, FilesAreKept, NamesakesHaveMet, Live
  <2>2. CASE i = j
    <3>1. k \in SameName(r)
      BY <1>6, <1>7, <2>2 DEF SameName, Live
    <3> QED
      BY <1>1, <2>2, <3>1
  <2>3. CASE k = j
    <3>1. i \in SameName(r)
      BY <1>6, <1>7, <2>3 DEF SameName, Live
    <3> QED
      BY <1>1, <3>1
  <2> QED
    BY <2>1, <2>2, <2>3
<1>18. ASSUME NEW i \in Jobs, i # j, i \notin shared', Writing(i) \/ job[i].state = "Finished"
       PROVE job[i].file # file /\ job[i].file \in Jobs /\ data'[job[i].file] = data[job[i].file]
  <2>1. Used(i) /\ job[i].file \in Jobs /\ i \notin shared /\ i \notin SameName(r)
    BY <1>1, <1>12, <1>18 DEF Used, Writing
  <2>2. job[i].file # file
    <3>1. CASE Writing(i)
      <4>1. job[i].dest # r.dest
        BY <2>1, <3>1 DEF SameName, Live, Writing
      <4> QED
        BY <1>12, <1>13, <1>14, <2>1, <4>1
    <3>2. CASE job[i].state = "Finished"
      <4>1. part[job[i].dest] # job[i].file
        BY <2>1, <3>2 DEF Inv, FilesAreKept, FilledAlone
      <4> QED
        BY <1>3, <1>12, <1>13, <1>14, <2>1, <4>1
    <3> QED
      BY <1>18, <3>1, <3>2
  <2> QED
    BY <1>8, <2>1, <2>2
<1>19. FilledAlone'
  <2> SUFFICES ASSUME NEW i \in Jobs, i \notin shared'
               PROVE /\ Writing(i)' => data'[job'[i].file] = Filled(i, job'[i].got)
                     /\ job'[i].state = "Finished" =>
                            /\ part'[job'[i].dest] # job'[i].file
                            /\ \A k \in Jobs : Writing(k)' => job'[k].file # job'[i].file
    BY DEF FilledAlone, Writing
  <2>1. CASE i = j
    <3>1. Filled(j, 0) = <<>>
      BY DEF Filled
    <3> QED
      BY <1>6, <1>7, <1>8, <2>1, <3>1
  <2>2. CASE i # j
    <3>1. job'[i] = job[i] /\ i \notin shared
      BY <1>7, <1>10, <2>2
    <3>2. Writing(i)' => data'[job'[i].file] = Filled(i, job'[i].got)
      BY <1>18, <2>2, <3>1 DEF Inv, FilesAreKept, FilledAlone, Writing
    <3>3. ASSUME job'[i].state = "Finished"
          PROVE /\ part'[job'[i].dest] # job'[i].file
                /\ \A k \in Jobs : Writing(k)' => job'[k].file # job'[i].file
      <4>1. job[i].file # file /\ job[i].dest \in Names
        BY <1>12, <1>18, <2>2, <3>1, <3>3 DEF Used
      <4>2. part[job[i].dest] # job[i].file /\ \A k \in Jobs : Writing(k) => job[k].file # job[i].file
        BY <3>1, <3>3 DEF Inv, FilesAreKept, FilledAlone
      <4> QED
        BY <1>6, <1>7, <1>9, <3>1, <4>1, <4>2 DEF Writing
    <3> QED
      BY <3>2, <3>3
  <2> QED
    BY <2>1, <2>2
<1>20. VerifiedIsWhole'
  <2> SUFFICES ASSUME NEW i \in Jobs, job'[i].state = "Finished", i \notin shared' \cup torn
               PROVE job'[i].sha # "wrong" /\ data'[job'[i].file] = Whole(i)
    BY <1>1 DEF VerifiedIsWhole, Whole, Filled
  <2>1. i # j /\ job'[i] = job[i] /\ i \notin shared
    BY <1>6, <1>7, <1>10
  <2> QED
    BY <1>18, <2>1 DEF Inv, FilesAreKept, VerifiedIsWhole
<1>21. CallbacksAreSound'
  <2>1. \A i \in Jobs : i # j => job'[i] = job[i]
    BY <1>7
  <2>2. job[j].state = "none" /\ job'[j].state # "none"
    BY <1>4, <1>6, <1>7 DEF Used
  <2> QED
    BY <1>1, <2>1, <2>2, CallKeepsCallbacks DEF Inv
<1> QED
  BY <1>11, <1>15, <1>16, <1>17, <1>19, <1>20, <1>21 DEF Inv, FilesAreKept

\* The handler goes on: the job it was about is gone, with its .part.
LEMMA StepCleanup ==
    ASSUME Inv, CleanupJob
    PROVE Inv'
<1> DEFINE j == Top.job
<1>1. stack \in Seq(Frames) /\ stack # <<>> /\ Len(stack) \in DOMAIN stack /\ Top = stack[Len(stack)]
  BY DEF CleanupJob, Inv, DownloadTypeOK, Top
<1>2. Top.then \in {"cleanup", "failStaging"} /\ (Top.then = "failStaging" => Live(j))
  BY DEF CleanupJob
<1>3. j \in Jobs /\ Live(j) /\ Used(j)
  BY <1>1, <1>2 DEF Inv, CallbacksAreSound, CleanupsAreDue, Live, Used
<1>4. SetState(j, "gone") /\ part' = [part EXCEPT ![job[j].dest] = 0] /\ Pop
      /\ UNCHANGED <<staged, data, tree, verdicts, shared, torn, panel>>
  BY DEF CleanupJob, SetState
<1> HIDE DEF j
<1>5. /\ job' \in [Jobs -> {NoJob} \cup Started]
      /\ job'[j].state = "gone" /\ job'[j].dest = job[j].dest /\ job'[j].file = job[j].file
      /\ job'[j].sha = job[j].sha /\ \A i \in Jobs \ {j} : job'[i] = job[i]
  <2>1. \A k \in Jobs : Used(k) /\ SetState(k, "gone") =>
           /\ job' \in [Jobs -> {NoJob} \cup Started]
           /\ job'[k].state = "gone" /\ job'[k].dest = job[k].dest /\ job'[k].file = job[k].file
           /\ job'[k].sha = job[k].sha /\ \A i \in Jobs \ {k} : job'[i] = job[i]
    BY StateIsSet DEF Inv, States
  <2> QED
    BY <1>3, <1>4, <2>1
<1>6. part' \in [Names -> 0 .. MaxJobs] /\ \A n \in Names : part'[n] \in {part[n], 0}
  <2>1. 0 \in 0 .. MaxJobs
    BY DownloadAssumption DEF DownloadAssumption
  <2>2. job[j].dest \in Names
    BY <1>3, UsedIsStarted DEF Inv, Started
  <2> QED
    BY <1>4, <2>1, <2>2 DEF Inv, DownloadTypeOK
<1>7. DownloadTypeOK'
  <2>1. stack' \in Seq(Frames)
    BY <1>1, <1>4, Popped
  <2> QED
    BY <1>4, <1>5, <1>6, <2>1 DEF Inv, DownloadTypeOK
<1>8. FilesAreKept'
  <2>1. \A i \in Jobs : Settles(i)
    BY <1>3, <1>5 DEF Settles, Live
  <2> QED
    BY <1>4, <1>6, <2>1, SettlingKeepsFiles DEF Inv
<1>9. CallbacksAreSound'
  <2>1. \A i \in Jobs : \/ job'[i].state = job[i].state
                        \/ i = Top.job /\ job'[i].state = "gone" /\ Top.then # "return"
    BY <1>2, <1>5 DEF j
  <2>2. Top.then = "failStaging" => ~Undecided(job'[Top.job].state)
    BY <1>5 DEF j, Undecided
  <2> QED
    BY <1>1, <1>2, <1>4, <2>1, <2>2, PopKeepsCallbacks DEF Inv
<1> QED
  BY <1>7, <1>8, <1>9 DEF Inv

\* The listener returns to a handler that has nothing left to do, or whose
\* job it has deleted.
LEMMA StepReturn ==
    ASSUME Inv, Returns \/ UseAfterFree
    PROVE Inv'
<1>1. /\ stack \in Seq(Frames) /\ stack # <<>> /\ Pop
      /\ UNCHANGED <<job, part, staged, data, tree, verdicts, shared, torn>>
      /\ panel' \in {"up", "crashed"}
      /\ Top.then = "failStaging" => ~Live(Top.job)
  BY DEF Inv, DownloadTypeOK, Returns, UseAfterFree
<1>2. stack' \in Seq(Frames)
  BY <1>1, Popped
<1>3. DownloadTypeOK' /\ FilesAreKept'
  BY <1>1, <1>2, QuietStep
<1>4. CallbacksAreSound'
  <2>1. Top.then = "failStaging" => ~Undecided(job'[Top.job].state)
    BY <1>1 DEF Live, Undecided
  <2> QED
    BY <1>1, <2>1, PopKeepsCallbacks DEF Inv
<1> QED
  BY <1>3, <1>4 DEF Inv

LEMMA StepFinishCancelled ==
    ASSUME Inv, NEW j \in Jobs, FinishCancelled(j)
    PROVE Inv'
BY AllAreTidings, Failing DEF FinishCancelled, ReportCancelled

LEMMA StepShutdown ==
    ASSUME Inv, Shutdown
    PROVE Inv'
<1>1. /\ stack = <<>> /\ panel' = "down"
      /\ part' = [n \in Names |-> IF \E j \in Jobs : Known(j) /\ job[j].dest = n THEN 0 ELSE part[n]]
      /\ job' = [j \in Jobs |-> IF Known(j) THEN [job[j] EXCEPT !.state = "gone"] ELSE job[j]]
      /\ UNCHANGED <<staged, data, tree, stack, verdicts, shared, torn>>
  BY DEF Shutdown, EventLoop
<1>2. ASSUME NEW i \in Jobs
      PROVE /\ job'[i] \in {NoJob} \cup Started
            /\ Known(i) => /\ job'[i].state = "gone" /\ job'[i].dest = job[i].dest
                           /\ job'[i].file = job[i].file /\ job'[i].sha = job[i].sha
            /\ ~Known(i) => job'[i] = job[i] /\ job[i].state \in {"none", "gone"}
  <2>1. job'[i] = IF Known(i) THEN [job[i] EXCEPT !.state = "gone"] ELSE job[i]
    BY <1>1
  <2>2. Known(i) => job[i] \in Started
    BY UsedIsStarted DEF Inv, Known, Used
  <2>3. Known(i) => [job[i] EXCEPT !.state = "gone"] \in Started
    BY <2>2 DEF Started, States
  <2>4. Known(i) => /\ job'[i].state = "gone" /\ job'[i].dest = job[i].dest
                    /\ job'[i].file = job[i].file /\ job'[i].sha = job[i].sha
    BY <2>1, <2>2 DEF Started
  <2> QED
    BY <2>1, <2>3, <2>4 DEF Inv, DownloadTypeOK, Known
<1>3. job' \in [Jobs -> {NoJob} \cup Started]
  BY <1>1, <1>2
<1>4. part' \in [Names -> 0 .. MaxJobs] /\ \A n \in Names : part'[n] \in {part[n], 0}
  BY <1>1, DownloadAssumption DEF Inv, DownloadTypeOK, DownloadAssumption
<1>5. DownloadTypeOK'
  BY <1>1, <1>3, <1>4 DEF Inv, DownloadTypeOK
<1>6. FilesAreKept'
  <2>1. \A i \in Jobs : Settles(i)
    BY <1>2 DEF Settles, Known
  <2> QED
    BY <1>1, <1>4, <2>1, SettlingKeepsFiles DEF Inv
<1>7. CallbacksAreSound'
  <2>1. CleanupsAreDue'
    BY <1>1 DEF CleanupsAreDue
  <2>2. VerdictsAreOwed'
    BY <1>1, <1>2 DEF Inv, CallbacksAreSound, VerdictsAreOwed, Used, Known
  <2> QED
    BY <2>1, <2>2 DEF CallbacksAreSound
<1> QED
  BY <1>5, <1>6, <1>7 DEF Inv

LEMMA StepStutters ==
    ASSUME Inv, UNCHANGED vars
    PROVE Inv'
<1>1. DownloadTypeOK' /\ FilesAreKept'
  BY QuietStep DEF Inv, DownloadTypeOK, vars
<1>2. CallbacksAreSound'
  BY DEF Inv, CallbacksAreSound, CleanupsAreDue, VerdictsAreOwed, Used, vars
<1> QED
  BY <1>1, <1>2 DEF Inv

LEMMA InvStarts == DownloadInit => Inv
<1> SUFFICES ASSUME DownloadInit PROVE Inv
  OBVIOUS
<1>1. /\ \A j \in Jobs : job[j] = NoJob /\ job[j].state = "none" /\ verdicts[j] = 0
      /\ \A n \in Names : part[n] = 0
      /\ stack = <<>> /\ shared = {} /\ torn = {}
  BY DEF DownloadInit, NoJob
<1>2. DownloadTypeOK
  <2>1. 0 \in 0 .. MaxJobs
    BY DownloadAssumption DEF DownloadAssumption
  <2>2. data \in [Jobs -> Seq(0 .. MaxJobs)]
    <3> DEFINE S == Seq(0 .. MaxJobs)
    <3>1. <<>> \in S
      OBVIOUS
    <3> HIDE DEF S
    <3>2. data \in [Jobs -> S]
      BY <3>1 DEF DownloadInit
    <3> QED
      BY <3>2 DEF S
  <2>3. job \in [Jobs -> {NoJob} \cup Started]
    BY DEF DownloadInit
  <2>4. part \in [Names -> 0 .. MaxJobs] /\ staged \in [Names -> 0 .. MaxJobs]
    BY <2>1 DEF DownloadInit
  <2>5. stack \in Seq(Frames)
    BY <1>1
  <2>6. verdicts \in [Jobs -> Nat] /\ shared \subseteq Jobs /\ torn \subseteq Jobs /\ panel = "up"
    BY DEF DownloadInit
  <2> QED
    BY <2>2, <2>3, <2>4, <2>5, <2>6 DEF DownloadTypeOK
<1>3. IdsAreInOrder
  <2>1. 0 \in 0 .. MaxJobs /\ \A j \in Jobs : Used(j) <=> j <= 0
    BY <1>1, DownloadAssumption DEF Used, Jobs, DownloadAssumption
  <2> QED
    BY <2>1 DEF IdsAreInOrder
<1>4. InodesKeepNames /\ NamesakesHaveMet /\ FilledAlone /\ VerifiedIsWhole
  BY <1>1 DEF InodesKeepNames, NamesakesHaveMet, FilledAlone, VerifiedIsWhole, Used, Live, Writing
<1>5. CallbacksAreSound
  BY <1>1 DEF CallbacksAreSound, CleanupsAreDue, VerdictsAreOwed
<1> QED
  BY <1>2, <1>3, <1>4, <1>5 DEF Inv, FilesAreKept

LEMMA InvSteps == Inv /\ [DownloadNext]_vars => Inv'
<1> SUFFICES ASSUME Inv, [DownloadNext]_vars PROVE Inv'
  OBVIOUS
<1>1. CASE UNCHANGED vars
  BY <1>1, StepStutters
<1>2. ASSUME NEW j \in Jobs, \/ HandleReadyRead(j) \/ HandleError(j) \/ FinishCancelled(j)
                            \/ \E lost, renamed \in BOOLEAN : HandleFinished(j, lost, renamed)
      PROVE Inv'
  <2>1. HandleError(j) => Inv'
    BY AllAreTidings, Failing DEF HandleError
  <2> QED
    BY <1>2, <2>1, StepReadyRead, StepFinishCancelled, StepFinished
<1>3. StartRefused => Inv'
  <2>1. 0 \in 0 .. MaxJobs
    BY DownloadAssumption DEF DownloadAssumption
  <2> QED
    BY <2>1, AllAreTidings, ToldOnly DEF StartRefused
<1>4. ASSUME NEW c \in Callers, NEW j \in Jobs,
             \/ InstallRejected(c, j)
             \/ \E t \in Targets, moved \in BOOLEAN : InstallMoves(c, j, t, moved)
      PROVE Inv'
  <2>1. \E told \in Tidings : Push(j, told, "return")
    BY <1>4, AllAreTidings DEF InstallRejected, InstallMoves
  <2>2. UNCHANGED <<job, part, staged, data, verdicts, shared, torn, panel>>
    BY <1>4 DEF InstallRejected, InstallMoves
  <2> QED
    BY <2>1, <2>2, JobsAreNumbers, ToldOnly
<1>5. Handlers => Inv'
  BY <1>2 DEF Handlers
<1>6. Calls => Inv'
  BY <1>3, <1>4, StepStart, StepCancel DEF Calls
<1> QED
  BY <1>1, <1>5, <1>6, StepReturn, StepCleanup, StepShutdown DEF DownloadNext

-----------------------------------------------------------------------------
(* DownloadInv holds in every state of DownloadService: ids are given out   *)
(* in order, an inode keeps the destName it was opened under, a download    *)
(* that met no namesake fills its inode alone, what handleFinished reported *)
(* as finished is whole, and the callbacks under way own what they clean up *)
(* (DownloadService.cpp:118-367).                                           *)
THEOREM DownloadInvHolds == DownloadSpec => []DownloadInv
<1>1. DownloadSpec => DownloadInit /\ [][DownloadNext]_vars
  BY PTL DEF DownloadSpec
<1>2. Inv => DownloadInv
  BY DEF Inv, DownloadInv, FilesAreKept, CallbacksAreSound
<1> QED
  BY <1>1, <1>2, InvStarts, InvSteps, PTL

(* What is reported as finished is, byte for byte, the download that was    *)
(* hashed, but for the two exceptions the code makes: a destName two jobs   *)
(* had at once, and a tail whose write failed (handleFinished,              *)
(* DownloadService.cpp:265-332).                                            *)
THEOREM VerifiedIsWholeHolds == DownloadSpec => []VerifiedIsWhole
<1>1. DownloadInv => VerifiedIsWhole
  BY DEF DownloadInv
<1> QED
  BY <1>1, DownloadInvHolds, PTL

\* Only a job that is downloading or being cancelled is given a verdict.
LEMMA VerdictsComeFromTheUndecided ==
    ASSUME Inv, [DownloadNext]_vars, NEW j \in Jobs, verdicts'[j] # verdicts[j]
    PROVE job[j].state \in {"Downloading", "Cancelling"}
<1>1. \E k \in Jobs : Verdict(k) /\ job[k].state \in {"Downloading", "Cancelling"}
  BY DEF DownloadNext, Handlers, Calls, HandleReadyRead, HandleError, FinishCancelled, HandleFinished,
         Cancel, ReportCancelled, StartRefused, StartJob, InstallRejected, InstallMoves,
         Returns, CleanupJob, UseAfterFree, Shutdown, vars
<1>2. PICK k \in Jobs : Verdict(k) /\ job[k].state \in {"Downloading", "Cancelling"}
  BY <1>1
<1>3. j = k
  BY <1>2, VerdictGiven DEF Inv
<1> QED
  BY <1>2, <1>3

(* A download's verdict is its last, except the one that follows a cancel   *)
(* from the error callback of a failed staging write                        *)
(* (DownloadService.cpp:229-236, 198-208).                                  *)
THEOREM VerdictsAreFinalHolds == DownloadSpec => VerdictsAreFinal
<1> DEFINE Final == \A j \in Jobs :
                       verdicts[j] > 0 /\ verdicts'[j] > verdicts[j] =>
                           \E i \in DOMAIN stack : stack[i].job = j /\ stack[i].then = "failStaging"
<1>1. DownloadSpec => DownloadInit /\ [][DownloadNext]_vars
  BY PTL DEF DownloadSpec
<1>2. Inv /\ [DownloadNext]_vars => [Final]_vars
  <2> SUFFICES ASSUME Inv, [DownloadNext]_vars, NEW j \in Jobs, verdicts[j] > 0, verdicts'[j] > verdicts[j]
               PROVE \E i \in DOMAIN stack : stack[i].job = j /\ stack[i].then = "failStaging"
    OBVIOUS
  <2>1. verdicts'[j] # verdicts[j]
    BY DEF Inv, DownloadTypeOK
  <2>2. job[j].state \in {"Downloading", "Cancelling"}
    BY <2>1, VerdictsComeFromTheUndecided
  <2> QED
    BY <2>2 DEF Inv, CallbacksAreSound, VerdictsAreOwed
<1> HIDE DEF Final
<1>3. DownloadInit /\ [][DownloadNext]_vars => [][Final]_vars
  BY <1>2, InvStarts, InvSteps, PTL
<1> QED
  BY <1>1, <1>3 DEF VerdictsAreFinal, Final

-----------------------------------------------------------------------------
(* Installing *)

ItemIsSound(s, item) ==
    /\ \A e \in ToSet(item.from) : ".." \notin ToSet(CleanPath(e.path))
    /\ \E e \in ToSet(item.from) : CleanPath(e.path) = Sentinel(s[1][2], s[2])
    /\ s[1][1] \in ValidOwners \cup {NoOwner}
    /\ ~item.ruin => item.files = RegularFiles(item.from)

\* An archive with the layout of a target may be moved in where it says.
LEMMA LayoutIsSound ==
    ASSUME NEW archive, NEW target, HasLayout(archive, target), Decompresses(archive),
           NEW owner, IsValidOwner(owner)
    PROVE  ItemIsSound(Slot(archive, target, owner),
                       [from |-> archive, ruin |-> FALSE, files |-> Extracted(archive)])
<1> DEFINE name == ItemName(archive)
           s == Slot(archive, target, owner)
<1> HIDE DEF name
<1>1. s = <<<<owner, target>>, name>>
  BY DEF Slot, TargetRoot, name
<1>2. /\ \A i \in DOMAIN archive : ".." \notin ToSet(CleanPath(archive[i].path))
      /\ \E i \in DOMAIN archive : CleanPath(archive[i].path) = Sentinel(target, name)
      /\ owner \in ValidOwners \cup {NoOwner}
  BY DEF HasLayout, EntriesSafe, SafeRelativePath, IsValidOwner, name
<1>3. \A e \in ToSet(archive) : e.dir \/ e.intact
  BY DEF Decompresses, ToSet
<1>4. Extracted(archive) = RegularFiles(archive)
  BY <1>3 DEF Extracted, RegularFiles
<1>5. s[1][1] = owner /\ s[1][2] = target /\ s[2] = name
  BY <1>1
<1> HIDE DEF s
<1> QED
  BY <1>2, <1>4, <1>5 DEF ItemIsSound, ToSet, s

(* Whatever installArchive leaves in an install root, it came from an       *)
(* archive that passed the path gate and has the layout that root's scanner *)
(* looks for, lies in the domain of a valid owner, and is there in full,    *)
(* unless an old item could not be removed (DownloadServiceInstall.cpp).    *)
THEOREM TreeIsSoundHolds == DownloadSpec => []TreeIsSound
<1>1. DownloadSpec => DownloadInit /\ [][DownloadNext]_vars
  BY PTL DEF DownloadSpec
<1> DEFINE Sound == \A s \in DOMAIN tree : ItemIsSound(s, tree[s])
<1>2. TreeIsSound <=> Sound
  BY DEF TreeIsSound, ItemIsSound
<1>3. DownloadInit => Sound
  BY DEF DownloadInit
<1>4. Sound /\ [DownloadNext]_vars => Sound'
  <2> SUFFICES ASSUME Sound, [DownloadNext]_vars PROVE Sound'
    OBVIOUS
  <2>1. CASE UNCHANGED tree
    BY <2>1
  <2>2. ASSUME NEW c \in Callers, NEW j \in Jobs, NEW t \in Targets, NEW moved \in BOOLEAN,
               InstallMoves(c, j, t, moved)
        PROVE Sound'
    <3> DEFINE archive == Holds(job[j].dest)
               slot == Slot(archive, t, Owner(c))
               fresh == [from |-> archive, ruin |-> FALSE, files |-> Extracted(archive)]
    <3>1. /\ HasLayout(archive, t) /\ Decompresses(archive) /\ IsValidOwner(Owner(c))
          /\ \E left \in Leftovers(slot) :
                \/ tree' = Placed(slot, fresh) \/ tree' = Without(slot)
                \/ left # {} /\ tree' = Placed(slot, [tree[slot] EXCEPT !.files = left, !.ruin = TRUE])
      BY <2>2 DEF InstallMoves, Installable
    <3>2. ItemIsSound(slot, fresh)
      BY <3>1, LayoutIsSound
    <3> HIDE DEF archive, slot, fresh
    <3>3. CASE tree' = Placed(slot, fresh)
      BY <3>2, <3>3 DEF Placed
    <3>4. CASE tree' = Without(slot)
      BY <3>4 DEF Without
    <3>5. ASSUME NEW left \in Leftovers(slot), left # {},
                 tree' = Placed(slot, [tree[slot] EXCEPT !.files = left, !.ruin = TRUE])
          PROVE Sound'
      <4> DEFINE item == [tree[slot] EXCEPT !.files = left, !.ruin = TRUE]
      <4>1. slot \in DOMAIN tree
        BY <3>5 DEF Leftovers
      <4>2. ItemIsSound(slot, item)
        BY <4>1 DEF ItemIsSound
      <4> HIDE DEF item
      <4> QED
        BY <3>5, <4>2 DEF Placed, item
    <3> QED
      BY <3>1, <3>3, <3>4, <3>5
  <2>3. UNCHANGED tree \/ \E c \in Callers, j \in Jobs, t \in Targets, moved \in BOOLEAN : InstallMoves(c, j, t, moved)
    BY DEF DownloadNext, Handlers, Calls, HandleReadyRead, HandleError, FinishCancelled, HandleFinished,
           Cancel, StartRefused, StartJob, InstallRejected, Returns, CleanupJob, UseAfterFree, Shutdown, vars
  <2> QED
    BY <2>1, <2>2, <2>3
<1> QED
  BY <1>1, <1>2, <1>3, <1>4, PTL
=============================================================================
