-------------------------- MODULE JobScripts_proofs --------------------------
(***************************************************************************)
(* That what upload-dataset.sh, run-all-jobs.sh and fetch-results.sh       *)
(* report at their end is so, and that the dataset is neither formatted    *)
(* away nor spoilt: for any number of stops and kills, of jobs and of      *)
(* applications.                                                           *)
(***************************************************************************)
EXTENDS JobScripts, TLAPS

\* The normalised copy that is being uploaded was made from the file that gunzip
\* has left, and put makes what it renames from that copy.
CopyFollowsFile ==
  /\ local \in [gz : {"none", "cut", "whole"}, csv : {"none", "cut", "whole"},
                norm : {"none", "cut", "whole"}]
  /\ gunzipCut \in BOOLEAN
  /\ local.csv = "cut" => gunzipCut
  /\ upload \in {"normalise", "put", "copy", "rename"} => local.csv # "none"
  /\ upload \in {"put", "copy", "rename"} => local.norm = local.csv
  /\ upload \in {"copy", "rename", "verify", "done"} => inputDir
  /\ upload = "rename" => input = "none" /\ copying = local.norm
  /\ upload \in {"verify", "done"} => input # "none" /\ copying = "none"

\* What is in HDFS was written after a format that came to its end.
FormatComesFirst ==
  /\ boot = "format" => meta = "none"
  /\ meta = "none" => ~inputDir /\ input = "none" /\ copying = "none"
  /\ namenode # "down" => meta # "none"

IInv == CopyFollowsFile /\ FormatComesFirst /\ UploadedMeansWhole

-----------------------------------------------------------------------------
\* The steps of the entry point, and what befalls the container.
LEMMA MasterKeepsIInv ==
  ASSUME IInv, MasterStep \/ FormatAll
  PROVE  IInv'
<1>1. ASSUME UNCHANGED <<input, copying, host>>, inputDir => inputDir', FormatComesFirst'
      PROVE  IInv'
  BY <1>1 DEF IInv, CopyFollowsFile, UploadedMeansWhole, dataset, host
<1>2. CASE PowerOn
  BY <1>1, <1>2 DEF PowerOn, MustFormat, IInv, FormatComesFirst, dataset
<1>3. CASE EndFormat
  BY <1>1, <1>3 DEF EndFormat, IInv, FormatComesFirst, dataset
<1>4. CASE StartDaemons
  BY <1>1, <1>4 DEF StartDaemons, IInv, FormatComesFirst, dataset
<1>5. CASE LeaveSafeMode
  BY <1>1, <1>5 DEF LeaveSafeMode, IInv, FormatComesFirst, dataset
<1>6. CASE WaitForSafeMode
  BY <1>1, <1>6 DEF WaitForSafeMode, IInv, FormatComesFirst, dataset
<1>7. CASE StartServices
  BY <1>1, <1>7 DEF StartServices, Writable, IInv, FormatComesFirst
<1>8. CASE Die
  BY <1>1, <1>8 DEF Die, IInv, FormatComesFirst, dataset
<1>9. CASE Stop
  BY <1>1, <1>9 DEF Stop, IInv, FormatComesFirst, dataset
<1>10. CASE FormatAll
  BY <1>10 DEF FormatAll, BeginFormat, IInv, CopyFollowsFile, FormatComesFirst, UploadedMeansWhole, host
<1>11. QED
  BY <1>2, <1>3, <1>4, <1>5, <1>6, <1>7, <1>8, <1>9, <1>10 DEF MasterStep

\* The steps of upload-dataset.sh: only a kill that meets gunzip cuts the file.
LEMMA UploadKeepsIInv ==
  ASSUME IInv, UploadStep
  PROVE  IInv'
<1> USE DEF IInv, CopyFollowsFile, FormatComesFirst, UploadedMeansWhole, Step, master, dataset
<1>1. CASE TestInput
  BY <1>1 DEF TestInput
<1>2. CASE Download
  BY <1>2 DEF Download
<1>3. CASE Gunzip
  BY <1>3 DEF Gunzip
<1>4. CASE Normalise
  BY <1>4 DEF Normalise, Normalised
<1>5. CASE BeginPut
  BY <1>5 DEF BeginPut, Writable
<1>6. CASE Put
  BY <1>6 DEF Put, Writable
<1>7. CASE Rename
  BY <1>7 DEF Rename, Writable
<1>8. CASE Verify
  BY <1>8 DEF Verify
<1>9. CASE PutFails
  BY <1>9 DEF PutFails, LeftCopies
<1>10. CASE KillUpload
  <2>1. /\ local' \in [gz : {"none", "cut", "whole"}, csv : {"none", "cut", "whole"},
                       norm : {"none", "cut", "whole"}]
        /\ upload' = "no" /\ UNCHANGED <<meta, boot, namenode, input>>
        /\ meta = "none" => ~inputDir' /\ copying' = "none"
        /\ gunzipCut' = (gunzipCut \/ local'.csv # local.csv)
    BY <1>10 DEF KillUpload, LeftCopies, Writable
  <2>2. QED
    BY <2>1
<1>11. QED
  BY <1>1, <1>2, <1>3, <1>4, <1>5, <1>6, <1>7, <1>8, <1>9, <1>10 DEF UploadStep

\* The other scripts and the jobs leave the dataset and the files alone; a script
\* that begins ends what is known of the last upload.
LEMMA ScriptsLeaveTheDataset ==
  ASSUME RunAll \/ FetchAll \/ Meddle \/ \E a \in App : RunApp(a)
  PROVE  /\ UNCHANGED <<master, dataset, local, gunzipCut>>
         /\ upload' \in {upload, "no"}
<1>1. CASE RunAll
  BY <1>1 DEF RunAll, BeginRun, RemoveOld, RunJar, EndJar, KillRun, host
<1>2. CASE FetchAll
  BY <1>2 DEF FetchAll, BeginFetch, EndFetch, TestDir, Cat, host
<1>3. CASE Meddle
  BY <1>3 DEF Meddle, host
<1>4. CASE \E a \in App : RunApp(a)
  BY <1>4 DEF RunApp, host
<1>5. QED
  BY <1>1, <1>2, <1>3, <1>4

LEMMA NextKeepsIInv ==
  ASSUME IInv, [Next]_vars
  PROVE  IInv'
<1>1. ASSUME UNCHANGED <<master, dataset, local, gunzipCut>>, upload' \in {upload, "no"}
      PROVE  IInv'
  BY <1>1 DEF IInv, CopyFollowsFile, FormatComesFirst, UploadedMeansWhole, master, dataset, host
<1>2. CASE BeginUpload
  BY <1>2 DEF BeginUpload, IInv, CopyFollowsFile, FormatComesFirst, UploadedMeansWhole, master, dataset
<1>3. CASE UNCHANGED vars
  BY <1>1, <1>3 DEF vars, host
<1>4. QED
  BY <1>1, <1>2, <1>3, MasterKeepsIInv, UploadKeepsIInv, ScriptsLeaveTheDataset DEF Next

LEMMA Inductive == Spec => []IInv
<1>1. Init => IInv
  <2>1. SUFFICES ASSUME MasterInit PROVE IInv
    BY DEF Init
  <2>2. /\ local \in [gz : {"none", "cut", "whole"}, csv : {"none", "cut", "whole"},
                      norm : {"none", "cut", "whole"}]
        /\ local.csv = "none"
    BY <2>1 DEF MasterInit
  <2>3. QED
    BY <2>1, <2>2 DEF MasterInit, IInv, CopyFollowsFile, FormatComesFirst, UploadedMeansWhole
<1>2. QED
  BY <1>1, NextKeepsIInv, PTL DEF Spec

-----------------------------------------------------------------------------
\* upload-dataset.sh: when it has said that the upload is complete, the input directory
\* holds the dataset and nothing else, after any number of kills, stops and calls; and
\* the file under the dataset's own name is cut off only if a kill has met gunzip.
THEOREM DatasetWhole == Spec => []UploadedMeansWhole
<1>1. IInv => UploadedMeansWhole
  BY DEF IInv
<1>2. QED
  BY <1>1, Inductive, PTL

\* entrypoint-master.sh and upload-dataset.sh: no boot formats the dataset away,
\* and no call of the script spoils it.
THEOREM DatasetKept == Spec => WholeStaysWhole
<1> DEFINE Kept == input = "whole" /\ ~gunzipCut
                     => input' = "whole" \/ (upload = "copy" /\ input' = "none")
<1>1. ASSUME IInv, [Next]_vars
      PROVE  Kept
  <2>1. CASE MasterStep
    BY <2>1 DEF MasterStep, PowerOn, EndFormat, StartDaemons, LeaveSafeMode, WaitForSafeMode,
                StartServices, Die, Stop, dataset
  <2>2. CASE FormatAll
    BY <1>1, <2>2 DEF FormatAll, BeginFormat, IInv, FormatComesFirst
  <2>3. CASE UploadStep
    BY <1>1, <2>3 DEF UploadStep, TestInput, Download, Gunzip, Normalise, BeginPut, Put,
                      Rename, Verify, PutFails, KillUpload, Step, dataset, IInv, CopyFollowsFile
  <2>4. CASE BeginUpload
    BY <2>4 DEF BeginUpload, dataset
  <2>5. CASE UNCHANGED dataset
    BY <2>5 DEF dataset
  <2>6. QED
    BY <1>1, <2>1, <2>2, <2>3, <2>4, <2>5, ScriptsLeaveTheDataset DEF Next, vars
<1>2. ASSUME IInv, [Next]_vars
      PROVE  [Kept]_<<master, dataset, host>>
  BY <1>1, <1>2
<1>3. QED
  BY <1>2, Inductive, PTL DEF Spec, WholeStaysWhole
-----------------------------------------------------------------------------
(* run-all-jobs.sh and fetch-results.sh *)

\* What a record of run-all-jobs.sh and one of fetch-results.sh may hold.
RunRecord ==
  [pc : {"no", "rm", "jar", "wait", "completed"}, job : 1..Len(Dirs), app : App \cup {Nil},
   own : [Dir -> App \cup {Nil}],
   input : [Dir -> {Nil} \cup {"none", "cut", "whole"} \X {"none", "cut", "whole"}]]

FetchRecord ==
  [pc : {"no", "test", "cat", "saved"}, left : SUBSET Dir,
   file : [Dir -> {"none", "empty"} \cup App]]

USE DEF RunRecord, FetchRecord

\* The records of the scripts.  Only one script runs at a time, and while one of
\* them has dealt with the outputs the NameNode's directory is there.
ScriptsTypeOK ==
  /\ ClusterTypeOK
  /\ run \in RunRecord
  /\ fetch \in FetchRecord
  /\ input \in {"none", "cut", "whole"} /\ copying \in {"none", "cut", "whole"}
  /\ meddled \in BOOLEAN
  /\ run.pc # "no" => upload = "no" /\ fetch.pc = "no" /\ meta # "none"
  /\ fetch.pc # "no" => upload = "no" /\ (Found # {} => meta # "none")
  /\ run.pc = "wait" =>
       run.app \in App /\ app[run.app].phase # "none" /\ app[run.app].dir = Dirs[run.job]

\* Applications and directories that are not started have nothing in them.
FreshIsEmpty ==
  /\ \A a \in App : app[a].phase \in {"none", "starting", "submitted"} => app[a].done = {}
  /\ \A d \in Dir : out[d].dir \/ out[d] = Missing

\* While nobody else touches the outputs, no application lives but the script's.
OnlyOurs ==
  ~meddled /\ (run.pc # "no" \/ fetch.pc # "no") =>
    \A a \in App : app[a].phase \in Live => run.pc = "wait" /\ a = run.app

\* Directory d is as application a has left it so far.
Wrote(a, d) ==
  /\ app[a].phase = "submitted" => out[d] = Missing
  /\ app[a].phase = "running" =>
       out[d] = [dir |-> out[d].dir,
                 part |-> [p \in Part |-> IF p \in app[a].done THEN a ELSE Nil],
                 success |-> FALSE]
  /\ app[a].phase = "succeeded" => HoldsOutputOf(d, a)

\* And a works on the dataset that is there.
MadeBy(a, d) ==
  /\ app[a].phase \in {"submitted", "running", "succeeded"} => run.input[d] = Contents
  /\ Wrote(a, d)

\* The directories that the script is at, or has still to come to.
Due == IF run.pc = "completed" THEN {} ELSE {Dirs[k] : k \in run.job..Len(Dirs)}

\* Directory d holds the output of the application that this call has run for it.
Owned(d) ==
  LET a == run.own[d] IN
  a \in App /\ app[a].phase = "succeeded" /\ run.input[d] = Contents /\ HoldsOutputOf(d, a)

OutputsFollowRun ==
  run.pc # "no" /\ ~meddled =>
    /\ run.pc = "wait" => MadeBy(run.app, Dirs[run.job])
    /\ \A d \in Dir \ Due : Owned(d)

\* What was found has been copied, but for the directory that cat is at.
CopiesFollowFetch ==
  /\ fetch.pc # "no" => \A d \in Found :
       \/ fetch.file[d] \in App /\ (~meddled => fetch.file[d] = out[d].part[0])
       \/ fetch.file[d] = "empty" /\ fetch.pc = "cat"
  /\ fetch.pc = "cat" => \A d, e \in Found :
       fetch.file[d] = "empty" /\ fetch.file[e] = "empty" => d = e

SInv == ScriptsTypeOK /\ FreshIsEmpty /\ OnlyOurs /\ OutputsFollowRun /\ CopiesFollowFetch

\* It does so until something happens to it.
LEMMA OwnedStays ==
  ASSUME NEW d, Owned(d), run'.own[d] = run.own[d], run'.input[d] = run.input[d],
         out'[d] = out[d], UNCHANGED <<input, copying>>,
         \A a \in App : app[a].phase = "succeeded" => app'[a] = app[a]
  PROVE  Owned(d)'
<1>1. PICK a : a = run.own[d]
  OBVIOUS
<1>2. /\ a \in App /\ app[a].phase = "succeeded" /\ run.input[d] = Contents
      /\ HoldsOutputOf(d, a)
  BY <1>1 DEF Owned
<1>3. HoldsOutputOf(d, a)'
  BY <1>2 DEF HoldsOutputOf, Part
<1>4. run'.own[d] = a /\ app'[a].phase = "succeeded" /\ run'.input[d] = Contents'
  BY <1>1, <1>2 DEF Contents
<1> QED BY <1>2, <1>3, <1>4 DEF Owned, HoldsOutputOf

\* Steps of the container and of an upload: they are not at the outputs, and no
\* script that deals with the outputs is under way during an upload.
LEMMA HostKeepsSInv ==
  ASSUME IInv, SInv, MasterStep \/ UploadStep, UNCHANGED <<cluster, scripts>>
  PROVE  SInv'
<1>1. /\ out' = out /\ app' = app /\ run' = run /\ fetch' = fetch
      /\ meddled' = meddled
  BY DEF cluster, scripts
<1>2. /\ input' \in {"none", "cut", "whole"} /\ copying' \in {"none", "cut", "whole"}
      /\ upload = "no" => input' = input /\ copying' = copying /\ upload' = "no"
      /\ meta # "none" => meta' # "none"
  <2>1. CASE MasterStep
    BY <2>1 DEF MasterStep, PowerOn, EndFormat, StartDaemons, LeaveSafeMode, WaitForSafeMode,
                StartServices, Die, Stop, dataset, host, SInv, ScriptsTypeOK
  <2>2. CASE UploadStep
    BY <2>2 DEF UploadStep, TestInput, Download, Gunzip, Normalise, BeginPut, Put, Rename,
                Verify, PutFails, KillUpload, LeftCopies, Step, master, dataset, SInv,
                ScriptsTypeOK, IInv, CopyFollowsFile
  <2> QED BY <2>1, <2>2
<1>3. run.pc # "no" \/ fetch.pc # "no" => upload = "no"
  BY DEF SInv, ScriptsTypeOK
<1>4. ScriptsTypeOK'
  BY <1>1, <1>2, <1>3 DEF SInv, ScriptsTypeOK, Found, ClusterTypeOK, Part
<1>5. FreshIsEmpty' /\ OnlyOurs'
  BY <1>1 DEF SInv, FreshIsEmpty, OnlyOurs, Missing, NoParts, Part
<1>6. OutputsFollowRun'
  BY <1>1, <1>2, <1>3 DEF SInv, OutputsFollowRun, Owned, MadeBy, Wrote, Due, HoldsOutputOf,
                          Contents, Missing, NoParts, Part
<1>7. CopiesFollowFetch'
  BY <1>1 DEF SInv, CopiesFollowFetch, Found
<1> QED BY <1>4, <1>5, <1>6, <1>7 DEF SInv

\* The first format meets no script that has dealt with the outputs.
LEMMA FormatKeepsSInv ==
  ASSUME IInv, SInv, FormatAll
  PROVE  SInv'
<1>1. /\ out' = [d \in Dir |-> Missing] /\ app' = app /\ run' = run
      /\ fetch' = fetch /\ meddled' = meddled
      /\ upload' = upload /\ input' = "none" /\ copying' = "none" 
      /\ meta' = "torn" /\ meta = "none"
  BY DEF FormatAll, scripts, BeginFormat, host, IInv, FormatComesFirst
<1>2. run.pc = "no" /\ (fetch.pc # "no" => Found = {}) /\ Found' = Found
  BY <1>1 DEF SInv, ScriptsTypeOK, Found
<1>3. Missing \in [dir : BOOLEAN, part : [Part -> App \cup {Nil}], success : BOOLEAN]
  BY DEF Missing, NoParts
<1>4. ScriptsTypeOK'
  BY <1>1, <1>2, <1>3 DEF SInv, ScriptsTypeOK, Found, ClusterTypeOK, Part
<1>5. FreshIsEmpty' /\ OnlyOurs'
  BY <1>1, <1>2 DEF SInv, FreshIsEmpty, OnlyOurs, Missing, NoParts, Part
<1>6. OutputsFollowRun' /\ CopiesFollowFetch'
  BY <1>1, <1>2 DEF SInv, OutputsFollowRun, CopiesFollowFetch, ScriptsTypeOK
<1> QED BY <1>4, <1>5, <1>6 DEF SInv

\* A script ends, or is stopped, or another one begins: the outputs are as they are.
LEMMA BetweenScripts ==
  ASSUME SInv, UNCHANGED <<cluster, input, copying, meta>>,
         meddled' \in BOOLEAN, upload' = "no" \/ fetch'.pc = "no",
         run' = NoRun,
         \/ fetch' = fetch /\ fetch.pc = "no"
         \/ fetch' = NoFetch
         \/ /\ fetch' = [NoFetch EXCEPT !.pc = "test", !.left = Dir]
            /\ ~meddled' => \A a \in App : app[a].phase \notin Live
  PROVE  SInv'
<1>1. /\ out' = out /\ app' = app /\ input' = input /\ copying' = copying
      /\ run'.pc = "no" /\ meta' = meta
  BY DEF cluster, NoRun
<1>2. /\ fetch'.pc \in {"no", "test"}
      /\ fetch'.pc = "test" => Found' = {}
      /\ fetch' \in FetchRecord
      /\ fetch'.pc # "no" => (~meddled' => \A a \in App : app[a].phase \notin Live)
  <2>1. PICK x : x = NoFetch
    OBVIOUS
  <2>2. PICK n \in [Dir -> {"none", "empty"} \cup App] : n = [d \in Dir |-> "none"]
    OBVIOUS
  <2>3. x = [pc |-> "no", left |-> {}, file |-> n]
    BY <2>1, <2>2 DEF NoFetch
  <2>4. x \in FetchRecord /\ x.pc = "no" /\ x.file = n
    BY <2>3
  <2>5. CASE fetch' = NoFetch
    BY <2>1, <2>5, <2>4
  <2>6. CASE /\ fetch' = [NoFetch EXCEPT !.pc = "test", !.left = Dir]
             /\ ~meddled' => \A a \in App : app[a].phase \notin Live
    <3>1. fetch' = [x EXCEPT !.pc = "test", !.left = Dir]
      BY <2>1, <2>6
    <3>2. fetch'.pc = "test" /\ fetch'.left = Dir /\ fetch'.file = n
      BY <2>4, <3>1
    <3>3. fetch' \in FetchRecord
      BY <2>4, <3>1
    <3>4. Found' = {}
      BY <2>2, <3>2 DEF Found
    <3> QED BY <2>6, <3>2, <3>3, <3>4
  <2>7. CASE fetch' = fetch /\ fetch.pc = "no"
    BY <2>7 DEF SInv, ScriptsTypeOK
  <2> QED BY <2>5, <2>6, <2>7
<1>3. run' \in RunRecord
  <2>1. 1 \in 1..Len(Dirs)
    BY ScriptsAssumption
  <2> QED BY <2>1 DEF NoRun
<1>4. ScriptsTypeOK'
  BY <1>1, <1>2, <1>3 DEF SInv, ScriptsTypeOK, ClusterTypeOK, Part
<1>5. FreshIsEmpty' /\ OnlyOurs'
  BY <1>1, <1>2 DEF SInv, FreshIsEmpty, OnlyOurs, Missing, NoParts, Part
<1>6. OutputsFollowRun' /\ CopiesFollowFetch'
  BY <1>1, <1>2 DEF SInv, OutputsFollowRun, CopiesFollowFetch
<1> QED BY <1>4, <1>5, <1>6 DEF SInv
\* run-all-jobs.sh begins: the pre-flight check needs a NameNode that was formatted.
LEMMA BeginRunKeepsSInv ==
  ASSUME IInv, SInv, BeginRun
  PROVE  SInv'
<1>1. /\ out' = out /\ app' = app /\ input' = input /\ copying' = copying
      /\ meta' = meta /\ upload' = "no"
      /\ meddled' = SomeAppLives /\ meta # "none"
  BY DEF BeginRun, Idle, master, dataset, host, cluster, Reachable, IInv, FormatComesFirst
<1>2. PICK x : x = NoRun
  OBVIOUS
<1>3. /\ x = [pc |-> "no", job |-> 1, app |-> Nil, own |-> [d \in Dir |-> Nil],
             input |-> [d \in Dir |-> Nil]]
      /\ run' = [x EXCEPT !.pc = "rm"]
  BY <1>2 DEF NoRun, BeginRun
<1>4. PICK y : y = NoFetch
  OBVIOUS
<1>5. fetch' = y /\ y = [pc |-> "no", left |-> {}, file |-> [d \in Dir |-> "none"]]
  BY <1>4 DEF NoFetch, BeginRun
<1>6. /\ fetch'.pc = "no"
      /\ fetch' \in FetchRecord
  BY <1>5
<1>7. /\ run'.pc = "rm" /\ run'.job = 1
      /\ run' \in RunRecord
  <2>1. 1 \in 1..Len(Dirs)
    BY ScriptsAssumption
  <2> QED BY <1>3, <2>1
<1>8. ScriptsTypeOK'
  <2>1. ClusterTypeOK'
    BY <1>1 DEF SInv, ScriptsTypeOK, ClusterTypeOK, Part
  <2>2. meddled' \in BOOLEAN
    BY <1>1 DEF SomeAppLives
  <2> QED BY <1>1, <1>6, <1>7, <2>1, <2>2 DEF SInv, ScriptsTypeOK
<1>9. FreshIsEmpty' /\ OnlyOurs' /\ CopiesFollowFetch'
  BY <1>1, <1>6 DEF SInv, FreshIsEmpty, OnlyOurs, CopiesFollowFetch, SomeAppLives,
                    Missing, NoParts, Part
<1>10. Due' = {Dirs[k] : k \in 1..Len(Dirs)}
  BY <1>7 DEF Due
<1>11. Dir \subseteq Due'
  BY <1>10, ScriptsAssumption
<1>12. OutputsFollowRun'
  BY <1>7, <1>11 DEF OutputsFollowRun
<1> QED BY <1>8, <1>9, <1>12 DEF SInv

\* The current directory is one of those that are due, and the next ones are so still.
LEMMA DueDirs ==
  ASSUME SInv, run.pc \in {"rm", "jar", "wait"}
  PROVE  /\ Dirs[run.job] \in Dir /\ Dirs[run.job] \in Due
         /\ run.job \in 1..Len(Dirs) /\ Len(Dirs) \in Nat
<1>1. run.job \in 1..Len(Dirs) /\ Dirs \in Seq(Dir) /\ Len(Dirs) \in Nat
  BY ScriptsAssumption DEF SInv, ScriptsTypeOK
<1>2. Dirs[run.job] \in {Dirs[k] : k \in run.job..Len(Dirs)}
  BY <1>1
<1> QED BY <1>1, <1>2 DEF Due

\* The output of the present job is removed, or is not.
LEMMA RemoveOldKeepsSInv ==
  ASSUME SInv, RemoveOld
  PROVE  SInv'
<1> DEFINE c == Dirs[run.job]
           R == [dir : BOOLEAN, part : [Part -> App \cup {Nil}], success : BOOLEAN]
<1>1. /\ app' = app /\ input' = input /\ copying' = copying /\ fetch' = fetch
      /\ meta' = meta /\ upload' = upload /\ meddled' = meddled
      /\ run.pc = "rm" /\ run' = [run EXCEPT !.pc = "jar"]
      /\ out' = out \/ out' = [out EXCEPT ![c] = Missing]
  BY DEF RemoveOld, master, dataset, host, cluster, Remove, RemoveFails
<1>2. run \in RunRecord
      /\ out \in [Dir -> R]
  BY DEF SInv, ScriptsTypeOK, ClusterTypeOK
<1>3. /\ run'.pc = "jar" /\ run'.job = run.job /\ run'.own = run.own /\ run'.input = run.input /\ run'.app = run.app
      /\ run' \in RunRecord
  BY <1>1, <1>2
<1>4. /\ out' \in [Dir -> R] /\ \A d \in Dir : d # c => out'[d] = out[d]
      /\ \A d \in Dir : out'[d] = out[d] \/ out'[d] = Missing
  <2>1. Missing \in R
    BY DEF Missing, NoParts
  <2>2. c \in Dir
    BY <1>1, DueDirs
  <2> HIDE DEF c, R
  <2> QED BY <1>1, <1>2, <2>1, <2>2
<1>5. ScriptsTypeOK'
  BY <1>1, <1>3, <1>4 DEF SInv, ScriptsTypeOK, ClusterTypeOK, Part
<1>6. FreshIsEmpty'
  BY <1>1, <1>4 DEF SInv, FreshIsEmpty, Missing, NoParts, Part
<1>7. OnlyOurs'
  BY <1>1, <1>3 DEF SInv, OnlyOurs
<1>8. CopiesFollowFetch'
  BY <1>1 DEF SInv, ScriptsTypeOK, CopiesFollowFetch
<1>9. OutputsFollowRun'
  <2>1. Due' = Due
    BY <1>1, <1>3 DEF Due
  <2>2. c \in Due
    BY <1>1, DueDirs
  <2>3. \A d \in Dir \ Due : out'[d] = out[d]
    BY <1>4, <2>2
  <2>4. \A d \in Dir \ Due : Owned(d) => Owned(d)'
    BY <1>1, <1>3, <2>3, OwnedStays
  <2> QED BY <1>1, <1>3, <2>1, <2>4 DEF SInv, OutputsFollowRun
<1> QED BY <1>5, <1>6, <1>7, <1>8, <1>9 DEF SInv
\* A client is started for the present job: one that has not been used before.
LEMMA RunJarKeepsSInv ==
  ASSUME SInv, RunJar
  PROVE  SInv'
<1> DEFINE c == Dirs[run.job]
           A == [dir : Dir \cup {Nil}, phase : Phase, done : SUBSET Part]
<1>1. PICK a \in App : StartClient(a, c) /\ run' = [run EXCEPT !.pc = "wait", !.app = a]
  BY DEF RunJar
<1>2. /\ input' = input /\ copying' = copying /\ fetch' = fetch
      /\ meta' = meta /\ upload' = upload /\ meddled' = meddled /\ out' = out
      /\ run.pc = "jar" /\ app[a].phase = "none"
      /\ app' = [app EXCEPT ![a].dir = c, ![a].phase = "starting"]
  BY <1>1 DEF RunJar, StartClient, master, dataset, host
<1>3. /\ run \in RunRecord
      /\ app \in [App -> A] /\ c \in Dir
  BY <1>2, DueDirs DEF SInv, ScriptsTypeOK, ClusterTypeOK
<1>4. /\ run'.pc = "wait" /\ run'.job = run.job /\ run'.own = run.own /\ run'.input = run.input /\ run'.app = a
      /\ run' \in RunRecord
  BY <1>1, <1>3
<1>5. /\ app' \in [App -> A] /\ app'[a].dir = c /\ app'[a].phase = "starting"
      /\ app'[a].done = app[a].done /\ \A b \in App : b # a => app'[b] = app[b]
  <2>1. "starting" \in Phase
    BY DEF Phase, Live
  <2> HIDE DEF c
  <2> QED BY <1>2, <1>3, <2>1
<1>6. ScriptsTypeOK'
  <2>1. \A b \in App : app'[b].phase # "none" => app'[b].dir \in Dir
    BY <1>3, <1>5 DEF SInv, ScriptsTypeOK, ClusterTypeOK
  <2>2. ClusterTypeOK'
    BY <1>2, <1>5, <2>1 DEF SInv, ScriptsTypeOK, ClusterTypeOK, Part
  <2> QED BY <1>2, <1>4, <1>5, <2>2 DEF SInv, ScriptsTypeOK
<1>7. FreshIsEmpty'
  BY <1>2, <1>5 DEF SInv, FreshIsEmpty, Missing, NoParts, Part
<1>8. OnlyOurs'
  BY <1>2, <1>4, <1>5 DEF SInv, OnlyOurs
<1>9. CopiesFollowFetch'
  BY <1>2 DEF SInv, CopiesFollowFetch, Found
<1>10. OutputsFollowRun'
  <2>1. Due' = Due
    BY <1>2, <1>4 DEF Due
  <2>2. \A b \in App : app[b].phase = "succeeded" => app'[b] = app[b]
    BY <1>2, <1>5
  <2>3. \A d \in Dir \ Due : Owned(d) => Owned(d)'
    BY <1>2, <1>4, <2>2, OwnedStays
  <2>4. MadeBy(a, c)'
    BY <1>4, <1>5 DEF MadeBy, Wrote
  <2>5. MadeBy(run.app, Dirs[run.job])'
    BY <1>4, <1>5 DEF MadeBy, Wrote
  <2> QED BY <1>2, <1>4, <1>5, <2>1, <2>3, <2>5 DEF SInv, OutputsFollowRun
<1> QED BY <1>6, <1>7, <1>8, <1>9, <1>10 DEF SInv

\* The present job is over: its output is in place, or the script stops.
LEMMA EndJarKeepsSInv ==
  ASSUME SInv, EndJar
  PROVE  SInv'
<1> DEFINE a == run.app
           c == Dirs[run.job]
<1>1. /\ input' = input /\ copying' = copying /\ fetch' = fetch /\ app' = app
      /\ meta' = meta /\ upload' = upload /\ meddled' = meddled /\ out' = out
      /\ run.pc = "wait" /\ fetch.pc = "no" /\ meddled \in BOOLEAN
      /\ \/ app[a].phase = "failed" /\ run' = NoRun
         \/ app[a].phase = "succeeded" /\ NextJob(a)
  BY DEF EndJar, master, dataset, host, cluster, JarFails, SInv, ScriptsTypeOK
<1>2. CASE run' = NoRun
  <2>1. UNCHANGED <<cluster, input, copying, meta>>
    BY <1>1 DEF cluster
  <2> QED BY <1>1, <1>2, <2>1, BetweenScripts
<1>3. CASE app[a].phase = "succeeded" /\ NextJob(a)
  <2>1. /\ run \in RunRecord
        /\ a \in App /\ c \in Dir /\ run.job \in 1..Len(Dirs) /\ Len(Dirs) \in Nat
    BY <1>1, DueDirs DEF SInv, ScriptsTypeOK
  <2>2. PICK pc, job : /\ pc = IF run.job < Len(Dirs) THEN "rm" ELSE "completed"
                       /\ job = IF run.job < Len(Dirs) THEN run.job + 1 ELSE run.job
    OBVIOUS
  <2>3. run' = [run EXCEPT !.app = Nil, !.own[c] = a, !.pc = pc, !.job = job]
    BY <1>3, <2>2 DEF NextJob
  <2>4. pc \in {"rm", "completed"} /\ job \in 1..Len(Dirs)
    BY <2>1, <2>2
  <2>5. /\ run'.pc = pc /\ run'.job = job /\ run'.own = [run.own EXCEPT ![c] = a]
        /\ run'.input = run.input
        /\ run' \in RunRecord
    <3> HIDE DEF a, c
    <3> QED BY <2>1, <2>3, <2>4
  <2>6. ScriptsTypeOK'
    <3>1. ClusterTypeOK'
      BY <1>1 DEF SInv, ScriptsTypeOK, ClusterTypeOK, Part
    <3> QED BY <1>1, <2>4, <2>5, <3>1 DEF SInv, ScriptsTypeOK
  <2>7. FreshIsEmpty' /\ CopiesFollowFetch'
    BY <1>1 DEF SInv, FreshIsEmpty, CopiesFollowFetch, Missing, NoParts, Part
  <2>8. OnlyOurs'
    BY <1>1, <1>3, <2>4, <2>5 DEF SInv, OnlyOurs, Live
  <2>9. ASSUME NEW d \in Dir \ Due'
        PROVE  d = c \/ d \in Dir \ Due
    <3>1. \A k \in run.job..Len(Dirs) : Dirs[k] = d => Dirs[k] = c
      <4> SUFFICES ASSUME NEW k \in run.job..Len(Dirs), Dirs[k] = d, k # run.job
                   PROVE  FALSE
        OBVIOUS
      <4>1. k \in (run.job + 1)..Len(Dirs) /\ run.job < Len(Dirs)
        BY <2>1
      <4>2. pc = "rm" /\ job = run.job + 1
        BY <2>2, <4>1
      <4> QED BY <2>5, <2>9, <4>1, <4>2 DEF Due
    <3> QED BY <1>1, <3>1 DEF Due
  <2>10. ASSUME ~meddled, NEW d \in Dir \ Due'
         PROVE  Owned(d)'
    <3>1. PICK b : b = a
      OBVIOUS
    <3>2. CASE d = c
      <4>1. run'.own[d] = b
        BY <2>1, <2>5, <3>1, <3>2
      <4>2. MadeBy(b, c) /\ app[b].phase = "succeeded" /\ b \in App
        BY <1>1, <1>3, <2>1, <2>10, <3>1 DEF SInv, OutputsFollowRun
      <4>3. /\ app'[b].phase = "succeeded" /\ run'.input[d] = Contents'
            /\ out'[d] = [dir |-> TRUE, part |-> [p \in Part |-> b], success |-> TRUE]
        BY <1>1, <2>5, <3>2, <4>2 DEF MadeBy, Wrote, HoldsOutputOf, Contents
      <4> QED BY <4>1, <4>2, <4>3 DEF Owned, HoldsOutputOf, Part
    <3>3. CASE d # c
      <4>1. Owned(d)
        BY <1>1, <2>9, <2>10, <3>3 DEF SInv, OutputsFollowRun
      <4>2. run'.own[d] = run.own[d]
        BY <2>1, <2>5, <3>3
      <4>3. run'.input[d] = run.input[d]
        BY <2>5
      <4> QED BY <1>1, <4>1, <4>2, <4>3, OwnedStays
    <3> QED BY <3>2, <3>3
  <2>11. OutputsFollowRun'
    BY <1>1, <2>4, <2>5, <2>10 DEF OutputsFollowRun
  <2> QED BY <2>6, <2>7, <2>8, <2>11 DEF SInv
<1> QED BY <1>1, <1>2, <1>3

LEMMA RunAllKeepsSInv ==
  ASSUME IInv, SInv, RunAll
  PROVE  SInv'
<1>1. CASE KillRun
  <2>1. /\ UNCHANGED <<cluster, input, copying, meta>> /\ run' = NoRun
        /\ fetch' = fetch /\ fetch.pc = "no" /\ meddled' \in BOOLEAN
    BY <1>1 DEF KillRun, master, dataset, SInv, ScriptsTypeOK
  <2> QED BY <2>1, BetweenScripts
<1> QED BY <1>1, BeginRunKeepsSInv, RemoveOldKeepsSInv, RunJarKeepsSInv, EndJarKeepsSInv
        DEF RunAll
\* fetch-results.sh: it changes nothing but its own files, and only a directory that
\* it has just found is still to be copied.
LEMMA FetchKeepsSInv ==
  ASSUME IInv, SInv, FetchAll
  PROVE  SInv'
<1> USE DEF SInv
<1>1. CASE BeginFetch
  <2>1. /\ UNCHANGED <<cluster, input, copying, meta>> /\ run' = NoRun
        /\ upload' = "no" /\ meddled' = SomeAppLives
        /\ fetch' = [NoFetch EXCEPT !.pc = "test", !.left = Dir]
    BY <1>1 DEF BeginFetch, Idle, master, dataset, host
  <2>2. /\ meddled' \in BOOLEAN
        /\ ~meddled' => \A a \in App : app[a].phase \notin Live
    BY <2>1 DEF SomeAppLives
  <2> QED BY <2>1, <2>2, BetweenScripts
<1>2. CASE (\E d \in Dir : TestDir(d) \/ Cat(d)) \/ EndFetch
  <2>1. /\ run' = run /\ input' = input /\ copying' = copying /\ app' = app
        /\ meta' = meta /\ upload' = upload /\ meddled' = meddled /\ out' = out
        /\ fetch.pc \in {"test", "cat"}
    BY <1>2 DEF TestDir, Cat, EndFetch, master, dataset, host, cluster
  <2>2. run.pc = "no" /\ upload = "no"
    BY <2>1 DEF ScriptsTypeOK
  <2>3. fetch \in FetchRecord
    BY DEF ScriptsTypeOK
  <2>4. ASSUME NEW f \in FetchRecord, fetch' = f,
               f.pc # "no" /\ Found' # {} => meta # "none",
               CopiesFollowFetch'
        PROVE  SInv'
    <3>1. ScriptsTypeOK'
      BY <2>1, <2>2, <2>4 DEF ScriptsTypeOK, ClusterTypeOK, Part
    <3>2. FreshIsEmpty' /\ OnlyOurs' /\ OutputsFollowRun'
      BY <2>1, <2>2 DEF FreshIsEmpty, OnlyOurs, OutputsFollowRun, Missing, NoParts, Part
    <3> QED BY <2>4, <3>1, <3>2
  <2>5. ASSUME NEW d \in Dir, TestDir(d) PROVE SInv'
    <3>1. fetch.pc = "test" /\ d \in fetch.left
      BY <2>5 DEF TestDir
    <3>2. CASE /\ Reachable
               /\ fetch' = [fetch EXCEPT !.pc = "cat", !.left = @ \ {d}, !.file[d] = "empty"]
      <4>1. PICK f : f = [fetch EXCEPT !.pc = "cat", !.left = @ \ {d}, !.file[d] = "empty"]
        OBVIOUS
      <4>2. /\ f \in FetchRecord /\ f.pc = "cat" /\ fetch' = f /\ f.file[d] = "empty"
            /\ \A e \in Dir : e # d => f.file[e] = fetch.file[e]
        BY <2>3, <3>2, <4>1
      <4>3. meta # "none"
        BY <3>2 DEF Reachable, IInv, FormatComesFirst
      <4>4. \A e \in Found : fetch.file[e] \in App /\ fetch.file[e] # "empty"
        BY <3>1, ScriptsAssumption DEF CopiesFollowFetch
      <4>5. CopiesFollowFetch'
        BY <2>1, <3>1, <4>2, <4>4 DEF CopiesFollowFetch, Found
      <4> QED BY <2>4, <4>2, <4>3, <4>5
    <3>3. CASE fetch' = [fetch EXCEPT !.left = @ \ {d}]
      <4>1. PICK f : f = [fetch EXCEPT !.left = @ \ {d}]
        OBVIOUS
      <4>2. f \in FetchRecord /\ f.pc = fetch.pc /\ f.file = fetch.file /\ fetch' = f
        BY <2>3, <3>3, <4>1
      <4>3. Found' = Found
        BY <4>2 DEF Found
      <4>4. CopiesFollowFetch'
        BY <2>1, <4>2, <4>3 DEF CopiesFollowFetch
      <4>5. f.pc # "no" /\ Found' # {} => meta # "none"
        BY <4>2, <4>3 DEF ScriptsTypeOK
      <4> QED BY <2>4, <4>2, <4>4, <4>5
    <3> QED BY <2>5, <3>2, <3>3 DEF TestDir
  <2>6. ASSUME NEW d \in Dir, Cat(d) PROVE SInv'
    <3>1. fetch.pc = "cat" /\ fetch.file[d] = "empty" /\ d \in Found
      BY <2>6 DEF Cat, Found
    <3>2. CASE /\ out[d].part[0] # Nil
               /\ fetch' = [fetch EXCEPT !.pc = "test", !.file[d] = out[d].part[0]]
      <4>1. PICK f : f = [fetch EXCEPT !.pc = "test", !.file[d] = out[d].part[0]]
        OBVIOUS
      <4>2. out[d].part[0] \in App
        BY <3>2 DEF ScriptsTypeOK, ClusterTypeOK, Part
      <4>3. /\ f \in FetchRecord /\ f.pc = "test" /\ fetch' = f
            /\ f.file[d] = out[d].part[0]
            /\ \A e \in Dir : e # d => f.file[e] = fetch.file[e]
        BY <2>3, <3>2, <4>1, <4>2
      <4>4. \A e \in Found : e # d =>
              fetch.file[e] \in App /\ (~meddled => fetch.file[e] = out[e].part[0])
        BY <3>1 DEF CopiesFollowFetch
      <4>5. Found' = Found
        BY <3>1, <4>2, <4>3, ScriptsAssumption DEF Found
      <4>6. CopiesFollowFetch'
        BY <2>1, <4>2, <4>3, <4>4, <4>5 DEF CopiesFollowFetch, Found
      <4>7. f.pc # "no" /\ Found' # {} => meta # "none"
        BY <3>1, <4>5 DEF ScriptsTypeOK
      <4> QED BY <2>4, <4>3, <4>6, <4>7
    <3>3. CASE fetch' = NoFetch
      <4>1. PICK f : f = NoFetch
        OBVIOUS
      <4>2. f \in FetchRecord /\ f.pc = "no" /\ fetch' = f
        BY <3>3, <4>1 DEF NoFetch
      <4>3. CopiesFollowFetch'
        BY <4>2 DEF CopiesFollowFetch
      <4> QED BY <2>4, <4>2, <4>3
    <3> QED BY <2>6, <3>2, <3>3 DEF Cat, CatFails
  <2>7. CASE EndFetch
    <3>1. PICK f : f = [fetch EXCEPT !.pc = "saved"]
      OBVIOUS
    <3>2. /\ f \in FetchRecord /\ f.pc = "saved" /\ f.file = fetch.file /\ fetch' = f
          /\ fetch.pc = "test"
      BY <2>3, <2>7, <3>1 DEF EndFetch
    <3>3. Found' = Found
      BY <3>2 DEF Found
    <3>4. CopiesFollowFetch'
      BY <2>1, <3>2, <3>3 DEF CopiesFollowFetch
    <3>5. f.pc # "no" /\ Found' # {} => meta # "none"
      BY <3>2, <3>3 DEF ScriptsTypeOK
    <3> QED BY <2>4, <3>2, <3>4, <3>5
  <2> QED BY <1>2, <2>5, <2>6, <2>7
<1> QED BY <1>1, <1>2 DEF FetchAll
-----------------------------------------------------------------------------
(* Applications *)

\* A record of an output directory is given by its fields.
LEMMA OutRecordFields ==
  ASSUME NEW S, NEW o \in [dir : BOOLEAN, part : S, success : BOOLEAN]
  PROVE  o = [dir |-> o.dir, part |-> o.part, success |-> o.success]
OBVIOUS

\* The records that a step of an application makes of it.
WithDir(o) == [o EXCEPT !.dir = TRUE]
WithSuccess(o) == [o EXCEPT !.dir = TRUE, !.success = TRUE]
WithParts(o, x) == [o EXCEPT !.dir = TRUE, !.part = x]

LEMMA OutRecords ==
  ASSUME NEW S, NEW o \in [dir : BOOLEAN, part : S, success : BOOLEAN], NEW x \in S
  PROVE  /\ WithDir(o) = [dir |-> TRUE, part |-> o.part, success |-> o.success]
         /\ WithSuccess(o) = [dir |-> TRUE, part |-> o.part, success |-> TRUE]
         /\ WithParts(o, x) = [dir |-> TRUE, part |-> x, success |-> o.success]
<1>1. PICK n, m, l : n = WithDir(o) /\ m = WithSuccess(o) /\ l = WithParts(o, x)
  OBVIOUS
<1>2. /\ n \in [dir : BOOLEAN, part : S, success : BOOLEAN]
      /\ n.dir = TRUE /\ n.part = o.part /\ n.success = o.success
  BY <1>1 DEF WithDir
<1>3. /\ m \in [dir : BOOLEAN, part : S, success : BOOLEAN]
      /\ m.dir = TRUE /\ m.part = o.part /\ m.success = TRUE
  BY <1>1 DEF WithSuccess
<1>4. /\ l \in [dir : BOOLEAN, part : S, success : BOOLEAN]
      /\ l.dir = TRUE /\ l.part = x /\ l.success = o.success
  BY <1>1 DEF WithParts
<1>5. n = [dir |-> TRUE, part |-> o.part, success |-> o.success]
  BY <1>2, OutRecordFields
<1>6. m = [dir |-> TRUE, part |-> o.part, success |-> TRUE]
  BY <1>3, OutRecordFields
<1>7. l = [dir |-> TRUE, part |-> x, success |-> o.success]
  BY <1>4, OutRecordFields
<1> QED BY <1>1, <1>5, <1>6, <1>7

\* What a step of application a does to it and to its directory.
Worked(a) ==
  /\ ClusterTypeOK' /\ FreshIsEmpty'
  /\ app'[a].dir = app[a].dir /\ app'[a].phase \in {"submitted", "running", "succeeded", "failed"}
  /\ app'[a].phase = "submitted" <=> app[a].phase = "starting" /\ app'[a].phase # "failed"
  /\ \A b \in App \ {a} : app'[b] = app[b]
  /\ \A d \in Dir : d # app[a].dir => out'[d] = out[d]
  /\ Wrote(a, app[a].dir) => Wrote(a, app[a].dir)'

LEMMA AppStepEffect ==
  ASSUME ClusterTypeOK, FreshIsEmpty, NEW a \in App, AppStep(a)
  PROVE  app[a].phase \in Live /\ app[a].dir \in Dir /\ Worked(a)
<1> DEFINE d == app[a].dir
           n == app'[a]
           AppRecord == [dir : Dir \cup {Nil}, phase : Phase, done : SUBSET Part]
           OutRecord == [dir : BOOLEAN, part : [Part -> App \cup {Nil}], success : BOOLEAN]
<1>1. app \in [App -> AppRecord] /\ app[a] \in AppRecord /\ out \in [Dir -> OutRecord]
  BY DEF ClusterTypeOK
<1>2. /\ app[a].phase \in Live /\ d \in Dir /\ out[d] \in OutRecord
  <2>1. app[a].phase \in Live
    BY DEF AppStep, CheckOutput, SetUp, CommitJob, Abort, Publish, Live
  <2> QED BY <1>1, <2>1 DEF ClusterTypeOK, Live
<1>3. ASSUME app' \in [App -> AppRecord], n.dir = d,
             n.phase \in {"submitted", "running", "succeeded", "failed"},
             n.phase = "submitted" => n.done = {},
             n.phase = "submitted" <=> app[a].phase = "starting" /\ n.phase # "failed",
             \A b \in App \ {a} : app'[b] = app[b],
             out' \in [Dir -> OutRecord], \A e \in Dir : e # d => out'[e] = out[e],
             out'[d].dir \/ out'[d] = Missing,
             Wrote(a, app[a].dir) => Wrote(a, app[a].dir)'
      PROVE  Worked(a)
  <2>1. ClusterTypeOK'
    <3>1. \A b \in App : app'[b].phase # "none" => app'[b].dir \in Dir
      BY <1>2, <1>3 DEF ClusterTypeOK
    <3> QED BY <1>3, <3>1 DEF ClusterTypeOK, Part
  <2>2. FreshIsEmpty'
    <3>1. \A e \in Dir : out'[e].dir \/ out'[e] = Missing
      BY <1>3 DEF FreshIsEmpty
    <3>2. \A b \in App : app'[b].phase \in {"none", "starting", "submitted"} => app'[b].done = {}
      BY <1>3 DEF FreshIsEmpty
    <3> QED BY <3>1, <3>2 DEF FreshIsEmpty, Missing, NoParts, Part
  <2> QED BY <1>3, <2>1, <2>2 DEF Worked
<1>4. out[d].dir \/ out[d] = Missing
  BY <1>2 DEF FreshIsEmpty
<1>5. ASSUME NEW ph \in Phase, app' = [app EXCEPT ![a].phase = ph]
      PROVE  /\ app' \in [App -> AppRecord] /\ n.dir = d /\ n.phase = ph
             /\ n.done = app[a].done /\ \A b \in App \ {a} : app'[b] = app[b]
  BY <1>1, <1>5
<1>6. ASSUME NEW o \in OutRecord, out' = [out EXCEPT ![d] = o]
      PROVE  /\ out' \in [Dir -> OutRecord] /\ \A e \in Dir : e # d => out'[e] = out[e]
             /\ out'[d] = o
  BY <1>1, <1>2, <1>6
<1>7. /\ app[a].phase \in {"starting", "submitted"} => app[a].done = {}
      /\ Live \cup {"failed", "succeeded"} \subseteq Phase
  BY DEF FreshIsEmpty, Phase
<1>8. CASE CheckOutput(a)
  <2> DEFINE ph == IF out[d].dir THEN "failed" ELSE "submitted"
  <2>1. /\ out' = out /\ app' = [app EXCEPT ![a].phase = ph] /\ ph \in Phase
        /\ app[a].phase = "starting" /\ ph \in {"failed", "submitted"}
    BY <1>8 DEF CheckOutput, Phase, Live
  <2>2. n.phase = ph /\ n.dir = d
    <3> HIDE DEF ph
    <3> QED BY <1>5, <2>1
  <2>3. Wrote(a, app[a].dir)'
    <3>1. n.phase = "submitted" => out[d] = Missing
      BY <1>4, <2>2
    <3>2. n.phase \notin {"running", "succeeded"}
      BY <2>2
    <3> QED BY <2>1, <2>2, <3>1, <3>2 DEF Wrote, Missing, NoParts, Part
  <2> HIDE DEF ph
  <2> QED BY <1>1, <1>2, <1>3, <1>4, <1>5, <1>7, <2>1, <2>2, <2>3
<1>9. CASE Abort(a)
  <2>1. out' = out /\ app' = [app EXCEPT ![a].phase = "failed"] /\ "failed" \in Phase
    BY <1>7, <1>9 DEF Abort
  <2>2. Wrote(a, app[a].dir)'
    BY <1>5, <2>1 DEF Wrote
  <2> QED BY <1>1, <1>2, <1>3, <1>4, <1>5, <2>1, <2>2
<1>10. CASE SetUp(a)
  <2>1. /\ app' = [app EXCEPT ![a].phase = "running"] /\ "running" \in Phase
        /\ out' = [out EXCEPT ![d].dir = TRUE]
        /\ app[a].phase = "submitted" /\ app[a].done = {}
    BY <1>7, <1>10 DEF SetUp, Live
  <2>2. PICK o \in OutRecord : /\ o = [dir |-> TRUE, part |-> out[d].part,
                                       success |-> out[d].success]
                               /\ out' = [out EXCEPT ![d] = o]
    <3>1. out' = [out EXCEPT ![d] = WithDir(out[d])]
      BY <1>1, <1>2, <2>1 DEF WithDir
    <3> QED BY <1>2, <3>1, OutRecords
  <2>3. o.dir /\ n.phase = "running" /\ n.dir = d /\ n.done = {} /\ out'[d] = o
    BY <1>5, <1>6, <2>1, <2>2
  <2>4. ASSUME Wrote(a, app[a].dir) PROVE Wrote(a, app[a].dir)'
    <3>1. out[d] = Missing
      BY <2>1, <2>4 DEF Wrote
    <3>2. o = [dir |-> TRUE, part |-> [p \in Part |-> Nil], success |-> FALSE]
      BY <2>2, <3>1 DEF Missing, NoParts
    <3>3. [p \in Part |-> IF p \in {} THEN a ELSE Nil] = [p \in Part |-> Nil]
      OBVIOUS
    <3>4. out'[n.dir] = [dir |-> out'[n.dir].dir,
                         part |-> [p \in Part |-> IF p \in n.done THEN a ELSE Nil],
                         success |-> FALSE]
      BY <2>3, <3>2, <3>3
    <3> QED BY <2>3, <3>4 DEF Wrote, Part
  <2> QED BY <1>1, <1>2, <1>3, <1>5, <1>6, <2>1, <2>2, <2>3, <2>4
<1>11. CASE CommitJob(a)
  <2>1. /\ app' = [app EXCEPT ![a].phase = "succeeded"] /\ "succeeded" \in Phase
        /\ out' = [out EXCEPT ![d].dir = TRUE, ![d].success = TRUE]
        /\ app[a].phase = "running" /\ app[a].done = Part
    BY <1>7, <1>11 DEF CommitJob
  <2>2. PICK o \in OutRecord : /\ o = [dir |-> TRUE, part |-> out[d].part, success |-> TRUE]
                               /\ out' = [out EXCEPT ![d] = o]
    <3>1. out' = [out EXCEPT ![d] = WithSuccess(out[d])]
      BY <1>1, <1>2, <2>1 DEF WithSuccess
    <3> QED BY <1>2, <3>1, OutRecords
  <2>3. o.dir /\ n.phase = "succeeded" /\ n.dir = d /\ out'[d] = o
    BY <1>5, <1>6, <2>1, <2>2
  <2>4. ASSUME Wrote(a, app[a].dir) PROVE Wrote(a, app[a].dir)'
    <3>1. out[d].part = [p \in Part |-> IF p \in app[a].done THEN a ELSE Nil]
      BY <2>1, <2>4 DEF Wrote
    <3>2. out[d].part = [p \in Part |-> a]
      BY <2>1, <3>1
    <3>3. out'[n.dir] = [dir |-> TRUE, part |-> [p \in Part |-> a], success |-> TRUE]
      BY <2>2, <2>3, <3>2
    <3> QED BY <2>3, <3>3 DEF Wrote, HoldsOutputOf, Part
  <2> QED BY <1>1, <1>2, <1>3, <1>5, <1>6, <2>1, <2>2, <2>3, <2>4
<1>12. ASSUME NEW p \in Part, Publish(a, p) PROVE Worked(a)
  <2> DEFINE dn == app[a].done \cup {p}
             pt == [out[d].part EXCEPT ![p] = a]
  <2>1. /\ app' = [app EXCEPT ![a].done = dn] /\ dn \in SUBSET Part
        /\ out' = [out EXCEPT ![d].dir = TRUE, ![d].part[p] = a]
        /\ app[a].phase = "running"
    BY <1>1, <1>12 DEF Publish
  <2>2. pt \in [Part -> App \cup {Nil}]
    BY <1>2
  <2>3. PICK o \in OutRecord : /\ o = [dir |-> TRUE, part |-> pt, success |-> out[d].success]
                               /\ out' = [out EXCEPT ![d] = o]
    <3>1. out' = [out EXCEPT ![d] = WithParts(out[d], pt)]
      BY <1>1, <1>2, <2>1 DEF WithParts
    <3> HIDE DEF pt
    <3>2. WithParts(out[d], pt) = [dir |-> TRUE, part |-> pt, success |-> out[d].success]
      BY <1>2, <2>2, OutRecords
    <3>3. [dir |-> TRUE, part |-> pt, success |-> out[d].success] \in OutRecord
      BY <1>2, <2>2
    <3> QED BY <3>1, <3>2, <3>3
  <2>4. /\ app' \in [App -> AppRecord] /\ n.dir = d /\ n.phase = "running"
        /\ n.done = dn /\ \A b \in App \ {a} : app'[b] = app[b]
    <3> HIDE DEF dn
    <3> QED BY <1>1, <2>1
  <2>5. o.dir /\ out'[d] = o
    BY <1>6, <2>3
  <2>6. ASSUME Wrote(a, app[a].dir) PROVE Wrote(a, app[a].dir)'
    <3>1. /\ out[d].part = [x \in Part |-> IF x \in app[a].done THEN a ELSE Nil]
          /\ out[d].success = FALSE
      BY <2>1, <2>6 DEF Wrote
    <3>2. pt = [x \in Part |-> IF x \in dn THEN a ELSE Nil]
      BY <3>1
    <3>3. out'[n.dir] = [dir |-> out'[n.dir].dir,
                         part |-> [x \in Part |-> IF x \in n.done THEN a ELSE Nil],
                         success |-> FALSE]
      <4> HIDE DEF pt, dn
      <4> QED BY <2>3, <2>4, <2>5, <3>1, <3>2
    <3> QED BY <2>4, <3>3 DEF Wrote, Part
  <2> QED BY <1>1, <1>3, <1>6, <2>1, <2>3, <2>4, <2>5, <2>6
<1> QED BY <1>2, <1>8, <1>9, <1>10, <1>11, <1>12 DEF AppStep
\* A step of an application while run-all-jobs.sh is under way: it is the application
\* of the present job, or somebody else has touched the outputs.
LEMMA RunAppKeepsSInv ==
  ASSUME SInv, NEW a \in App, RunApp(a)
  PROVE  SInv'
<1>1. /\ app[a].phase \in Live /\ app[a].dir \in Dir /\ Worked(a)
      /\ fetch' = fetch /\ meddled' = meddled
      /\ input' = input /\ copying' = copying /\ meta' = meta /\ upload' = upload
  BY AppStepEffect DEF SInv, ScriptsTypeOK, RunApp, master, dataset, host
<1>2. PICK sub : sub = (run.pc = "wait" /\ a = run.app /\ app'[a].phase = "submitted")
  OBVIOUS
<1>3. /\ run' \in RunRecord
      /\ run'.pc = run.pc /\ run'.job = run.job /\ run'.app = run.app /\ run'.own = run.own
      /\ sub => run'.input[Dirs[run.job]] = Contents
      /\ \A d \in Dir : ~sub \/ d # Dirs[run.job] => run'.input[d] = run.input[d]
  <2>1. run \in RunRecord
    BY DEF SInv, ScriptsTypeOK
  <2>2. CASE sub
    <3>1. Dirs[run.job] \in Dir
      BY <1>2, <2>2, DueDirs
    <3>2. Contents \in {"none", "cut", "whole"} \X {"none", "cut", "whole"}
      BY DEF SInv, ScriptsTypeOK, Contents
    <3>3. PICK k \in Dir, c \in {"none", "cut", "whole"} \X {"none", "cut", "whole"} :
            k = Dirs[run.job] /\ c = Contents
      BY <3>1, <3>2
    <3>4. run' = [run EXCEPT !.input[k] = c]
      BY <1>2, <2>2, <3>3 DEF RunApp
    <3>5. /\ run' \in RunRecord /\ run'.pc = run.pc /\ run'.job = run.job
          /\ run'.app = run.app /\ run'.own = run.own /\ run'.input[k] = c
          /\ \A d \in Dir : d # k => run'.input[d] = run.input[d]
      BY <2>1, <3>4
    <3> QED BY <2>2, <3>3, <3>5
  <2>3. CASE ~sub
    <3>1. run' = run
      BY <1>2, <2>3 DEF RunApp
    <3> QED BY <2>1, <2>3, <3>1
  <2> QED BY <2>2, <2>3
<1>4. ScriptsTypeOK' /\ FreshIsEmpty'
  <2>1. run.pc = "wait" => app'[run.app].phase # "none" /\ app'[run.app].dir = app[run.app].dir
    BY <1>1 DEF Worked, SInv, ScriptsTypeOK
  <2>2. Found' = Found
    BY <1>1 DEF Found
  <2> HIDE DEF RunRecord, FetchRecord
  <2> QED BY <1>1, <1>3, <2>1, <2>2 DEF Worked, SInv, ScriptsTypeOK
<1>5. OnlyOurs'
  <2>1. \A b \in App : app'[b].phase \in Live => app[b].phase \in Live
    BY <1>1 DEF Worked
  <2> QED BY <1>1, <1>3, <2>1 DEF SInv, OnlyOurs
<1>6. ~meddled /\ (run.pc # "no" \/ fetch.pc # "no")
        => run.pc = "wait" /\ a = run.app /\ app[a].dir = Dirs[run.job]
  BY <1>1 DEF SInv, OnlyOurs, ScriptsTypeOK
<1>7. CopiesFollowFetch'
  <2>1. ~(fetch.pc # "no" /\ ~meddled)
    BY <1>6 DEF SInv, ScriptsTypeOK
  <2>2. Found' = Found
    BY <1>1 DEF Found
  <2> QED BY <1>1, <2>1, <2>2 DEF SInv, CopiesFollowFetch
<1>8. OutputsFollowRun'
  <2> SUFFICES ASSUME run.pc # "no", ~meddled
               PROVE  /\ run'.pc = "wait" => MadeBy(run.app, Dirs[run.job])'
                      /\ \A d \in Dir \ Due' : Owned(d)'
    BY <1>1, <1>3 DEF OutputsFollowRun
  <2>1. /\ run.pc = "wait" /\ a = run.app /\ app[a].dir = Dirs[run.job]
        /\ Dirs[run.job] \in Dir /\ Dirs[run.job] \in Due
    BY <1>6, DueDirs
  <2>2. MadeBy(run.app, Dirs[run.job])
    BY <2>1 DEF SInv, OutputsFollowRun
  <2>3. MadeBy(run.app, Dirs[run.job])'
    <3>1. Wrote(a, app[a].dir)'
      BY <1>1, <2>1, <2>2 DEF Worked, MadeBy
    <3>2. Wrote(run.app, Dirs[run.job])'
      BY <1>1, <1>3, <2>1, <3>1 DEF Worked, Wrote, HoldsOutputOf
    <3>3. app'[a].phase \in {"submitted", "running", "succeeded"}
            => run'.input[Dirs[run.job]] = Contents
      <4>1. app'[a].phase \in {"running", "succeeded"}
              => app[a].phase \in {"submitted", "running"} /\ ~sub
        BY <1>1, <1>2 DEF Worked, Live
      <4>2. app'[a].phase = "submitted" => sub
        BY <1>2, <2>1
      <4> QED BY <1>3, <2>1, <2>2, <4>1, <4>2 DEF MadeBy
    <3>4. Contents' = Contents
      BY <1>1 DEF Contents
    <3> QED BY <1>1, <1>3, <2>1, <3>2, <3>3, <3>4 DEF MadeBy
  <2>4. ASSUME NEW d \in Dir \ Due' PROVE Owned(d)'
    <3>1. Due' = Due
      BY <1>3 DEF Due
    <3>2. Owned(d) /\ d # Dirs[run.job]
      BY <2>1, <2>4, <3>1 DEF SInv, OutputsFollowRun
    <3>3. out'[d] = out[d]
      BY <1>1, <2>1, <2>4, <3>2 DEF Worked
    <3>4. \A b \in App : app[b].phase = "succeeded" => app'[b] = app[b]
      BY <1>1 DEF Worked, Live
    <3> QED BY <1>1, <1>3, <3>2, <3>3, <3>4, OwnedStays
  <2> QED BY <2>3, <2>4
<1> QED BY <1>4, <1>5, <1>7, <1>8 DEF SInv

\* Somebody else removes an output, or starts an application: nothing is promised
\* any more of what the outputs hold.
LEMMA MeddleKeepsSInv ==
  ASSUME SInv, Meddle
  PROVE  SInv'
<1> DEFINE A == [dir : Dir \cup {Nil}, phase : Phase, done : SUBSET Part]
           R == [dir : BOOLEAN, part : [Part -> App \cup {Nil}], success : BOOLEAN]
<1>1. /\ run' = run /\ fetch' = fetch /\ input' = input /\ copying' = copying
      /\ meta' = meta /\ upload' = upload /\ meddled' = TRUE
  BY DEF Meddle, master, dataset, host
<1>2. app \in [App -> A] /\ out \in [Dir -> R]
  BY DEF SInv, ScriptsTypeOK, ClusterTypeOK
<1>3. /\ ClusterTypeOK' /\ FreshIsEmpty'
      /\ \A b \in App : app[b].phase # "none" => app'[b] = app[b]
  <2>1. CASE \E d \in Dir : Remove(d)
    <3>1. PICK d \in Dir : Remove(d)
      BY <2>1
    <3>2. /\ app' = app /\ out' \in [Dir -> R]
          /\ \A e \in Dir : out'[e] = out[e] \/ out'[e] = Missing
      <4>1. Missing \in R
        BY DEF Missing, NoParts
      <4>2. out' = [out EXCEPT ![d] = Missing] /\ app' = app
        BY <3>1 DEF Remove
      <4> HIDE DEF R
      <4> QED BY <1>2, <4>1, <4>2
    <3> QED BY <3>2 DEF SInv, ScriptsTypeOK, ClusterTypeOK, FreshIsEmpty, Missing, NoParts, Part
  <2>2. CASE \E d \in Dir, a \in App : StartClient(a, d)
    <3>1. PICK d \in Dir, a \in App : StartClient(a, d)
      BY <2>2
    <3>2. /\ out' = out /\ app[a].phase = "none"
          /\ app' = [app EXCEPT ![a].dir = d, ![a].phase = "starting"]
      BY <3>1 DEF StartClient
    <3>3. /\ app' \in [App -> A] /\ app'[a].dir = d /\ app'[a].phase = "starting"
          /\ app'[a].done = app[a].done /\ \A b \in App : b # a => app'[b] = app[b]
      <4>1. "starting" \in Phase
        BY DEF Phase, Live
      <4> QED BY <1>2, <3>2, <4>1
    <3>4. \A b \in App : app'[b].phase # "none" => app'[b].dir \in Dir
      BY <3>3 DEF SInv, ScriptsTypeOK, ClusterTypeOK
    <3>5. ClusterTypeOK'
      BY <3>2, <3>3, <3>4 DEF SInv, ScriptsTypeOK, ClusterTypeOK, Part
    <3>6. FreshIsEmpty'
      BY <3>2, <3>3 DEF SInv, FreshIsEmpty, Missing, NoParts, Part
    <3> QED BY <3>2, <3>3, <3>5, <3>6
  <2> QED BY <2>1, <2>2 DEF Meddle
<1>4. ScriptsTypeOK'
  BY <1>1, <1>3 DEF SInv, ScriptsTypeOK, Found
<1>5. OnlyOurs' /\ OutputsFollowRun' /\ CopiesFollowFetch'
  BY <1>1 DEF SInv, OnlyOurs, OutputsFollowRun, CopiesFollowFetch, Found
<1> QED BY <1>3, <1>4, <1>5 DEF SInv

-----------------------------------------------------------------------------
(* All together *)

LEMMA InitSInv == Init => SInv
<1> SUFFICES ASSUME Init PROVE SInv
  OBVIOUS
<1>1. /\ MasterInit /\ ClusterInit /\ run = NoRun /\ fetch = NoFetch
      /\ meddled = FALSE
  BY DEF Init
<1>2. run.pc = "no" /\ run \in RunRecord
  <2>1. 1 \in 1..Len(Dirs)
    BY ScriptsAssumption
  <2> QED BY <1>1, <2>1 DEF NoRun
<1>3. fetch.pc = "no" /\ fetch \in FetchRecord
  BY <1>1 DEF NoFetch
<1>4. /\ \A a \in App : app[a].phase = "none" /\ app[a].done = {}
      /\ \A d \in Dir : out[d] = Missing
  BY <1>1 DEF ClusterInit
<1>5. ClusterTypeOK
  <2>1. Missing \in [dir : BOOLEAN, part : [Part -> App \cup {Nil}], success : BOOLEAN]
    BY DEF Missing, NoParts
  <2>2. out \in [Dir -> [dir : BOOLEAN, part : [Part -> App \cup {Nil}], success : BOOLEAN]]
    BY <1>1, <2>1 DEF ClusterInit
  <2>3. app \in [App -> [dir : Dir \cup {Nil}, phase : Phase, done : SUBSET Part]]
    BY <1>1 DEF ClusterInit, Phase
  <2> QED BY <1>4, <2>2, <2>3 DEF ClusterTypeOK
<1>6. input \in {"none", "cut", "whole"} /\ copying \in {"none", "cut", "whole"}
  BY <1>1 DEF MasterInit
<1>7. ScriptsTypeOK
  BY <1>1, <1>2, <1>3, <1>5, <1>6 DEF ScriptsTypeOK
<1>8. FreshIsEmpty /\ OnlyOurs /\ OutputsFollowRun /\ CopiesFollowFetch
  BY <1>2, <1>3, <1>4 DEF FreshIsEmpty, OnlyOurs, OutputsFollowRun, CopiesFollowFetch
<1> QED BY <1>7, <1>8 DEF SInv

LEMMA NextKeepsSInv ==
  ASSUME IInv, SInv, [Next]_vars
  PROVE  SInv'
<1>1. CASE UNCHANGED vars
  <2>1. /\ UNCHANGED <<out, app, run, fetch, meddled>>
        /\ UNCHANGED <<input, copying, meta, upload>>
    BY <1>1 DEF vars, master, dataset, host, cluster, scripts
  <2>2. ScriptsTypeOK'
    BY <2>1 DEF SInv, ScriptsTypeOK, Found, ClusterTypeOK, Part
  <2>3. FreshIsEmpty' /\ OnlyOurs' /\ CopiesFollowFetch'
    BY <2>1 DEF SInv, FreshIsEmpty, OnlyOurs, CopiesFollowFetch, Found, Missing, NoParts, Part
  <2>4. OutputsFollowRun'
    BY <2>1 DEF SInv, OutputsFollowRun, Owned, MadeBy, Wrote, Due, HoldsOutputOf,
                Contents, Missing, NoParts, Part
  <2> QED BY <2>2, <2>3, <2>4 DEF SInv
<1>2. CASE BeginUpload
  <2>1. /\ UNCHANGED <<cluster, input, copying, meta>> /\ meddled' \in BOOLEAN
        /\ run' = NoRun /\ fetch' = NoFetch
    BY <1>2 DEF BeginUpload, master, dataset, SInv, ScriptsTypeOK
  <2>2. PICK f : f = NoFetch
    OBVIOUS
  <2>3. fetch'.pc = "no"
    BY <2>1, <2>2 DEF NoFetch
  <2> QED BY <2>1, <2>3, BetweenScripts
<1>3. CASE MasterStep \/ (UploadStep /\ UNCHANGED <<cluster, scripts>>)
  BY <1>3, HostKeepsSInv DEF MasterStep
<1> QED BY <1>1, <1>2, <1>3, FormatKeepsSInv, RunAllKeepsSInv, FetchKeepsSInv,
           MeddleKeepsSInv, RunAppKeepsSInv DEF Next

LEMMA ScriptsInductive == Spec => [](IInv /\ SInv)
<1>1. IInv /\ SInv /\ [Next]_vars => SInv'
  BY NextKeepsSInv
<1> QED BY <1>1, InitSInv, Inductive, PTL DEF Spec

\* run-all-jobs.sh: when it has said that all jobs are completed, and nobody else has
\* touched the outputs, each directory holds the whole output of the application that
\* this very call has started for it, made from what is in the input directory still.
THEOREM TablesAreOwn == Spec => []CompletedMeansTables
<1>1. SInv => CompletedMeansTables
  <2> SUFFICES ASSUME SInv, run.pc = "completed", ~meddled, NEW d \in Dir
               PROVE  HoldsOutputOf(d, run.own[d]) /\ run.input[d] = Contents
    BY DEF CompletedMeansTables
  <2>1. Owned(d)
    BY DEF SInv, OutputsFollowRun, Due
  <2> QED BY <2>1 DEF Owned
<1> QED BY <1>1, ScriptsInductive, PTL

\* fetch-results.sh: when it has said that the results are saved, every directory that
\* it found has a copy, and while nobody else touches the outputs the copy is the table
\* in it.
THEOREM CopiesAreWhole == Spec => []SavedMeansCopied
<1>1. SInv => SavedMeansCopied
  BY DEF SInv, CopiesFollowFetch, SavedMeansCopied
<1> QED BY <1>1, ScriptsInductive, PTL
=============================================================================
