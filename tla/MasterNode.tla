----------------------------- MODULE MasterNode -----------------------------
(***************************************************************************)
(* The master's container and the dataset.  entrypoint-master.sh formats   *)
(* HDFS the first time, starts the daemons, waits a bounded time for safe  *)
(* mode to end, makes the directories and starts the services, each once.  *)
(* The container may stop at any moment, and Docker starts it again; the   *)
(* volume with the NameNode's directory remains.                           *)
(*                                                                         *)
(* upload-dataset.sh runs on the host: it downloads, decompresses,         *)
(* normalises and uploads the dataset, and leaves out a step whose result  *)
(* it finds.  It may be killed at any moment and run again.                *)
(*                                                                         *)
(* put -f writes a file of its own, the target's name with ._COPYING_, in  *)
(* the same directory, deletes the target, and renames.  A put that breaks *)
(* off may leave that file, which the jobs read like any other there.      *)
(***************************************************************************)
EXTENDS Naturals

CONSTANTS
  MaxTries,   \* how often the script asks for safe mode: 30
  MaxFaults   \* bound on the stops of the container and the kills of the NameNode or an upload

ASSUME MasterAssumption == MaxTries \in Nat /\ MaxFaults \in Nat

VARIABLES
  meta,          \* the NameNode's directory: "none", "torn" if the format was cut off, "formatted"
  boot,          \* how far the entry point is
  tries,         \* the rounds of its wait
  faults,        \* stops and kills so far
  namenode,      \* "down", "safe", "on"
  inputDir,      \* is there the input directory in HDFS
  input,         \* the dataset in it, under its own name: "none", "cut", "whole"
  copying,       \* the copy of it that put makes or has left beside it, likewise
  local,         \* the files on the host's disk, likewise
  upload,        \* how far upload-dataset.sh is
  gunzipCut      \* has a kill ever met gunzip

master  == <<meta, boot, tries, faults, namenode>>
dataset == <<inputDir, input, copying>>
host    == <<local, upload, gunzipCut>>

MasterInit ==
  /\ meta = "none" /\ boot = "off" /\ tries = 0 /\ faults = 0
  /\ namenode = "down"
  /\ inputDir = FALSE /\ input = "none" /\ copying = "none"
  /\ local = [gz |-> "none", csv |-> "none", norm |-> "none"]
  /\ upload = "no" /\ gunzipCut = FALSE

\* Commands that only read get through in safe mode too; any command may fail.
Reachable == namenode # "down"
Writable  == namenode = "on"

Fault == faults < MaxFaults /\ faults' = faults + 1

-----------------------------------------------------------------------------
(* entrypoint-master.sh *)

\* Mutant of MustFormat: -force, and no test.
MustFormatAlways == TRUE

\* [ ! -d "${NAMENODE_DIR}/current" ]
MustFormat == meta = "none"

PowerOn ==
  /\ boot = "off"
  /\ boot' = IF MustFormat THEN "format" ELSE "start"
  /\ UNCHANGED <<meta, tries, faults, namenode, dataset, host>>

\* The format makes the directory, and then what belongs in it.  Whatever HDFS
\* held is gone.
BeginFormat ==
  /\ boot = "format" /\ meta' = "torn" /\ boot' = "formatting"
  /\ inputDir' = FALSE /\ input' = "none" /\ copying' = "none"
  /\ UNCHANGED <<tries, faults, namenode, host>>

EndFormat ==
  /\ boot = "formatting" /\ meta' = "formatted" /\ boot' = "start"
  /\ UNCHANGED <<tries, faults, namenode, dataset, host>>

\* hdfs --daemon start namenode || true: it does not start from a directory that
\* is torn, and may fail to for other reasons.
StartDaemons ==
  /\ boot = "start" /\ boot' = "wait"
  /\ namenode' \in IF meta = "formatted" THEN {"down", "safe"} ELSE {"down"}
  /\ UNCHANGED <<meta, tries, faults, dataset, host>>

\* The DataNodes have reported.
LeaveSafeMode ==
  /\ namenode = "safe" /\ namenode' = "on"
  /\ UNCHANGED <<meta, boot, tries, faults, dataset, host>>

\* Mutant of WaitOver: the script waits for as long as it takes.
WaitOverWhenOn == namenode = "on"

WaitOver == namenode = "on" \/ tries = MaxTries

WaitForSafeMode ==
  /\ boot = "wait" /\ ~WaitOver
  /\ tries' = IF tries < MaxTries THEN tries + 1 ELSE tries
  /\ UNCHANGED <<meta, boot, faults, namenode, dataset, host>>

\* mkdir -p || true, and the services in the background.
StartServices ==
  /\ boot = "wait" /\ WaitOver /\ boot' = "up" /\ tries' = 0
  /\ inputDir' \in {inputDir, inputDir \/ Writable}
  /\ UNCHANGED <<meta, faults, namenode, input, copying, host>>

\* Nobody starts a daemon again while the container lives.
Die ==
  /\ namenode # "down" /\ namenode' = "down" /\ Fault
  /\ UNCHANGED <<meta, boot, tries, dataset, host>>

\* The container stops: killed, or because a command failed that set -e minds.
Stop ==
  /\ boot # "off" /\ boot' = "off" /\ Fault
  /\ namenode' = "down" /\ tries' = 0
  /\ UNCHANGED <<meta, dataset, host>>

Boot == PowerOn \/ BeginFormat \/ EndFormat \/ StartDaemons \/ WaitForSafeMode \/ StartServices

-----------------------------------------------------------------------------
(* upload-dataset.sh *)

Step(from, to) == upload = from /\ upload' = to

\* Nothing is done if the dataset is there under its own name, whatever lies beside
\* it; if the command fails, that looks as if it was not.
TestInput ==
  /\ \/ Reachable /\ input # "none" /\ Step("begin", "no")
     \/ Step("begin", IF local.csv = "none" /\ local.gz = "none" THEN "download"
                         ELSE IF local.csv = "none" THEN "gunzip" ELSE "normalise")
  /\ UNCHANGED <<master, dataset, local, gunzipCut>>

Download ==
  /\ Step("download", "gunzip") /\ local' = [local EXCEPT !.gz = "whole"]
  /\ UNCHANGED <<master, dataset, gunzipCut>>

\* gunzip takes back what it has made of an archive that is cut, and fails.
Gunzip ==
  /\ IF local.gz = "whole"
     THEN Step("gunzip", "normalise") /\ local' = [local EXCEPT !.csv = "whole"]
     ELSE Step("gunzip", "no") /\ UNCHANGED local
  /\ UNCHANGED <<master, dataset, gunzipCut>>

\* Mutant of Normalised: done if its result is not there, like the other steps.
NormalisedOnce == IF local.norm = "none" THEN local.csv ELSE local.norm

Normalised == local.csv

Normalise ==
  /\ Step("normalise", "put") /\ local' = [local EXCEPT !.norm = Normalised]
  /\ UNCHANGED <<master, dataset, gunzipCut>>

\* mkdir -p, and put -f begins the copy, in place of one that was left.
BeginPut ==
  /\ Writable /\ Step("put", "copy")
  /\ inputDir' = TRUE /\ copying' = "cut"
  /\ UNCHANGED <<master, input, local, gunzipCut>>

\* The copy is complete, and the old file is deleted.
Put ==
  /\ Writable /\ Step("copy", "rename")
  /\ copying' = local.norm /\ input' = "none"
  /\ UNCHANGED <<master, inputDir, local, gunzipCut>>

Rename ==
  /\ Writable /\ Step("rename", "verify")
  /\ input' = copying /\ copying' = "none"
  /\ UNCHANGED <<master, inputDir, local, gunzipCut>>

\* -ls and -cat, and "Dataset upload complete".
Verify ==
  /\ Reachable /\ Step("verify", "done")
  /\ UNCHANGED <<master, dataset, local, gunzipCut>>

\* What may lie beside the dataset when put breaks off: its copy, in the middle
\* or complete, unless put can take it back.
LeftCopies ==
  IF upload \in {"copy", "rename"}
  THEN {copying, local.norm} \cup {c \in {"none"} : Writable}
  ELSE {copying}

\* HDFS cannot be written, or not be asked at the end; set -e.
PutFails ==
  /\ \/ ~Writable /\ (Step("put", "no") \/ Step("copy", "no") \/ Step("rename", "no"))
     \/ ~Reachable /\ Step("verify", "no")
  /\ copying' \in LeftCopies
  /\ UNCHANGED <<master, inputDir, input, local, gunzipCut>>

\* The script is killed, and with it what it runs, or a command fails for a reason
\* of its own: kaggle, gunzip and python leave what they have written so far, put
\* its copy, and mkdir may have made the directory.
KillUpload ==
  /\ upload \notin {"no", "done"} /\ upload' = "no" /\ Fault
  /\ local' \in {local} \cup
       CASE upload = "download"  -> {[local EXCEPT !.gz = "cut"]}
         [] upload = "gunzip"    -> {[local EXCEPT !.csv = "cut"]}
         [] upload = "normalise" -> {[local EXCEPT !.norm = "cut"]}
         [] OTHER                -> {}
  /\ gunzipCut' = (gunzipCut \/ local'.csv # local.csv)
  /\ inputDir' \in {inputDir, inputDir \/ (upload = "put" /\ Writable)}
  /\ copying' \in LeftCopies
  /\ UNCHANGED <<meta, boot, tries, namenode, input>>

UploadStep == TestInput \/ Download \/ Gunzip \/ Normalise
              \/ BeginPut \/ Put \/ Rename \/ Verify \/ PutFails \/ KillUpload

-----------------------------------------------------------------------------
(* Properties *)

\* "Dataset upload complete": the jobs find the dataset and nothing else, whatever
\* earlier calls, kills and stops have left on the disk and in HDFS.  And the file
\* under its own name, for which later calls ask, is cut off only if a kill has met
\* gunzip: a download that was cut does not decompress, the normalised copy is made
\* anew, and put renames what is complete.  (Nothing of the kind holds of the copy
\* that a put may leave beside it: that can be cut off, and the jobs read it.)
UploadedMeansWhole ==
  /\ upload = "done" => inputDir /\ input # "none" /\ copying = "none"
  /\ input = "cut" => gunzipCut

\* Restarts of the container, in the middle of the format too, and calls of the
\* script while HDFS cannot be asked, never spoil the dataset's own file, and lose
\* it only between the deletion and the renaming of an upload that takes place anew.
WholeStaysWhole ==
  [][input = "whole" /\ ~gunzipCut => input' = "whole" \/ (upload = "copy" /\ input' = "none")
    ]_<<master, dataset, host>>

\* The entry point gets to the end, with or without HDFS.
BootEnds == boot # "up" ~> boot = "up"
=============================================================================
