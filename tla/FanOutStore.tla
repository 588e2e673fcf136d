----------------------------- MODULE FanOutStore -----------------------------
(***************************************************************************)
(* A MultiStore of the SQLite store and a FileStore (stores.py:80-170,     *)
(* 789-840): every write goes to the SQLite store and then to one file per *)
(* event, and what a backend raises is logged and swallowed.  Reads and    *)
(* evaluation scores are the SQLite store's alone.                         *)
(*                                                                         *)
(* A file is opened, which empties it, and written.  A remote file system  *)
(* shows the file only once it is written, which is a special case.        *)
(***************************************************************************)
EXTENDS SqliteStore

VARIABLES leg,       \* the backend each thread's call is at
          sent,      \* the batch each thread's call was given
          filed,     \* how many of its events are filed
          opened,    \* the file of the next one is open
          took,      \* the SQLite store took the batch
          file,      \* the file of each event
          truthFile, \* what the ground truth files of each trace hold
          relevant,  \* the ground truth each thread is writing
          logged,    \* history: events passed in a call
          again,     \* history: events passed in more than one call
          counted,   \* history: events of calls that returned a number above 0
          unfiled,   \* history: events of calls whose filing raised
          apart      \* history: traces whose ground truth was disturbed

fanvars == <<leg, sent, filed, opened, took, file, truthFile, relevant, logged,
             again, counted, unfiled, apart>>
allvars == <<vars, fanvars>>

NoTrace == <<>>

FanTypeOK ==
  /\ TypeOK
  /\ leg \in [Thread -> {"none", "sqlite", "files", "truth"}]
  /\ sent \in [Thread -> Seq(Event)]
  /\ filed \in [Thread -> Nat]
  /\ opened \in [Thread -> BOOLEAN]
  /\ took \in [Thread -> BOOLEAN]
  /\ file \in [Event -> {"absent", "torn", "whole"}]
  /\ truthFile \in [Trace -> SUBSET SUBSET Chunk]
  /\ relevant \in [Thread -> (Trace \X SUBSET Chunk) \cup {NoTrace}]
  /\ {logged, again, counted, unfiled} \subseteq SUBSET Event
  /\ apart \in SUBSET Trace

FanInit ==
  /\ Init
  /\ leg = [t \in Thread |-> "none"]
  /\ sent = [t \in Thread |-> <<>>]
  /\ filed = [t \in Thread |-> 0]
  /\ opened = [t \in Thread |-> FALSE]
  /\ took = [t \in Thread |-> FALSE]
  /\ file = [e \in Event |-> "absent"]
  /\ truthFile = [tr \in Trace |-> {}]
  /\ relevant = [t \in Thread |-> NoTrace]
  /\ logged = {}
  /\ again = {}
  /\ counted = {}
  /\ unfiled = {}
  /\ apart = {}

------------------------------------------------------------------------------
(* MultiStore.ingest_events. *)

Members(s) == {s[i] : i \in DOMAIN s}
Unfiled(t) == sent[t][filed[t] + 1]

FanCall(t, b) ==
  /\ leg[t] = "none"
  /\ Call(t, b)
  /\ leg' = [leg EXCEPT ![t] = "sqlite"]
  /\ sent' = [sent EXCEPT ![t] = b]
  /\ logged' = logged \cup Members(b)
  /\ again' = again \cup (logged \cap Members(b))
  /\ UNCHANGED <<filed, opened, took, file, truthFile, relevant, counted, unfiled, apart>>

(* Mutant: an exception of the first backend ends the call. *)
SqliteLegUncaught(t) ==
  /\ leg[t] = "sqlite"
  /\ ThreadStep(t)
  /\ IF pc'[t] = "idle"
     THEN /\ leg' = [leg EXCEPT ![t] = IF pc[t] = "publishing" THEN "files" ELSE "none"]
          /\ took' = [took EXCEPT ![t] = (pc[t] = "publishing")]
          /\ sent' = [sent EXCEPT ![t] = IF pc[t] = "publishing" THEN @ ELSE <<>>]
     ELSE UNCHANGED <<leg, took, sent>>
  /\ UNCHANGED <<filed, opened, file, truthFile, relevant, logged, again,
                 counted, unfiled, apart>>

(* The call into the SQLite store; when it returns or raises, the next     *)
(* backend is called.                                                      *)
SqliteLeg(t) ==
  /\ leg[t] = "sqlite"
  /\ ThreadStep(t)
  /\ IF pc'[t] = "idle"
     THEN /\ leg' = [leg EXCEPT ![t] = "files"]
          /\ took' = [took EXCEPT ![t] = (pc[t] = "publishing")]
     ELSE UNCHANGED <<leg, took>>
  /\ UNCHANGED <<sent, filed, opened, file, truthFile, relevant, logged, again,
                 counted, unfiled, apart>>

(* FileStore.ingest_events: the next event's file is opened for writing. *)
OpenFile(t) ==
  /\ leg[t] = "files"
  /\ filed[t] < Len(sent[t])
  /\ ~opened[t]
  /\ opened' = [opened EXCEPT ![t] = TRUE]
  /\ file' = [file EXCEPT ![Unfiled(t)] = "torn"]
  /\ UNCHANGED <<vars, leg, sent, filed, took, truthFile, relevant, logged, again,
                 counted, unfiled, apart>>

WriteFile(t) ==
  /\ opened[t]
  /\ opened' = [opened EXCEPT ![t] = FALSE]
  /\ filed' = [filed EXCEPT ![t] = @ + 1]
  /\ file' = [file EXCEPT ![Unfiled(t)] = "whole"]
  /\ UNCHANGED <<vars, leg, sent, took, truthFile, relevant, logged, again,
                 counted, unfiled, apart>>

(* The call returns the number of the last backend that took the batch. *)
EndCall(t) ==
  /\ leg' = [leg EXCEPT ![t] = "none"]
  /\ sent' = [sent EXCEPT ![t] = <<>>]
  /\ filed' = [filed EXCEPT ![t] = 0]
  /\ opened' = [opened EXCEPT ![t] = FALSE]
  /\ took' = [took EXCEPT ![t] = FALSE]
  /\ UNCHANGED <<vars, file, truthFile, relevant, logged, again, apart>>

(* Opening or writing a file raises: the rest of the batch is not filed. *)
FilingFails(t) ==
  /\ leg[t] = "files"
  /\ filed[t] < Len(sent[t])
  /\ unfiled' = unfiled \cup {sent[t][i] : i \in (filed[t] + 1)..Len(sent[t])}
  /\ counted' = counted \cup (IF took[t] THEN Members(sent[t]) ELSE {})
  /\ EndCall(t)

FilingEnds(t) ==
  /\ leg[t] = "files"
  /\ filed[t] = Len(sent[t])
  /\ counted' = counted \cup Members(sent[t])
  /\ UNCHANGED unfiled
  /\ EndCall(t)

------------------------------------------------------------------------------
(* MultiStore.set_ground_truth. *)

(* The SQLite store's part, which may raise when another process holds the *)
(* database.  Two calls for one trace at a time may pass each other.       *)
FanTruth(t, tr, cs) ==
  /\ leg[t] = "none"
  /\ pc[t] = "idle"
  /\ leg' = [leg EXCEPT ![t] = "truth"]
  /\ relevant' = [relevant EXCEPT ![t] = <<tr, cs>>]
  /\ \/ /\ SetGroundTruth(tr, cs)
        /\ apart' = apart \cup {x \in {tr} : \E u \in Thread : leg[u] = "truth" /\ relevant[u][1] = tr}
     \/ /\ WriteRefused
        /\ apart' = apart \cup {tr}
  /\ UNCHANGED <<sent, filed, opened, took, file, truthFile, logged, again, counted,
                 unfiled>>

(* Mutant: one backend that has the ground truth is enough. *)
TruthNotFiled(t) ==
  /\ leg[t] = "truth"
  /\ leg' = [leg EXCEPT ![t] = "none"]
  /\ relevant' = [relevant EXCEPT ![t] = NoTrace]
  /\ UNCHANGED <<vars, sent, filed, opened, took, file, truthFile, logged, again, counted,
                 unfiled, apart>>

(* The FileStore's part, which may raise.  The file is named for the day   *)
(* of the call: the files of earlier days stay.                            *)
TruthFiled(t) ==
  /\ leg[t] = "truth"
  /\ leg' = [leg EXCEPT ![t] = "none"]
  /\ relevant' = [relevant EXCEPT ![t] = NoTrace]
  /\ \/ /\ \E earlier \in {{}, truthFile[relevant[t][1]]} :
             truthFile' = [truthFile EXCEPT ![relevant[t][1]] = earlier \cup {relevant[t][2]}]
        /\ UNCHANGED apart
     \/ /\ apart' = apart \cup {relevant[t][1]}
        /\ UNCHANGED truthFile
  /\ UNCHANGED <<vars, sent, filed, opened, took, file, logged, again, counted, unfiled>>

------------------------------------------------------------------------------

(* The SQLite store's own operations, which the fan-out store hands on. *)
EndListing(t) ==
  /\ leg[t] = "none"
  /\ FillQueries(t)
  /\ UNCHANGED fanvars

Read(t) ==
  \/ EndListing(t)
  \/ /\ leg[t] = "none"
     /\ \E p \in Project : ListGenerations(t, p)
     /\ UNCHANGED fanvars

Score(tr) ==
  /\ SetEvalScore(tr) \/ WriteRefused
  /\ UNCHANGED fanvars

(* The process dies: a file that was open stays torn. *)
FanCrash ==
  /\ Crash
  /\ leg' = [t \in Thread |-> "none"]
  /\ sent' = [t \in Thread |-> <<>>]
  /\ filed' = [t \in Thread |-> 0]
  /\ opened' = [t \in Thread |-> FALSE]
  /\ took' = [t \in Thread |-> FALSE]
  /\ relevant' = [t \in Thread |-> NoTrace]
  /\ unfiled' = unfiled \cup UNION {Members(sent[t]) : t \in Thread}
  /\ apart' = apart \cup {tr \in Trace : \E t \in Thread :
                            leg[t] = "truth" /\ relevant[t][1] = tr}
  /\ UNCHANGED <<file, truthFile, logged, again, counted>>

FanThreadStep(t) ==
  SqliteLeg(t) \/ OpenFile(t) \/ WriteFile(t) \/ FilingFails(t) \/ FilingEnds(t)
    \/ TruthFiled(t)

FanNext ==
  \/ \E t \in Thread :
       \/ \E b \in Batches : FanCall(t, b)
       \/ \E tr \in Trace, cs \in SUBSET Chunk : FanTruth(t, tr, cs)
       \/ FanThreadStep(t)
       \/ Read(t)
  \/ \E tr \in Trace : Score(tr)
  \/ FanCrash

FanSpec == FanInit /\ [][FanNext]_allvars

(* A thread inside a call is scheduled until the call ends. *)
FanFairness ==
  \A t \in Thread : WF_allvars(FanThreadStep(t)) /\ WF_allvars(EndListing(t))

FanFairSpec == FanSpec /\ FanFairness

------------------------------------------------------------------------------

(* Each backend keeps its own account of a batch, whatever the other does  *)
(* with it: an event whose call is over is in a whole file unless filing   *)
(* raised or the process died, and committed unless the SQLite store       *)
(* raised or the process died.  A call that says it took events has them   *)
(* somewhere, unless they are sent again (stores.py:807-814).              *)
EachBackendAccounts ==
  LET over == logged \ UNION {Members(sent[t]) : t \in Thread}
  IN  /\ over \ again \subseteq {e \in Event : file[e] = "whole"} \cup unfiled
      /\ over \subseteq acked \cup raised \cup unfiled
      /\ counted \ again \subseteq disk.event \cup {e \in Event : file[e] = "whole"}

(* The ground truth that the database holds of a trace is filed, beside    *)
(* those of earlier days perhaps, unless two calls for the trace           *)
(* overlapped, a backend raised or the process died within one             *)
(* (stores.py:142-153, 816-821).                                           *)
TruthsAgree ==
  \A tr \in Trace \ apart :
    (\A t \in Thread : relevant[t] # NoTrace => relevant[t][1] # tr)
      => /\ disk.truth[tr] \subseteq truthFile[tr]
         /\ disk.truth[tr] = {} => truthFile[tr] = {}

(* Every call ends, in both backends: one that raises in the middle of a   *)
(* batch does not keep the lock from the others.                           *)
EveryCallEnds ==
  \A t \in Thread : (pc[t] # "idle" \/ leg[t] # "none") ~> (pc[t] = "idle" /\ leg[t] = "none")
==============================================================================
