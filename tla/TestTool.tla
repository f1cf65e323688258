----------------------------- MODULE TestTool -------------------------------
(***************************************************************************)
(* The concurrency test tool (3_concurrent_test_tool).  main starts one    *)
(* thread per client and a detached reporter, and joins the clients.  A    *)
(* client counts itself, opens, decodes and closes its stream, with a      *)
(* return at each call of FFmpeg that may fail; the reporter logs the      *)
(* count now and then.  The log is output and is left out.                 *)
(***************************************************************************)
EXTENDS Integers, FiniteSets

CONSTANTS Threads,  \* the threads of handleThread
          Types,    \* test types: 0 only counts, 1 pulls and decodes
          Nobody    \* the owner of a free mutex

ASSUME ToolAssumption == IsFiniteSet(Threads) /\ Nobody \notin Threads

VARIABLES
  type,            \* the option -t
  pc,              \* [c]: where thread c is
  allocated,            \* [c]: what its decoder and its stack hold of FFmpeg
  temp,            \* [c]: g_online_count as the thread read it
  g_online_count,
  g_online_mtx,    \* its owner, or Nobody
  run,            \* "create", "join", "returned" from run, or "ended"
  reporter         \* "none", "sleep", "report" or "dead"

toolVars == <<type, pc, allocated, temp, g_online_count, g_online_mtx, run, reporter>>
count   == <<temp, g_online_count, g_online_mtx>>
process == <<run, reporter>>

(* The calls of testPullAndDecodeStream that may fail, in their order.     *)
Calls == {"open", "info", "stream", "device", "decoder", "parameters", "codec"}
Following == [open    |-> "info",       info       |-> "stream",
              stream  |-> "device",     device     |-> "decoder",
              decoder |-> "parameters", parameters |-> "codec",
              codec   |-> "read"]

Resources == {"context", "options", "device", "codec", "frames", "packet"}

(* What a call leaves allocated: avformat_open_input frees the context     *)
(* when it fails, the codec's context is there before its parameters are.  *)
After(call, ok, h) ==
  CASE call = "open"       -> IF ok THEN h ELSE h \ {"context"}
    [] call = "device"     -> IF ok THEN h \cup {"device"} ELSE h
    [] call = "parameters" -> h \cup {"codec"}
    [] call = "codec"      -> IF ok THEN h \cup {"frames"} ELSE h
    [] OTHER               -> h

Locations == Calls \cup {"none", "start", "add", "construct", "read", "unref",
                         "stop", "subtract", "destroy", "done"}

-----------------------------------------------------------------------------
ToolInit == /\ type \in Types
            /\ pc = [c \in Threads |-> "none"]
            /\ allocated = [c \in Threads |-> {}]
            /\ temp = [c \in Threads |-> 0]
            /\ g_online_count = 0
            /\ g_online_mtx = Nobody
            /\ run = "create"
            /\ reporter = "none"

Goto(c, loc) == pc' = [pc EXCEPT ![c] = loc]

(* Mutant of Lock: without the mutex.                                      *)
Enter(c, from, to) ==
  /\ pc[c] = from
  /\ temp' = [temp EXCEPT ![c] = g_online_count]
  /\ Goto(c, to)
  /\ UNCHANGED <<type, allocated, g_online_count, g_online_mtx, process>>

(* g_online_count++ and g_online_count--, read and write, under the mutex. *)
Lock(c, from, to) ==
  /\ pc[c] = from
  /\ g_online_mtx = Nobody
  /\ g_online_mtx' = c
  /\ temp' = [temp EXCEPT ![c] = g_online_count]
  /\ Goto(c, to)
  /\ UNCHANGED <<type, allocated, g_online_count, process>>

(* Mutant of Unlock: a thread that leaves keeps the mutex.                 *)
UnlockOnce(c, from, step, to) ==
  /\ pc[c] = from
  /\ g_online_count' = temp[c] + step
  /\ g_online_mtx' = IF step = 1 THEN Nobody ELSE c
  /\ Goto(c, to)
  /\ UNCHANGED <<type, allocated, temp, process>>

Unlock(c, from, step, to) ==
  /\ pc[c] = from
  /\ g_online_count' = temp[c] + step
  /\ g_online_mtx' = Nobody
  /\ Goto(c, to)
  /\ UNCHANGED <<type, allocated, temp, process>>

Online(c)  == Lock(c, "start", "add") \/ Unlock(c, "add", 1, "construct")
Offline(c) == Lock(c, "stop", "subtract") \/ Unlock(c, "subtract", -1, "destroy")

(* FFmpegDecoder's constructor, and the options of the stream.             *)
Construct(c) ==
  /\ pc[c] = "construct"
  /\ allocated' = [allocated EXCEPT ![c] = IF type = 1 THEN {"context", "options"}
                                                      ELSE {"context"}]
  /\ Goto(c, IF type = 1 THEN "open" ELSE "stop")
  /\ UNCHANGED <<type, count, process>>

Call(c) ==
  /\ pc[c] \in Calls
  /\ \E ok \in BOOLEAN :
       /\ allocated' = [allocated EXCEPT ![c] = After(pc[c], ok, @)]
       /\ Goto(c, IF ok THEN Following[pc[c]] ELSE "stop")
  /\ UNCHANGED <<type, count, process>>

(* Each packet is given back, whether it was decoded or not.               *)
ReadPacket(c) ==
  /\ pc[c] = "read"
  /\ allocated' = [allocated EXCEPT ![c] = @ \cup {"packet"}]
  /\ Goto(c, "unref")
  /\ UNCHANGED <<type, count, process>>

UnrefPacket(c) ==
  /\ pc[c] = "unref"
  /\ allocated' = [allocated EXCEPT ![c] = @ \ {"packet"}]
  /\ Goto(c, "read")
  /\ UNCHANGED <<type, count, process>>

(* The stream ends, or cannot be read any more.                            *)
EndStream(c) ==
  /\ pc[c] = "read"
  /\ allocated' = [allocated EXCEPT ![c] = @ \ {"frames"}]
  /\ Goto(c, "stop")
  /\ UNCHANGED <<type, count, process>>

(* Mutant of Destroy: the codec's context is left to the format's.         *)
DestroyContext(c) ==
  /\ pc[c] = "destroy"
  /\ allocated' = [allocated EXCEPT ![c] = @ \ {"context"}]
  /\ Goto(c, "done")
  /\ UNCHANGED <<type, count, process>>

(* ~FFmpegDecoder, after the thread was counted out.                       *)
Destroy(c) ==
  /\ pc[c] = "destroy"
  /\ allocated' = [allocated EXCEPT ![c] = @ \ {"codec", "context"}]
  /\ Goto(c, "done")
  /\ UNCHANGED <<type, count, process>>

HandleThread(c) == \/ Online(c) \/ Construct(c) \/ Call(c) \/ ReadPacket(c)
                   \/ UnrefPacket(c) \/ EndStream(c) \/ Offline(c) \/ Destroy(c)

-----------------------------------------------------------------------------
(* run                                                                     *)

CreateThread(c) ==
  /\ run = "create"
  /\ pc[c] = "none"
  /\ Goto(c, "start")
  /\ UNCHANGED <<type, allocated, count, process>>

CreateReporter ==
  /\ run = "create"
  /\ \A c \in Threads : pc[c] # "none"
  /\ run' = "join"
  /\ reporter' = "sleep"
  /\ UNCHANGED <<type, pc, allocated, count>>

Join ==
  /\ run = "join"
  /\ \A c \in Threads : pc[c] = "done"
  /\ run' = "returned"
  /\ UNCHANGED <<type, pc, allocated, count, reporter>>

(* The process ends, and the reporter with it.                             *)
ReturnFromMain ==
  /\ run = "returned"
  /\ run' = "ended"
  /\ reporter' = "dead"
  /\ UNCHANGED <<type, pc, allocated, count>>

Run == (\E c \in Threads : CreateThread(c)) \/ CreateReporter \/ Join \/ ReturnFromMain

(* The reporter has `interval` by reference and nobody joins it: it may    *)
(* read the variable when run has returned, and ends with the process.     *)
Sleep ==
  /\ reporter = "sleep"
  /\ reporter' = "report"
  /\ UNCHANGED <<type, pc, allocated, count, run>>

Report ==
  /\ reporter = "report"
  /\ g_online_mtx = Nobody
  /\ reporter' = "sleep"
  /\ UNCHANGED <<type, pc, allocated, count, run>>

ToolNext == Run \/ Sleep \/ Report \/ (\E c \in Threads : HandleThread(c))

ToolSpec == ToolInit /\ [][ToolNext]_toolVars

(* Threads run, and the mutex does not starve one of them for ever.  Each  *)
(* stream ends at some time: nothing else ends a client that reads.        *)
FairToolSpec == /\ ToolSpec
                /\ WF_toolVars(Run)
                /\ \A c \in Threads : /\ WF_toolVars(HandleThread(c))
                                      /\ SF_toolVars(Online(c))
                                      /\ SF_toolVars(Offline(c))
                                      /\ SF_toolVars(EndStream(c))

-----------------------------------------------------------------------------
ToolTypeOK == /\ type \in Types
              /\ pc \in [Threads -> Locations]
              /\ allocated \in [Threads -> SUBSET Resources]
              /\ temp \in [Threads -> Int]
              /\ g_online_count \in Int
              /\ g_online_mtx \in Threads \cup {Nobody}
              /\ run \in {"create", "join", "returned", "ended"}
              /\ reporter \in {"none", "sleep", "report", "dead"}

(* What the reporter logs is the number of threads that counted themselves *)
(* in and not yet out: no increment or decrement of another is lost.       *)
Counted == {c \in Threads :
              pc[c] \in Calls \cup {"construct", "read", "unref", "stop", "subtract"}}
OnlineCounted == g_online_count = Cardinality(Counted)

(* The types and the count.                                                *)
CountCorrect == ToolTypeOK /\ OnlineCounted

(* Whatever call fails, a thread uses nothing that is not allocated, and   *)
(* when it is done it has freed all but the options that av_dict_set       *)
(* created and the device, which no line of the tool releases.             *)
Resourced ==
  \A c \in Threads :
    /\ pc[c] \in Calls \cup {"read", "unref"} => "context" \in allocated[c]
    /\ pc[c] \in {"read", "unref"} => {"codec", "frames"} \subseteq allocated[c]
    /\ pc[c] = "done" => allocated[c] \subseteq {"options", "device"}

(* The tool ends once all streams have ended, whichever of them failed.    *)
ToolEnds == <>(run = "ended")
=============================================================================
