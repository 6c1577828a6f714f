------------------------------- MODULE CELLLog -------------------------------
(***************************************************************************)
(* CELLLog (CELLLog.hpp), on its task server: a static object made by its  *)
(* first use, to which any thread adds lines and whose one worker writes   *)
(* them to _logFile and to the console.                                    *)
(*                                                                         *)
(* The main thread of both programs makes it with setLogPath, the first    *)
(* statement of main, and destroys it when the process ends.  _logFile is  *)
(* not protected: the main thread sets it while the worker may be between  *)
(* its test and its writes.  The other threads of the client are detached  *)
(* and may log until the object is gone.                                   *)
(***************************************************************************)
EXTENDS CELLTaskServer

CONSTANTS Main,         \* the main thread, the one that starts and closes
          SetLine,      \* the line setLogPath logs
          ByeLine       \* the line ~CELLLog logs

ASSUME LogConstants ==
    /\ Main \in Controllers
    /\ {SetLine, ByeLine} \subseteq Tasks
    /\ Nobody \notin Tasks

VARIABLES main,         \* where the main thread is
          logFile,      \* _logFile: "none" (nullptr), "open", or "closed" by fclose
          line,         \* where the worker is in the task of Echo
          text          \* history: the lines written to the file

logVars == <<main, logFile, line, text>>
allVars == <<vars, logVars>>

LogInit ==
    /\ Init
    /\ main = "start"
    /\ logFile = "none"
    /\ line = "test"
    /\ text = <<>>

MainGoes(from, to) == main = from /\ main' = to

------------------------------------------------------------------------------
\* Instance() for the first time: the constructor starts the task server.
Construct(w) ==
    /\ MainGoes("start", "setLogPath")
    /\ Start(Main, w)
    /\ UNCHANGED <<logFile, line, text>>

\* setLogPath: fopen may fail; Info in either case.
Fopen ==
    /\ MainGoes("setLogPath", "info")
    /\ logFile' \in {"none", "open"}
    /\ UNCHANGED <<line, text, vars>>

SetInfo ==
    /\ MainGoes("info", "run")
    /\ addTask(SetLine)
    /\ UNCHANGED <<logFile, line, text>>

\* Echo, called by any thread through Info, Debug, Warning and Error.
Echo(t) ==
    /\ main \notin {"start", "setLogPath", "info", "gone"}
    /\ t \notin {SetLine, ByeLine}
    /\ addTask(t)
    /\ UNCHANGED logVars

\* Mutant of CallDestroy: the file is closed before the task server.
CallDestroyCloses ==
    /\ MainGoes("run", "close")
    /\ CallClose(Main)
    /\ logFile' = IF logFile = "open" THEN "closed" ELSE logFile
    /\ UNCHANGED <<line, text>>

\* ~CELLLog: _taskServer.Close() is called, goes on, and has returned.
CallDestroy ==
    /\ MainGoes("run", "close")
    /\ CallClose(Main)
    /\ UNCHANGED <<logFile, line, text>>

Closing == CloseStep(Main) /\ UNCHANGED logVars

\* With a file: one more line, which no worker will read, then fclose.
DestroyInfo ==
    /\ MainGoes("close", "fclose")
    /\ caller[Main] = "out"
    /\ logFile # "none"
    /\ addTask(ByeLine)
    /\ UNCHANGED <<logFile, line, text>>

Gone ==
    /\ \/ /\ MainGoes("fclose", "gone")
          /\ logFile' = "closed"
       \/ /\ MainGoes("close", "gone")
          /\ caller[Main] = "out"
          /\ logFile = "none"
          /\ UNCHANGED logFile
    /\ UNCHANGED <<line, text, vars>>

MainStep == Fopen \/ SetInfo \/ Closing \/ DestroyInfo \/ Gone

------------------------------------------------------------------------------
\* The task the worker has reached, in either of its loops.
Reached(w) ==
    CASE Running(w) /\ place = "run" /\ position < Len(tasks) -> tasks[position + 1]
      [] worker[w] = "returning" /\ position < Len(tasksBuf) -> tasksBuf[position + 1]
      [] OTHER -> Nobody

\* The task of Echo: the test of _logFile, the writes to it, then printf, with
\* which the task has run.
TestFile(w) ==
    /\ Reached(w) # Nobody
    /\ line = "test"
    /\ line' = IF logFile # "none" THEN "write" ELSE "print"
    /\ UNCHANGED <<main, logFile, text, vars>>

WriteFile(w) ==
    /\ Reached(w) # Nobody
    /\ line = "write"
    /\ text' = Append(text, Reached(w))
    /\ line' = "print"
    /\ UNCHANGED <<main, logFile, vars>>

PrintLine(w) ==
    /\ line = (IF Reached(w) # Nobody THEN "print" ELSE "test")
    /\ RunTask(w) \/ Drain(w)
    /\ line' = "test"
    /\ UNCHANGED <<main, logFile, text>>

LogWorkerStep(w) ==
    \/ TestFile(w) \/ WriteFile(w) \/ PrintLine(w)
    \/ (Loop(w) \/ Test(w) \/ Move(w) \/ Finish(w)) /\ UNCHANGED logVars

------------------------------------------------------------------------------
LogNext ==
    \/ \E w \in Workers : Construct(w) \/ LogWorkerStep(w)
    \/ MainStep
    \/ CallDestroy
    \/ \E t \in Tasks : Echo(t)

\* Every thread runs; the process need not end (CallDestroy).
LogFairness ==
    /\ WF_allVars(Fopen \/ SetInfo \/ DestroyInfo \/ Gone)
    /\ WF_allVars(Thread!ControllerStep(Main) /\ UNCHANGED <<taskVars, logVars>>)
    /\ \A w \in Workers : WF_allVars(LogWorkerStep(w))

LogSpec == LogInit /\ [][LogNext]_allVars /\ LogFairness
------------------------------------------------------------------------------
\* CELLLog.hpp:31-40,117-127: the worker never writes to a file that is closed or
\* missing, although it tests _logFile once and the main thread sets it unlocked.
WritesOpenFile == line = "write" => logFile = "open"

\* CELLLog.hpp:33-38: when ~CELLLog closes the file, it holds every line logged before
\* ~CELLLog was called, in the order of the calls, the one of setLogPath first.
FileComplete ==
    [][logFile = "open" /\ logFile' = "closed"
          => /\ Len(text) >= before[Main]
             /\ text = SubSeq(added, 1, Len(text))]_allVars
==============================================================================
