----------------------------- MODULE TaskList -----------------------------
(***************************************************************************)
(* The Windows installer wubi runs an installation as a tree of tasks in a *)
(* background thread (ThreadedTaskList) while its window thread shows a    *)
(* progress page.  The two share the status of the root task, its error,   *)
(* the _stopped_event and the _keep_running flag of the message loop.      *)
(*                                                                         *)
(* The progress callback runs in the thread that reports.  It sets texts   *)
(* of windows the window thread owns, so in the background thread it waits *)
(* until the window thread pumps messages (user32, external).              *)
(***************************************************************************)
EXTENDS Integers, Sequences, FiniteSets

CONSTANTS
  Root,      \* the ThreadedTaskList
  Steps,     \* the sequence of its tasks
  Nested,    \* the sequence of subtasks a task's function may add and call
  Optional,  \* the tasks with is_required = False
  Reports    \* bound: calls of set_progress by one function

Elements(s) == {s[i] : i \in DOMAIN s}

Task == {Root} \cup Elements(Steps) \cup UNION {Elements(Nested[t]) : t \in DOMAIN Nested}

ASSUME TaskTree ==
  /\ DOMAIN Nested = Task
  /\ Nested[Root] = <<>>
  /\ Root \notin Elements(Steps) \cup UNION {Elements(Nested[t]) : t \in Task}
  /\ Optional \subseteq Task \ {Root}
  /\ Reports \in Nat

\* The backend makes each task of the list once; a function makes the subtasks it adds,
\* and their functions' subtasks add none.
ASSUME OwnTasks ==
  /\ Steps \in Seq(Task) /\ \A t \in Task : Nested[t] \in Seq(Task)
  /\ \A i, j \in DOMAIN Steps : Steps[i] = Steps[j] => i = j
  /\ \A t \in Task : Elements(Steps) \cap Elements(Nested[t]) = {}
  /\ \A t \in Elements(Steps) : \A s \in Elements(Nested[t]) :
       \A u \in Elements(Nested[s]) : Nested[u] = <<>>

VARIABLES
  status,    \* Task.status
  result,    \* what became of the associated function
  reports,   \* calls of set_progress so far
  subtasks,  \* Task.subtasks
  error,     \* the root's error is set
  stopped,   \* ThreadedTaskList._stopped_event
  stack,     \* the background thread: tasks being called, innermost last
  note,      \* how far the background thread's callback has come
  gui,       \* what the window thread is doing
  page,      \* the page it shows
  keep,      \* Frontend._keep_running
  queue,     \* messages posted to the window and not yet retrieved
  force_exit

taskVars == <<status, result, reports, subtasks, error>>
guiVars  == <<gui, page, force_exit>>
loopVars == <<keep, queue>>
vars == <<status, result, reports, subtasks, error, stopped, stack, note, gui,
          page, keep, queue, force_exit>>

Parents(t) == {p \in Task : t \in Elements(subtasks[p])}

\* The ancestors of t, itself included, in a tree four levels deep.
Up(S)   == S \cup UNION {Parents(t) : t \in S}
Line(t) == Up(Up(Up({t})))

is_cancelled(t) == stopped \/ \E a \in Line(t) : status[a] = "CANCELLED"
\* Mutant: only the task itself is looked at.
is_active_itself(t) == status[t] = "ACTIVE"

is_active(t)    == \A a \in Line(t) : status[a] = "ACTIVE"

Init ==
  /\ status = [t \in Task |-> "INACTIVE"]
  /\ result = [t \in Task |-> "none"]
  /\ reports = [t \in Task |-> 0]
  /\ subtasks = [t \in Task |-> IF t = Root THEN Steps ELSE <<>>]
  /\ error = FALSE /\ stopped = FALSE
  /\ stack = <<>> /\ note = "idle"
  /\ gui = "run_tasks" /\ page = "settings"
  /\ keep = FALSE /\ queue = 0
  /\ force_exit = FALSE

-----------------------------------------------------------------------------
(* The background thread.                                                  *)

Runs(at) == /\ stack # <<>> /\ note = "idle" /\ gui # "exit"
            /\ stack[Len(stack)].at = at
Current  == stack[Len(stack)].task

Frame(t, at) == [task |-> t, at |-> at, next |-> 1]
Goto(at)     == stack' = [stack EXCEPT ![Len(stack)].at = at]
Return       == stack' = SubSeq(stack, 1, Len(stack) - 1)
Call(t)      == stack' = Append(stack, Frame(t, "call"))

Notify == note' = "send"

isAlive == stack # <<>> \/ note # "idle"

\* __call__ returns at once unless the task is new and its parents are active.
CallTask ==
  /\ Runs("call")
  /\ IF status[Current] = "INACTIVE" /\ \A p \in Parents(Current) : is_active(p)
     THEN Goto("enter") ELSE Return
  /\ UNCHANGED <<taskVars, guiVars, loopVars, stopped, note>>

EnterTask ==
  /\ Runs("enter")
  /\ status' = [status EXCEPT ![Current] = "ACTIVE"]
  /\ Notify /\ Goto("function")
  /\ UNCHANGED <<result, reports, subtasks, error, stopped, guiVars, loopVars>>

\* The root's own function does nothing.
FunctionReturns ==
  /\ Runs("function")
  /\ result' = [result EXCEPT ![Current] = IF @ = "told" THEN @ ELSE "ok"]
  /\ Goto("subtasks")
  /\ UNCHANGED <<status, reports, subtasks, error, stopped, note, guiVars, loopVars>>

\* Mutant: a failure cancels the list without leaving its error.
FailWithoutError ==
  /\ Runs("function") /\ Current # Root
  /\ status' = [status EXCEPT ![Current] = "FAILED"]
  /\ result' = [result EXCEPT ![Current] = "failed"]
  /\ IF Current \in Optional
     THEN Notify /\ Goto("subtasks")
     ELSE Goto("cancel") /\ UNCHANGED note
  /\ UNCHANGED <<reports, subtasks, error, stopped, guiVars, loopVars>>

\* Mutant: a task that is not required is tried until it works.
RetryOptional ==
  /\ Runs("function") /\ Current # Root
  /\ status' = [status EXCEPT ![Current] = "FAILED"]
  /\ result' = [result EXCEPT ![Current] = "failed"]
  /\ IF Current \in Optional
     THEN Notify /\ Goto("enter") /\ UNCHANGED error
     ELSE error' = TRUE /\ Goto("cancel") /\ UNCHANGED note
  /\ UNCHANGED <<reports, subtasks, stopped, guiVars, loopVars>>

\* The exception of a task that is not required is only reported.
FunctionRaises ==
  /\ Runs("function") /\ Current # Root
  /\ status' = [status EXCEPT ![Current] = "FAILED"]
  /\ result' = [result EXCEPT ![Current] = "failed"]
  /\ IF Current \in Optional
     THEN Notify /\ Goto("subtasks") /\ UNCHANGED error
     ELSE error' = TRUE /\ Goto("cancel") /\ UNCHANGED note
  /\ UNCHANGED <<reports, subtasks, stopped, guiVars, loopVars>>

\* root.cancel(): the event, then the status, then the listeners.
StopRoot ==
  /\ Runs("cancel")
  /\ stopped' = TRUE /\ Goto("cancelled")
  /\ UNCHANGED <<taskVars, note, guiVars, loopVars>>

CancelRoot ==
  /\ Runs("cancelled")
  /\ status' = [status EXCEPT ![Root] = "CANCELLED"]
  /\ Notify /\ Return
  /\ UNCHANGED <<result, reports, subtasks, error, stopped, guiVars, loopVars>>

\* A function that adds a subtask calls it next.
AddSubtask ==
  /\ Runs("function")
  /\ LET n == Len(subtasks[Current]) + 1 IN
     /\ Current # Root /\ n <= Len(Nested[Current])
     /\ subtasks' = [subtasks EXCEPT ![Current] = Append(@, Nested[Current][n])]
     /\ Call(Nested[Current][n])
  /\ Notify
  /\ UNCHANGED <<status, result, reports, error, stopped, guiVars, loopVars>>

\* set_progress, called by functions that copy, hash or download.  A function
\* that is told to terminate reports no more.
SetProgress ==
  /\ Runs("function")
  /\ Current # Root /\ Nested[Current] = <<>>
  /\ reports[Current] < Reports /\ result[Current] # "told"
  /\ reports' = [reports EXCEPT ![Current] = @ + 1]
  /\ IF is_cancelled(Current)
     THEN /\ result' = [result EXCEPT ![Current] = "told"]
          /\ UNCHANGED <<status, note>>
     ELSE /\ UNCHANGED result
          /\ \/ Notify /\ UNCHANGED status
             \/ IF status[Current] = "COMPLETED"
                THEN UNCHANGED <<status, note>>
                ELSE Notify /\ status' = [status EXCEPT ![Current] = "COMPLETED"]
  /\ UNCHANGED <<subtasks, error, stopped, stack, guiVars, loopVars>>

\* _run_subtasks, then finish, which sets COMPLETED whatever the status was.
RunSubtask ==
  /\ Runs("subtasks")
  /\ LET n == stack[Len(stack)].next IN
     /\ n <= Len(subtasks[Current])
     /\ stack' = Append([stack EXCEPT ![Len(stack)].next = n + 1],
                        Frame(subtasks[Current][n], "call"))
  /\ UNCHANGED <<taskVars, stopped, note, guiVars, loopVars>>

FinishTask ==
  /\ Runs("subtasks")
  /\ stack[Len(stack)].next > Len(subtasks[Current])
  /\ Return
  /\ IF status[Current] = "COMPLETED"
     THEN UNCHANGED <<status, note>>
     ELSE Notify /\ status' = [status EXCEPT ![Current] = "COMPLETED"]
  /\ UNCHANGED <<result, reports, subtasks, error, stopped, guiVars, loopVars>>

-----------------------------------------------------------------------------
(* ProgressPage.on_progress in the background thread.                      *)

Pumping == gui \in {"waiting", "confirm", "error message"}

SendTexts ==
  /\ note = "send" /\ Pumping
  /\ note' = "sent"
  /\ UNCHANGED <<taskVars, stopped, stack, guiVars, loopVars>>

\* Mutant: the page also closes when the last task has completed.
StopWhenAllCompleted ==
  /\ note = "sent" /\ gui # "exit"
  /\ IF \/ status[Root] # "ACTIVE"
        \/ Len(stack) = 1 /\ \A t \in Elements(Steps) : status[t] = "COMPLETED"
     THEN keep' = FALSE /\ note' = "post"
     ELSE UNCHANGED keep /\ note' = "idle"
  /\ UNCHANGED <<taskVars, stopped, stack, guiVars, queue>>

\* Frontend.stop(): the flag is cleared, then a message wakes the loop.
StopLoop ==
  /\ note = "sent" /\ gui # "exit"
  /\ IF status[Root] # "ACTIVE"
     THEN keep' = FALSE /\ note' = "post"
     ELSE UNCHANGED keep /\ note' = "idle"
  /\ UNCHANGED <<taskVars, stopped, stack, guiVars, queue>>

\* Mutant: nothing unblocks GetMessage.
StopWithoutWakeup ==
  /\ note = "post" /\ gui # "exit"
  /\ note' = "idle"
  /\ UNCHANGED <<taskVars, stopped, stack, guiVars, loopVars>>

PostWakeup ==
  /\ note = "post" /\ gui # "exit"
  /\ queue' = queue + 1 /\ note' = "idle"
  /\ UNCHANGED <<taskVars, stopped, stack, guiVars, keep>>

-----------------------------------------------------------------------------
(* The window thread: WindowsFrontend.run_tasks, the message loop of       *)
(* Frontend.run, the user, and what the application does next.             *)

workerVars == <<status, result, reports, subtasks, error, stopped, stack, note>>
Moves(from, to) == gui = from /\ gui' = to

StartTasks ==
  /\ Moves("run_tasks", "run") /\ page' = "progress"
  /\ stack' = <<Frame(Root, "call")>>
  /\ UNCHANGED <<taskVars, stopped, note, loopVars, force_exit>>

RunLoop ==
  /\ Moves("run", "loop") /\ keep' = TRUE
  /\ UNCHANGED <<workerVars, page, queue, force_exit>>

CheckLoop ==
  /\ Moves("loop", IF keep THEN "waiting" ELSE "left")
  /\ UNCHANGED <<workerVars, page, loopVars, force_exit>>

GetMessage ==
  /\ Moves("waiting", "loop") /\ queue > 0
  /\ queue' = queue - 1
  /\ UNCHANGED <<workerVars, page, keep, force_exit>>

\* The user presses Cancel, and is asked whether he is sure.  The message box
\* has a loop of its own, which retrieves whatever is posted meanwhile.
PressCancel ==
  /\ Moves("waiting", "confirm") /\ page = "progress"
  /\ UNCHANGED <<workerVars, page, loopVars, force_exit>>

BoxGetsMessage ==
  /\ gui \in {"confirm", "error message"} /\ queue > 0
  /\ queue' = queue - 1
  /\ UNCHANGED <<workerVars, guiVars, keep>>

Answer ==
  /\ Moves("confirm", "loop") \/ Moves("confirm", "on_quit")
  /\ UNCHANGED <<workerVars, page, loopVars, force_exit>>

CloseWindow ==
  /\ Moves("waiting", "on_quit")
  /\ UNCHANGED <<workerVars, page, loopVars, force_exit>>

\* on_quit cancels a list that still runs and waits three seconds for it.
StopTasks ==
  /\ Moves("on_quit", IF isAlive THEN "cancel" ELSE "quit")
  /\ stopped' = (stopped \/ isAlive)
  /\ UNCHANGED <<taskVars, stack, note, page, loopVars, force_exit>>

CancelTasks ==
  /\ Moves("cancel", "join")
  /\ status' = [status EXCEPT ![Root] = "CANCELLED"]
  /\ keep' = FALSE /\ queue' = queue + 1
  /\ UNCHANGED <<result, reports, subtasks, error, stopped, stack, note, page, force_exit>>

\* Mutant: join without a time limit.
JoinForEver ==
  /\ Moves("join", "quit") /\ ~isAlive
  /\ force_exit' = FALSE
  /\ UNCHANGED <<workerVars, page, loopVars>>

\* join(3) returns when the thread has ended and, in any case, in time.
JoinReturns ==
  /\ Moves("join", "quit")
  /\ force_exit' = isAlive
  /\ UNCHANGED <<workerVars, page, loopVars>>

Quit ==
  /\ Moves("quit", "exit")
  /\ UNCHANGED <<workerVars, page, loopVars, force_exit>>

\* run_tasks raises the error of the list, or else the application goes on.
RunTasksReturns ==
  /\ gui = "left" /\ page = "progress"
  /\ IF error THEN gui' = "error message" /\ UNCHANGED page
              ELSE gui' = "run" /\ page' = "finish"
  /\ UNCHANGED <<workerVars, loopVars, force_exit>>

\* The application ends after an error without waiting for the thread.
Acknowledge ==
  /\ Moves("error message", "exit")
  /\ UNCHANGED <<workerVars, page, loopVars, force_exit>>

PressFinish ==
  /\ Moves("waiting", "loop") /\ page = "finish"
  /\ keep' = FALSE /\ queue' = queue + 1
  /\ UNCHANGED <<workerVars, page, force_exit>>

LeaveFinishPage ==
  /\ Moves("left", "on_quit") /\ page = "finish"
  /\ UNCHANGED <<workerVars, page, loopVars, force_exit>>

-----------------------------------------------------------------------------

Worker ==
  \/ CallTask \/ EnterTask \/ FunctionReturns \/ FunctionRaises
  \/ StopRoot \/ CancelRoot \/ AddSubtask \/ SetProgress
  \/ RunSubtask \/ FinishTask \/ StopLoop \/ PostWakeup

Window ==
  \/ StartTasks \/ RunLoop \/ CheckLoop \/ GetMessage \/ BoxGetsMessage
  \/ Answer \/ StopTasks \/ CancelTasks \/ JoinReturns \/ Quit
  \/ RunTasksReturns \/ Acknowledge \/ LeaveFinishPage

User == PressCancel \/ CloseWindow \/ PressFinish

Next == Worker \/ SendTexts \/ Window \/ User

Spec == Init /\ [][Next]_vars

\* Functions end, the window thread runs and the user answers a message box;
\* nobody has to press a button.  A text that waits is delivered whenever the
\* loop comes back for a message, so it needs strong fairness.
LiveSpec == Spec /\ WF_vars(Worker) /\ WF_vars(Window) /\ SF_vars(SendTexts)
-----------------------------------------------------------------------------
(* Properties.                                                             *)

\* WindowsFrontend.run_tasks comes back without an error, and the finish page
\* is shown, only when every task of the list has completed and no required
\* function, of a task or of a subtask, failed or was told to terminate.
FinishPageIsEarned ==
  page = "finish" =>
    /\ ~error
    /\ \A t \in Elements(Steps) : /\ status[t] = "COMPLETED"
                                  /\ t \in Optional \/ result[t] = "ok"
    /\ \A t \in Task \ Optional : result[t] \notin {"failed", "told"}

\* When the background thread has ended under the progress page, the loop is
\* not left waiting for a message that nobody will post (Frontend.stop).
StopIsNotLost ==
  gui = "waiting" /\ page = "progress" /\ ~isAlive => ~keep /\ queue > 0

\* Once a required function has raised, or on_quit has cancelled the list, no
\* task's __call__ gets past its first test: not the tasks after it, not the
\* subtasks a function still running adds, not a second mirror of download_iso.
NothingStartsAfterCancel ==
  [][error \/ gui \in {"join", "quit"} =>
       \A i \in DOMAIN stack :
         stack[i].at = "call" => ~(i \in DOMAIN stack' /\ stack'[i].at = "enter")]_vars

\* A callback of the background thread never closes the page that follows the
\* progress page.
StopsOnlyProgressPage ==
  [][page = "finish" /\ keep /\ ~keep' => note' = note]_vars

\* The progress page is always left: the list ends, fails or is cancelled.
RunTasksEnds == gui = "run" /\ page = "progress" ~> gui \in {"left", "exit"}

\* Quitting ends the program, also when the background thread waits for the
\* window thread that is waiting for it in join.
QuitEnds == gui = "on_quit" ~> gui = "exit"

=============================================================================
