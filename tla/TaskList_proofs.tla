-------------------------- MODULE TaskList_proofs --------------------------
(***************************************************************************)
(* TaskList for every list of tasks, every nesting of their subtasks and   *)
(* every number of progress reports: the finish page is earned, the loop   *)
(* is not left waiting, nothing starts after a cancellation, and the       *)
(* background thread closes no page but its own.                           *)
(*                                                                         *)
(* The argument follows the first frame of the background thread's stack,  *)
(* the root's: how far it has come says which tasks have completed, and    *)
(* its return is the last thing that thread reports.                       *)
(***************************************************************************)
EXTENDS TaskList, SequenceTheorems, TLAPS

Places == {"call", "enter", "function", "cancel", "cancelled", "subtasks"}
Frames == [task : Task, at : Places, next : Nat \ {0}]

TypeOK ==
  /\ status \in [Task -> {"INACTIVE", "ACTIVE", "COMPLETED", "FAILED", "CANCELLED"}]
  /\ result \in [Task -> {"none", "ok", "failed", "told"}]
  /\ reports \in [Task -> Nat]
  /\ subtasks \in [Task -> Seq(Task)]
  /\ error \in BOOLEAN /\ stopped \in BOOLEAN
  /\ stack \in Seq(Frames)
  /\ note \in {"idle", "send", "sent", "post"}
  /\ gui \in {"run_tasks", "run", "loop", "waiting", "left", "confirm", "on_quit",
              "cancel", "join", "quit", "exit", "error message"}
  /\ page \in {"settings", "progress", "finish"}
  /\ keep \in BOOLEAN /\ queue \in Nat /\ force_exit \in BOOLEAN

Quitting    == gui \in {"join", "quit", "exit"}
Undisturbed == ~error /\ ~Quitting /\ gui # "cancel"

Third  == UNION {Elements(Nested[t]) : t \in Elements(Steps)}
Fourth == UNION {Elements(Nested[t]) : t \in Third}

\* Who calls whom: each frame's task is a subtask of the frame below it.
TreeInv ==
  /\ subtasks[Root] = Steps
  /\ \A t \in Task \ {Root} : Elements(subtasks[t]) \subseteq Elements(Nested[t])
  /\ Len(stack) <= 4
  /\ Len(stack) >= 1 => stack[1].task = Root
  /\ Len(stack) >= 2 => /\ stack[1].at = "subtasks"
                        /\ stack[1].next - 1 \in DOMAIN Steps
                        /\ stack[2].task = Steps[stack[1].next - 1]
  /\ Len(stack) >= 3 => stack[3].task \in Third
  /\ Len(stack) >= 4 => stack[4].task \in Fourth
  /\ \A i \in 2 .. Len(stack) : stack[i].task \in Elements(subtasks[stack[i - 1].task])

\* What may be cancelled, stopped, failed or told, and since when.
CancelInv ==
  /\ \A t \in Task : status[t] = "CANCELLED" => t = Root /\ (error \/ Quitting)
  /\ stopped => error \/ Quitting \/ gui = "cancel"
  /\ \A t \in Task : result[t] = "failed" => t \in Optional \/ error
  /\ \A t \in Task : result[t] = "told" =>
       error \/ (page = "progress" /\ (Quitting \/ gui = "cancel"))
  /\ \A i \in 1 .. Len(stack) : stack[i].at \in {"cancel", "cancelled"} => error
  /\ error => \/ status[Root] \in {"CANCELLED", "COMPLETED"}
              \/ stack # <<>> /\ stack[Len(stack)].at \in {"cancel", "cancelled"}
  /\ gui \in {"join", "quit"} => status[Root] \in {"CANCELLED", "COMPLETED"} \/ note = "send"

\* The status of the root and the frame of its call.
RootInv ==
  /\ status[Root] # "FAILED"
  /\ status[Root] = "INACTIVE" => note = "idle"
  /\ status[Root] = "COMPLETED" => stack = <<>>
  /\ stack = <<>> /\ page # "settings" => status[Root] \in {"COMPLETED", "CANCELLED"}
  /\ stack # <<>> =>
       /\ stack[1].at \in {"call", "enter", "function", "subtasks"}
       /\ stack[1].at = "call" => status[Root] \in {"INACTIVE", "CANCELLED"}
       /\ stack[1].at \in {"function", "subtasks"} => status[Root] # "INACTIVE"
       /\ error => stack[1].at = "subtasks"

Done(t) == status[t] = "COMPLETED" /\ (t \in Optional \/ result[t] = "ok")

\* The task of the list that is being called, in the second frame.
InHand(f, t) ==
  /\ f.at \in {"call", "enter"} => status[t] = "INACTIVE"
  /\ f.at = "subtasks" => t \in Optional \/ result[t] = "ok"

\* While nothing has failed and nobody has cancelled, the tasks before the one in hand have
\* completed and those after it are new.
ListInv ==
  Undisturbed =>
    /\ page = "settings" => \A k \in DOMAIN Steps : status[Steps[k]] = "INACTIVE"
    /\ stack = <<>> /\ page = "progress" => \A k \in DOMAIN Steps : Done(Steps[k])
    /\ stack # <<>> =>
         /\ stack[1].at \in {"call", "enter"} => status[Root] = "INACTIVE"
         /\ stack[1].at \in {"function", "subtasks"} => status[Root] = "ACTIVE"
         /\ stack[1].at # "subtasks" => stack[1].next = 1
         /\ \A k \in DOMAIN Steps :
              /\ k >= stack[1].next => status[Steps[k]] = "INACTIVE"
              /\ k < stack[1].next - 1 => Done(Steps[k])
              /\ k = stack[1].next - 1 => IF Len(stack) = 1 THEN Done(Steps[k])
                                          ELSE InHand(stack[2], Steps[k])

\* What the window thread may conclude from _keep_running and the messages posted.
LoopInv ==
  /\ gui = "run_tasks" <=> page = "settings"
  /\ page = "settings" => /\ stack = <<>> /\ note = "idle" /\ ~error
                          /\ status[Root] = "INACTIVE"
  /\ page = "progress" /\ gui = "run" =>
       /\ Len(stack) = 1 /\ stack[1].at \in {"call", "enter", "function"}
       /\ note = IF stack[1].at = "function" THEN "send" ELSE "idle"
  /\ gui = "left" => ~keep
  /\ page = "progress" /\ gui \in {"loop", "waiting", "confirm", "left"} =>
       /\ ~error /\ ~keep => status[Root] = "COMPLETED" /\ note \in {"idle", "post"}
       /\ keep /\ stack = <<>> => note \in {"send", "sent"}
  /\ gui = "waiting" /\ page = "progress" /\ ~keep => queue > 0 \/ note = "post"
  /\ page = "finish" => stack = <<>> /\ note \in {"idle", "post"} /\ status[Root] # "INACTIVE"

IInv == /\ TypeOK /\ TreeInv /\ CancelInv /\ RootInv /\ ListInv /\ LoopInv
        /\ FinishPageIsEarned

-----------------------------------------------------------------------------
(* The stack.                                                              *)

\* A call begins with a new frame.
LEMMA CalledFrame ==
  ASSUME NEW t \in Task
  PROVE  Frame(t, "call") \in Frames
  BY DEF Frame, Frames, Places

\* A stack that is not empty has an innermost frame.
LEMMA SomeFrame ==
  ASSUME TypeOK, stack # <<>>
  PROVE  /\ stack \in Seq(Frames) /\ Len(stack) \in Nat \ {0}
         /\ Len(stack) \in 1 .. Len(stack) /\ 1 \in 1 .. Len(stack)
<1>1. stack \in Seq(Frames)
  BY DEF TypeOK
<1>2. Len(stack) \in Nat \ {0}
  BY <1>1, LenProperties
<1>3. \A n \in Nat \ {0} : n \in 1 .. n /\ 1 \in 1 .. n
  OBVIOUS
<1> QED BY <1>1, <1>2, <1>3

\* The innermost frame moves on; the others stay.
LEMMA GotoStack ==
  ASSUME stack \in Seq(Frames), stack # <<>>, NEW at \in Places, Goto(at)
  PROVE  /\ stack' \in Seq(Frames) /\ Len(stack') = Len(stack)
         /\ \A i \in 1 .. Len(stack) :
              /\ stack'[i].task = stack[i].task /\ stack'[i].next = stack[i].next
              /\ i < Len(stack) => stack'[i] = stack[i]
         /\ stack'[Len(stack)].at = at
<1> DEFINE n == Len(stack)
           f == [stack[n] EXCEPT !.at = at]
<1>1. n \in Nat \ {0} /\ \A i \in 1 .. n : stack[i] \in Frames
  BY LenProperties, ElementOfSeq
<1>1a. stack[n] \in Frames
  BY <1>1
<1>2. f \in Frames /\ f.task = stack[n].task /\ f.next = stack[n].next /\ f.at = at
  BY <1>1a DEF Frames
<1>3. stack' = [stack EXCEPT ![n] = f]
  BY DEF Goto
<1>4. stack' \in Seq(Frames) /\ Len(stack') = n /\ \A i \in 1 .. n :
        stack'[i] = IF i = n THEN f ELSE stack[i]
  <2> HIDE DEF f
  <2> QED BY <1>1, <1>2, <1>3, ExceptSeq
<1> HIDE DEF f
<1> QED BY <1>1, <1>2, <1>4

\* The innermost frame goes; the others stay.
LEMMA ReturnStack ==
  ASSUME stack \in Seq(Frames), stack # <<>>, Return
  PROVE  /\ stack' \in Seq(Frames) /\ Len(stack') = Len(stack) - 1
         /\ \A i \in 1 .. Len(stack) - 1 : stack'[i] = stack[i]
<1>1. Len(stack) \in Nat \ {0} /\ \A i \in 1 .. Len(stack) : stack[i] \in Frames
  BY LenProperties, ElementOfSeq
<1>2. stack' = SubSeq(stack, 1, Len(stack) - 1)
  BY DEF Return
<1>3. /\ SubSeq(stack, 1, Len(stack) - 1) \in Seq(Frames)
      /\ Len(SubSeq(stack, 1, Len(stack) - 1)) = Len(stack) - 1
      /\ \A i \in 1 .. Len(stack) - 1 : SubSeq(stack, 1, Len(stack) - 1)[i] = stack[i]
  <2> DEFINE m == Len(stack) - 1
  <2>1. m \in Nat /\ 1 \in Int /\ \A i \in 1 .. m : stack[i] \in Frames
    BY <1>1
  <2>2. /\ SubSeq(stack, 1, m) \in Seq(Frames)
        /\ Len(SubSeq(stack, 1, m)) = IF 1 <= m THEN m - 1 + 1 ELSE 0
        /\ \A i \in 1 .. m - 1 + 1 : SubSeq(stack, 1, m)[i] = stack[1 + i - 1]
    <3> HIDE DEF m
    <3> QED BY <2>1, SubSeqProperties
  <2> HIDE DEF m
  <2>3. m - 1 + 1 = m /\ \A i \in 1 .. m : 1 + i - 1 = i
    BY <2>1
  <2>4. Len(SubSeq(stack, 1, m)) = m
    BY <2>1, <2>2
  <2> QED BY <2>2, <2>3, <2>4 DEF m
<1> QED BY <1>2, <1>3

\* A frame is added; the others stay.
LEMMA CallStack ==
  ASSUME stack \in Seq(Frames), NEW t \in Task, Call(t)
  PROVE  /\ stack' \in Seq(Frames) /\ Len(stack') = Len(stack) + 1
         /\ \A i \in 1 .. Len(stack) : stack'[i] = stack[i]
         /\ stack'[Len(stack) + 1] = Frame(t, "call")
<1>1. Frame(t, "call") \in Frames
  BY CalledFrame
<1> QED BY <1>1, AppendProperties DEF Call

\* A frame calls its next subtask.
LEMMA RunSubtaskStack ==
  ASSUME stack \in Seq(Frames), stack # <<>>, NEW t \in Task,
         stack' = Append([stack EXCEPT ![Len(stack)].next = stack[Len(stack)].next + 1],
                         Frame(t, "call"))
  PROVE  /\ stack' \in Seq(Frames) /\ Len(stack') = Len(stack) + 1
         /\ \A i \in 1 .. Len(stack) :
              /\ stack'[i].task = stack[i].task /\ stack'[i].at = stack[i].at
              /\ i < Len(stack) => stack'[i] = stack[i]
         /\ stack'[Len(stack)].next = stack[Len(stack)].next + 1
         /\ stack'[Len(stack) + 1] = Frame(t, "call")
<1> DEFINE n == Len(stack)
           f == [stack[n] EXCEPT !.next = stack[n].next + 1]
           S == [stack EXCEPT ![n] = f]
<1>1. n \in Nat \ {0} /\ \A i \in 1 .. n : stack[i] \in Frames
  BY LenProperties, ElementOfSeq
<1>1a. stack[n] \in Frames
  BY <1>1
<1>2. /\ f \in Frames /\ f.task = stack[n].task /\ f.at = stack[n].at
      /\ f.next = stack[n].next + 1
  BY <1>1a DEF Frames
<1>3. S \in Seq(Frames) /\ Len(S) = n /\ \A i \in 1 .. n :
        S[i] = IF i = n THEN f ELSE stack[i]
  <2> HIDE DEF f
  <2> QED BY <1>1, <1>2, ExceptSeq
<1>4. Frame(t, "call") \in Frames
  BY CalledFrame
<1>5. stack' = Append(S, Frame(t, "call"))
  OBVIOUS
<1> HIDE DEF f, S
<1>6. /\ stack' \in Seq(Frames) /\ Len(stack') = n + 1
      /\ \A i \in 1 .. n : stack'[i] = S[i]
      /\ stack'[n + 1] = Frame(t, "call")
  BY <1>3, <1>4, <1>5, AppendProperties
<1> QED BY <1>1, <1>2, <1>3, <1>6

-----------------------------------------------------------------------------
(* The tree of tasks.                                                      *)

\* The levels of the tree are apart.
LEMMA Levels ==
  /\ Root \in Task /\ Root \notin Elements(Steps) /\ Root \notin Third /\ Root \notin Fourth
  /\ Elements(Steps) \subseteq Task /\ Third \subseteq Task /\ Fourth \subseteq Task
  /\ Elements(Steps) \cap Third = {} /\ Elements(Steps) \cap Fourth = {}
  /\ \A t \in Fourth : Nested[t] = <<>>
  /\ \A t \in Task : Elements(Nested[t]) \subseteq Task /\ Root \notin Elements(Nested[t])
<1>1. Root \in Task /\ Elements(Steps) \subseteq Task /\ Root \notin Elements(Steps)
  BY TaskTree DEF Task
<1>2. \A t \in Task : Elements(Nested[t]) \subseteq Task /\ Root \notin Elements(Nested[t])
  BY TaskTree DEF Task
<1>3. Third \subseteq Task /\ Root \notin Third /\ Elements(Steps) \cap Third = {}
  BY <1>1, <1>2, OwnTasks DEF Third
<1>4. Fourth \subseteq Task /\ Root \notin Fourth /\ Elements(Steps) \cap Fourth = {}
  BY <1>2, <1>3, OwnTasks DEF Fourth
<1>5. \A t \in Fourth : Nested[t] = <<>>
  BY OwnTasks DEF Third, Fourth
<1> QED BY <1>1, <1>2, <1>3, <1>4, <1>5

\* The task of the innermost frame.
LEMMA CurrentTask ==
  ASSUME TypeOK, TreeInv, stack # <<>>
  PROVE  /\ Len(stack) \in 1 .. 4 /\ stack[Len(stack)] \in Frames
         /\ Current \in Task /\ Current = stack[Len(stack)].task
         /\ Current = Root <=> Len(stack) = 1
         /\ Len(stack) = 2 => Current = Steps[stack[1].next - 1] /\ Current \in Elements(Steps)
         /\ Len(stack) = 3 => Current \in Third
         /\ Len(stack) = 4 => Current \in Fourth
<1>0. stack \in Seq(Frames)
  BY DEF TypeOK
<1>0a. Len(stack) \in Nat \ {0}
  BY <1>0, LenProperties
<1>0b. Len(stack) <= 4
  BY DEF TreeInv
<1>1. Len(stack) \in 1 .. 4 /\ Len(stack) \in 1 .. Len(stack)
  <2>1. \A n \in Nat \ {0} : n <= 4 => n \in 1 .. 4 /\ n \in 1 .. n
    OBVIOUS
  <2> QED BY <1>0a, <1>0b, <2>1
<1>2. stack[Len(stack)] \in Frames
  BY <1>0, <1>1, ElementOfSeq
<1>3. Current = stack[Len(stack)].task /\ Current \in Task
  BY <1>2 DEF Current, Frames
<1>4. Len(stack) = 2 => Current = Steps[stack[1].next - 1] /\ Current \in Elements(Steps)
  BY <1>3 DEF TreeInv, Elements
<1>5. /\ Len(stack) = 1 => Current = Root
      /\ Len(stack) = 3 => Current \in Third
      /\ Len(stack) = 4 => Current \in Fourth
  <2>1. /\ Len(stack) >= 1 => stack[1].task = Root
        /\ Len(stack) >= 3 => stack[3].task \in Third
        /\ Len(stack) >= 4 => stack[4].task \in Fourth
    BY DEF TreeInv
  <2> QED BY <1>1, <1>3, <2>1, SMTT(60)
<1> QED BY <1>1, <1>2, <1>3, <1>4, <1>5, Levels

\* The subtask that AddSubtask adds and calls.
LEMMA AddedTask ==
  ASSUME TypeOK, TreeInv, AddSubtask
  PROVE  \E t \in Elements(Nested[Current]) :
           /\ t \in Task /\ t # Root /\ Call(t)
           /\ subtasks' = [subtasks EXCEPT ![Current] = Append(subtasks[Current], t)]
           /\ stack # <<>> /\ Current # Root
<1> DEFINE n == Len(subtasks[Current]) + 1
<1>1. /\ stack # <<>> /\ Current # Root /\ n <= Len(Nested[Current])
      /\ Call(Nested[Current][n])
      /\ subtasks' = [subtasks EXCEPT ![Current] = Append(subtasks[Current], Nested[Current][n])]
  BY DEF AddSubtask, Runs
<1>2. Current \in Task /\ subtasks[Current] \in Seq(Task)
  BY <1>1, CurrentTask DEF TypeOK
<1>3. n \in 1 .. Len(Nested[Current]) /\ Nested[Current] \in Seq(Task)
  BY <1>1, <1>2, OwnTasks, LenProperties
<1>4. Nested[Current][n] \in Elements(Nested[Current])
  BY <1>3, LenProperties DEF Elements
<1> QED BY <1>1, <1>2, <1>4, Levels

\* The subtask that RunSubtask calls.
LEMMA CalledTask ==
  ASSUME TypeOK, TreeInv, RunSubtask
  PROVE  LET n == stack[Len(stack)].next IN
         /\ stack # <<>> /\ n \in DOMAIN subtasks[Current] /\ n \in Nat \ {0}
         /\ subtasks[Current][n] \in Task \cap Elements(subtasks[Current])
         /\ stack' = Append([stack EXCEPT ![Len(stack)].next = stack[Len(stack)].next + 1],
                            Frame(subtasks[Current][n], "call"))
<1> DEFINE n == stack[Len(stack)].next
<1>1. /\ stack # <<>> /\ n <= Len(subtasks[Current])
      /\ stack' = Append([stack EXCEPT ![Len(stack)].next = stack[Len(stack)].next + 1],
                         Frame(subtasks[Current][n], "call"))
  BY DEF RunSubtask, Runs
<1>2. n \in Nat \ {0} /\ subtasks[Current] \in Seq(Task)
  BY <1>1, CurrentTask DEF TypeOK, Frames
<1>3. n \in 1 .. Len(subtasks[Current]) /\ n \in DOMAIN subtasks[Current]
  BY <1>1, <1>2, LenProperties
<1>4. subtasks[Current][n] \in Task /\ subtasks[Current][n] \in Elements(subtasks[Current])
  BY <1>2, <1>3, ElementOfSeq DEF Elements
<1> QED BY <1>1, <1>2, <1>3, <1>4

-----------------------------------------------------------------------------
(* Types.                                                                  *)

\* The background thread keeps the types.
LEMMA WorkerTypes ==
  ASSUME TypeOK, TreeInv, Worker
  PROVE  TypeOK'
<1>1. stack # <<>> => Current \in Task
  BY CurrentTask
<1>2. CASE CallTask
  <2>1. stack # <<>> /\ (Goto("enter") \/ Return)
    BY <1>2 DEF CallTask, Runs
  <2>2. stack' \in Seq(Frames)
    BY <2>1, GotoStack, ReturnStack DEF TypeOK, Places
  <2> QED BY <1>2, <2>2, ZenonT(30) DEF CallTask, TypeOK, taskVars, guiVars, loopVars
<1>3. CASE EnterTask
  <2>1. stack' \in Seq(Frames)
    BY <1>3, GotoStack DEF EnterTask, Runs, TypeOK, Places
  <2>2. status' \in [Task -> {"INACTIVE", "ACTIVE", "COMPLETED", "FAILED", "CANCELLED"}]
    BY <1>3 DEF EnterTask, TypeOK
  <2> QED BY <1>3, <2>1, <2>2 DEF EnterTask, Notify, TypeOK, guiVars, loopVars
<1>4. CASE FunctionReturns
  <2>1. stack' \in Seq(Frames)
    BY <1>4, GotoStack DEF FunctionReturns, Runs, TypeOK, Places
  <2>2. result' \in [Task -> {"none", "ok", "failed", "told"}]
    BY <1>4 DEF FunctionReturns, TypeOK
  <2> QED BY <1>4, <2>1, <2>2, ZenonT(30) DEF FunctionReturns, TypeOK, guiVars, loopVars
<1>5. CASE FunctionRaises
  <2>1. stack # <<>> /\ (Goto("subtasks") \/ Goto("cancel"))
    BY <1>5 DEF FunctionRaises, Runs
  <2>2. stack' \in Seq(Frames)
    BY <2>1, GotoStack DEF TypeOK, Places
  <2>3. /\ status' \in [Task -> {"INACTIVE", "ACTIVE", "COMPLETED", "FAILED", "CANCELLED"}]
        /\ result' \in [Task -> {"none", "ok", "failed", "told"}]
    BY <1>5 DEF FunctionRaises, TypeOK
  <2>4. error' \in BOOLEAN /\ note' \in {"idle", "send", "sent", "post"}
    BY <1>5 DEF FunctionRaises, TypeOK, Notify
  <2> QED BY <1>5, <2>2, <2>3, <2>4 DEF FunctionRaises, TypeOK, guiVars, loopVars
<1>6. CASE StopRoot
  <2>1. stack' \in Seq(Frames)
    BY <1>6, GotoStack DEF StopRoot, Runs, TypeOK, Places
  <2> QED BY <1>6, <2>1 DEF StopRoot, TypeOK, taskVars, guiVars, loopVars
<1>7. CASE CancelRoot
  <2>1. stack' \in Seq(Frames)
    BY <1>7, ReturnStack DEF CancelRoot, Runs, TypeOK
  <2>2. status' \in [Task -> {"INACTIVE", "ACTIVE", "COMPLETED", "FAILED", "CANCELLED"}]
    BY <1>7 DEF CancelRoot, TypeOK
  <2> QED BY <1>7, <2>1, <2>2 DEF CancelRoot, Notify, TypeOK, guiVars, loopVars
<1>8. CASE AddSubtask
  <2>1. PICK t \in Task :
          /\ Call(t) /\ stack # <<>>
          /\ subtasks' = [subtasks EXCEPT ![Current] = Append(subtasks[Current], t)]
    BY <1>8, AddedTask
  <2>2. stack' \in Seq(Frames)
    BY <2>1, CallStack DEF TypeOK
  <2>3. Append(subtasks[Current], t) \in Seq(Task)
    BY <1>1, <2>1, AppendProperties DEF TypeOK
  <2>4. subtasks' \in [Task -> Seq(Task)]
    BY <1>1, <2>1, <2>3 DEF TypeOK
  <2> QED BY <1>8, <2>2, <2>4 DEF AddSubtask, Notify, TypeOK, guiVars, loopVars
<1>9. CASE SetProgress
  <2>0. reports' = [reports EXCEPT ![Current] = reports[Current] + 1] /\ stack # <<>>
    BY <1>9 DEF SetProgress, Runs
  <2>0a. reports' \in [Task -> Nat]
    <3>1. reports \in [Task -> Nat] /\ Current \in Task
      BY <1>1, <2>0 DEF TypeOK
    <3> QED BY <2>0, <3>1
  <2>1. /\ status' \in [Task -> {"INACTIVE", "ACTIVE", "COMPLETED", "FAILED", "CANCELLED"}]
        /\ result' \in [Task -> {"none", "ok", "failed", "told"}]
        /\ note' \in {"idle", "send", "sent", "post"}
    BY <1>9 DEF SetProgress, Notify, TypeOK
  <2> QED BY <1>9, <2>0a, <2>1 DEF SetProgress, TypeOK, guiVars, loopVars
<1>10. CASE RunSubtask
  <2>1. stack' \in Seq(Frames)
    BY <1>10, CalledTask, RunSubtaskStack DEF TypeOK
  <2> QED BY <1>10, <2>1, ZenonT(30) DEF RunSubtask, TypeOK, taskVars, guiVars, loopVars
<1>11. CASE FinishTask
  <2>1. stack' \in Seq(Frames)
    BY <1>11, ReturnStack DEF FinishTask, Runs, TypeOK
  <2>2. /\ status' \in [Task -> {"INACTIVE", "ACTIVE", "COMPLETED", "FAILED", "CANCELLED"}]
        /\ note' \in {"idle", "send", "sent", "post"}
    BY <1>11 DEF FinishTask, Notify, TypeOK
  <2> QED BY <1>11, <2>1, <2>2 DEF FinishTask, TypeOK, guiVars, loopVars
<1>12. CASE StopLoop
  BY <1>12 DEF StopLoop, TypeOK, taskVars, guiVars
<1>13. CASE PostWakeup
  <2>1. queue \in Nat /\ queue' = queue + 1
    BY <1>13 DEF PostWakeup, TypeOK
  <2>2. queue' \in Nat
    BY <2>1
  <2> QED BY <1>13, <2>2 DEF PostWakeup, TypeOK, taskVars, guiVars
<1> QED BY <1>2, <1>3, <1>4, <1>5, <1>6, <1>7, <1>8, <1>9, <1>10, <1>11, <1>12, <1>13 DEF Worker

\* So do the window thread and the user.
LEMMA WindowTypes ==
  ASSUME TypeOK, SendTexts \/ Window \/ User
  PROVE  TypeOK'
<1> USE DEF taskVars, guiVars, loopVars, workerVars, Moves
<1>1. CASE StartTasks
  <2>1. Frame(Root, "call") \in Frames
    BY CalledFrame, Levels
  <2>2. stack' \in Seq(Frames)
    BY <1>1, <2>1 DEF TypeOK, StartTasks
  <2> QED BY <1>1, <2>2 DEF TypeOK, StartTasks
<1>2. CASE CancelTasks
  <2>1. queue' \in Nat
    BY <1>2 DEF TypeOK, CancelTasks
  <2> QED BY <1>2, <2>1 DEF TypeOK, CancelTasks
<1>3. CASE SendTexts
  BY <1>3 DEF TypeOK, SendTexts
<1>4. CASE RunLoop \/ CheckLoop
  BY <1>4 DEF TypeOK, RunLoop, CheckLoop
<1>5. CASE GetMessage \/ BoxGetsMessage
  <2>1. queue \in Nat /\ queue > 0 /\ queue' = queue - 1
    BY <1>5 DEF TypeOK, GetMessage, BoxGetsMessage
  <2>2. queue' \in Nat
    BY <2>1
  <2> QED BY <1>5, <2>2 DEF TypeOK, GetMessage, BoxGetsMessage
<1>6. CASE Answer \/ StopTasks
  BY <1>6 DEF TypeOK, Answer, StopTasks, isAlive
<1>7. CASE JoinReturns \/ Quit
  BY <1>7 DEF TypeOK, JoinReturns, Quit, isAlive
<1>8. CASE RunTasksReturns \/ Acknowledge \/ LeaveFinishPage
  BY <1>8 DEF TypeOK, RunTasksReturns, Acknowledge, LeaveFinishPage
<1>9. CASE User
  <2>1. queue \in Nat /\ queue' \in {queue, queue + 1}
    BY <1>9 DEF TypeOK, User, PressCancel, CloseWindow, PressFinish
  <2>2. queue' \in Nat
    BY <2>1
  <2> QED BY <1>9, <2>2 DEF TypeOK, User, PressCancel, CloseWindow, PressFinish
<1> QED BY <1>1, <1>2, <1>3, <1>4, <1>5, <1>6, <1>7, <1>8, <1>9 DEF Window

-----------------------------------------------------------------------------
(* Who calls whom.                                                         *)

\* A call goes one level down the tree.
LEMMA OneLevelDown ==
  ASSUME TypeOK, TreeInv, stack # <<>>, Current # Root, NEW t \in Elements(Nested[Current])
  PROVE  /\ Len(stack) \in {2, 3}
         /\ Len(stack) = 2 => t \in Third
         /\ Len(stack) = 3 => t \in Fourth
<1>1. Len(stack) \in {2, 3, 4} /\ Current \in Task
  <2>1. Len(stack) \in 1 .. 4 /\ Len(stack) # 1 /\ Current \in Task
    BY CurrentTask
  <2> QED BY <2>1
<1>2. Len(stack) # 4
  <2>1. Elements(<<>>) = {}
    BY DEF Elements
  <2> QED BY <2>1, CurrentTask, Levels
<1>3. Len(stack) = 2 => t \in Third
  BY CurrentTask DEF Third
<1>4. Len(stack) = 3 => t \in Fourth
  BY CurrentTask DEF Fourth
<1> QED BY <1>1, <1>2, <1>3, <1>4

\* Neither moving on nor returning changes who has called whom.
LEMMA ShorterTree ==
  ASSUME TypeOK, TreeInv, stack # <<>>, UNCHANGED subtasks, Return \/ \E at \in Places : Goto(at)
  PROVE  TreeInv'
<1> DEFINE n == Len(stack)
<1>1. n \in 1 .. 4 /\ stack \in Seq(Frames)
  BY CurrentTask DEF TypeOK
<1>2. PICK m \in {n - 1, n} :
        /\ Len(stack') = m
        /\ \A i \in 1 .. m : stack'[i].task = stack[i].task /\ stack'[i].next = stack[i].next
        /\ \A i \in 1 .. m : i < m => stack'[i] = stack[i]
  <2>1. CASE Return
    <3>1. Len(stack') = n - 1 /\ \A i \in 1 .. n - 1 : stack'[i] = stack[i]
      BY <1>1, <2>1, ReturnStack
    <3> QED BY <3>1
  <2>2. CASE \E at \in Places : Goto(at)
    <3>1. /\ Len(stack') = n
          /\ \A i \in 1 .. n : /\ stack'[i].task = stack[i].task
                               /\ stack'[i].next = stack[i].next
                               /\ i < n => stack'[i] = stack[i]
      BY <1>1, <2>2, GotoStack
    <3> QED BY <3>1
  <2> QED BY <2>1, <2>2
<1>3. /\ n <= 4
      /\ n >= 1 => stack[1].task = Root
      /\ n >= 2 => /\ stack[1].at = "subtasks"
                   /\ stack[1].next - 1 \in DOMAIN Steps
                   /\ stack[2].task = Steps[stack[1].next - 1]
      /\ n >= 3 => stack[3].task \in Third
      /\ n >= 4 => stack[4].task \in Fourth
      /\ \A i \in 2 .. n : stack[i].task \in Elements(subtasks[stack[i - 1].task])
  BY DEF TreeInv
<1>4. /\ m <= 4
      /\ m >= 1 => stack'[1].task = Root
      /\ m >= 2 => /\ stack'[1].at = "subtasks"
                   /\ stack'[1].next - 1 \in DOMAIN Steps
                   /\ stack'[2].task = Steps[stack'[1].next - 1]
      /\ m >= 3 => stack'[3].task \in Third
      /\ m >= 4 => stack'[4].task \in Fourth
      /\ \A i \in 2 .. m : stack'[i].task \in Elements(subtasks[stack'[i - 1].task])
  BY <1>1, <1>2, <1>3
<1> HIDE DEF n
<1> QED BY <1>2, <1>4 DEF TreeInv

\* A frame for t is added; below it only the frame that calls t changes, where it goes on.
Adds(t) ==
  /\ Len(stack') = Len(stack) + 1
  /\ \A i \in 1 .. Len(stack) : /\ stack'[i].task = stack[i].task /\ stack'[i].at = stack[i].at
                                /\ i < Len(stack) => stack'[i] = stack[i]
  /\ stack'[Len(stack) + 1] = Frame(t, "call")

\* Subtasks are added, and only where they may be.
SubtasksGrow ==
  /\ subtasks'[Root] = Steps
  /\ \A s \in Task \ {Root} : Elements(subtasks'[s]) \subseteq Elements(Nested[s])
  /\ \A s \in Task : Elements(subtasks[s]) \subseteq Elements(subtasks'[s])

\* The root has called its next task.
RootCalls(t) == /\ stack'[1].at = "subtasks"
                /\ stack'[1].next - 1 \in DOMAIN Steps
                /\ t = Steps[stack'[1].next - 1]

\* A frame that is added is that of a subtask of the task that calls it.
LEMMA DeeperTree ==
  ASSUME TypeOK, TreeInv, stack # <<>>, NEW t \in Task,
         t \in Elements(subtasks'[Current]),
         Current # Root => t \in Elements(Nested[Current]),
         Current = Root => RootCalls(t),
         SubtasksGrow, Adds(t)
  PROVE  TreeInv'
<1> DEFINE n == Len(stack)
<1>1. n \in 1 .. 4 /\ (Current = Root <=> n = 1) /\ Current = stack[n].task
  BY CurrentTask
<1>2. /\ n # 4
      /\ n = 2 => t \in Third
      /\ n = 3 => t \in Fourth
  BY <1>1, OneLevelDown
<1>3. n \in {1, 2, 3} /\ stack \in Seq(Frames)
  <2>1. n \in 1 .. 4 /\ n # 4
    BY <1>1, <1>2
  <2> HIDE DEF n
  <2>2. n \in {1, 2, 3}
    BY <2>1
  <2> QED BY <2>2 DEF TypeOK
<1>4. /\ stack[1].task = Root
      /\ n >= 2 => /\ stack[1].at = "subtasks"
                   /\ stack[1].next - 1 \in DOMAIN Steps
                   /\ stack[2].task = Steps[stack[1].next - 1]
      /\ n >= 3 => stack[3].task \in Third
      /\ \A i \in 2 .. n : stack[i].task \in Elements(subtasks[stack[i - 1].task])
  BY <1>3 DEF TreeInv
<1>5. \A i \in 1 .. n : stack[i].task \in Task
  <2>1. \A i \in 1 .. n : stack[i] \in Frames
    BY <1>3, ElementOfSeq
  <2> QED BY <2>1 DEF Frames
<1>6. /\ Len(stack') = n + 1
      /\ \A i \in 1 .. n : /\ stack'[i].task = stack[i].task
                           /\ i < n => stack'[i] = stack[i]
      /\ stack'[n + 1].task = t
  BY DEF Adds, Frame
<1>7. \A s \in Task : Elements(subtasks[s]) \subseteq Elements(subtasks'[s])
  BY DEF SubtasksGrow
<1> HIDE DEF n
<1>8. \A i \in 2 .. n + 1 : stack'[i].task \in Elements(subtasks'[stack'[i - 1].task])
  <2> TAKE i \in 2 .. n + 1
  <2>1. CASE i = n + 1
    <3>1. i - 1 = n /\ n \in 1 .. n
      BY <1>3, <2>1
    <3>2. stack'[i].task = t /\ stack'[i - 1].task = Current
      BY <1>1, <1>6, <2>1, <3>1
    <3> QED BY <3>2
  <2>2. CASE i # n + 1
    <3>1. i \in 2 .. n /\ i \in 1 .. n /\ i - 1 \in 1 .. n
      BY <1>3, <2>2
    <3>2. stack'[i].task = stack[i].task /\ stack'[i - 1].task = stack[i - 1].task
      BY <1>6, <3>1
    <3> QED BY <1>4, <1>5, <1>7, <3>1, <3>2
  <2> QED BY <2>1, <2>2
<1>9. /\ stack'[1].task = Root
      /\ stack'[1].at = "subtasks"
      /\ stack'[1].next - 1 \in DOMAIN Steps
      /\ stack'[2].task = Steps[stack'[1].next - 1]
      /\ n >= 2 => stack'[3].task \in Third
      /\ n >= 3 => stack'[4].task \in Fourth
  <2>1. CASE n = 1
    <3>1. stack'[1].task = Root /\ stack'[2].task = t
      BY <1>4, <1>6, <2>1
    <3> QED BY <1>1, <2>1, <3>1 DEF RootCalls
  <2>2. CASE n = 2
    <3>1. /\ stack'[1] = stack[1] /\ stack'[2].task = stack[2].task
          /\ stack'[3].task = t
      BY <1>6, <2>2
    <3> QED BY <1>2, <1>4, <2>2, <3>1
  <2>3. CASE n = 3
    <3>1. /\ stack'[1] = stack[1] /\ stack'[2].task = stack[2].task
          /\ stack'[3].task = stack[3].task /\ stack'[4].task = t
      BY <1>6, <2>3
    <3> QED BY <1>2, <1>4, <2>3, <3>1
  <2> QED BY <1>3, <2>1, <2>2, <2>3
<1>10. /\ n + 1 <= 4
       /\ n + 1 >= 3 => n >= 2
       /\ n + 1 >= 4 => n >= 3
  BY <1>3
<1> QED BY <1>6, <1>8, <1>9, <1>10 DEF TreeInv, SubtasksGrow

\* The tree keeps its shape.
LEMMA TreeStep ==
  ASSUME TypeOK, TreeInv, gui = "run_tasks" => stack = <<>>, Next
  PROVE  TreeInv'
<1>1. CASE CallTask \/ EnterTask \/ FunctionReturns \/ FunctionRaises \/ StopRoot
           \/ CancelRoot \/ FinishTask
  <2>1. stack # <<>> /\ UNCHANGED subtasks
    BY <1>1 DEF CallTask, EnterTask, FunctionReturns, FunctionRaises, StopRoot, CancelRoot,
                FinishTask, Runs, taskVars
  <2>2. Return \/ \E at \in Places : Goto(at)
    BY <1>1 DEF CallTask, EnterTask, FunctionReturns, FunctionRaises, StopRoot, CancelRoot,
                FinishTask, Places
  <2> QED BY <2>1, <2>2, ShorterTree
<1>2. CASE AddSubtask
  <2>1. PICK t \in Elements(Nested[Current]) :
           /\ t \in Task /\ t # Root /\ Call(t)
           /\ subtasks' = [subtasks EXCEPT ![Current] = Append(subtasks[Current], t)]
           /\ stack # <<>> /\ Current # Root
    BY <1>2, AddedTask
  <2>2. Current \in Task
    BY <2>1, CurrentTask
  <2>3. Elements(Append(subtasks[Current], t)) = Elements(subtasks[Current]) \cup {t}
    <3>1. subtasks[Current] \in Seq(Task)
      BY <2>2 DEF TypeOK
    <3> DEFINE q == subtasks[Current]
    <3>2. /\ Len(q) \in Nat /\ DOMAIN q = 1 .. Len(q)
          /\ Append(q, t) \in Seq(Task) /\ Len(Append(q, t)) = Len(q) + 1
          /\ \A i \in 1 .. Len(q) : Append(q, t)[i] = q[i]
          /\ Append(q, t)[Len(q) + 1] = t
      BY <2>1, <3>1, AppendProperties, LenProperties
    <3>3. DOMAIN Append(q, t) = 1 .. Len(q) + 1
      BY <3>2, LenProperties
    <3> HIDE DEF q
    <3>4. DOMAIN Append(q, t) = DOMAIN q \cup {Len(q) + 1}
      BY <3>2, <3>3
    <3>5. \A i \in DOMAIN q : Append(q, t)[i] = q[i]
      BY <3>2
    <3>6. Elements(Append(q, t)) = Elements(q) \cup {t}
      BY <3>2, <3>4, <3>5 DEF Elements
    <3> QED BY <3>6 DEF q
  <2>4. \A s \in Task : subtasks'[s] =
          IF s = Current THEN Append(subtasks[Current], t) ELSE subtasks[s]
    BY <2>1, <2>2 DEF TypeOK
  <2>5. SubtasksGrow /\ t \in Elements(subtasks'[Current])
    BY <2>1, <2>2, <2>3, <2>4, Levels DEF TreeInv, SubtasksGrow
  <2>6. Adds(t)
    BY <2>1, CallStack DEF TypeOK, Adds
  <2> QED BY <2>1, <2>5, <2>6, DeeperTree
<1>3. CASE RunSubtask
  <2> DEFINE n == stack[Len(stack)].next
             t == subtasks[Current][n]
  <2>1. /\ stack # <<>> /\ n \in DOMAIN subtasks[Current] /\ n \in Nat \ {0}
        /\ t \in Task \cap Elements(subtasks[Current])
        /\ stack' = Append([stack EXCEPT ![Len(stack)].next = n + 1], Frame(t, "call"))
    BY <1>3, CalledTask
  <2>2. UNCHANGED subtasks /\ stack[Len(stack)].at = "subtasks" /\ Current \in Task
    BY <1>3, <2>1, CurrentTask DEF RunSubtask, Runs, taskVars
  <2>3. /\ Len(stack') = Len(stack) + 1
        /\ \A i \in 1 .. Len(stack) :
              /\ stack'[i].task = stack[i].task /\ stack'[i].at = stack[i].at
              /\ i < Len(stack) => stack'[i] = stack[i]
        /\ stack'[Len(stack)].next = n + 1
        /\ stack'[Len(stack) + 1] = Frame(t, "call")
    BY <2>1, RunSubtaskStack DEF TypeOK
  <2>3a. Adds(t)
    BY <2>3 DEF Adds
  <2>4. Current = Root => RootCalls(t)
    <3>1. SUFFICES ASSUME Current = Root PROVE RootCalls(t)
      OBVIOUS
    <3>2. Len(stack) = 1 /\ subtasks[Root] = Steps
      BY <2>1, <3>1, CurrentTask DEF TreeInv
    <3>3. stack'[1].next = n + 1 /\ stack'[1].at = "subtasks"
      BY <2>2, <2>3, <3>2
    <3>4. n + 1 - 1 = n
      BY <2>1
    <3> QED BY <2>1, <3>1, <3>2, <3>3, <3>4 DEF RootCalls
  <2>5. Current # Root => t \in Elements(Nested[Current])
    BY <2>1, <2>2 DEF TreeInv
  <2>6. SubtasksGrow /\ t \in Elements(subtasks'[Current])
    BY <2>1, <2>2 DEF TreeInv, SubtasksGrow
  <2> HIDE DEF n, t
  <2> QED BY <2>1, <2>3a, <2>4, <2>5, <2>6, DeeperTree
<1>4. CASE StartTasks
  <2>1. stack' = <<Frame(Root, "call")>> /\ UNCHANGED subtasks
    BY <1>4 DEF StartTasks, taskVars
  <2>2. Len(stack') = 1 /\ stack'[1] = Frame(Root, "call")
    BY <2>1
  <2> QED BY <2>1, <2>2 DEF TreeInv, Frame
<1>5. CASE UNCHANGED <<stack, subtasks>>
  BY <1>5 DEF TreeInv
<1>6. CASE SetProgress \/ StopLoop \/ PostWakeup \/ SendTexts
  BY <1>5, <1>6 DEF SetProgress, StopLoop, PostWakeup, SendTexts, taskVars
<1>7. CASE Window /\ ~StartTasks
  BY <1>5, <1>7 DEF Window, RunLoop, CheckLoop, GetMessage, BoxGetsMessage, Answer, StopTasks,
       CancelTasks, JoinReturns, Quit, RunTasksReturns, Acknowledge, LeaveFinishPage,
       workerVars, taskVars
<1>8. CASE User
  BY <1>5, <1>8 DEF User, PressCancel, CloseWindow, PressFinish, workerVars
<1> QED BY <1>1, <1>2, <1>3, <1>4, <1>6, <1>7, <1>8 DEF Next, Worker

-----------------------------------------------------------------------------
(* The frame of the root's call.                                           *)

\* The steps of the background thread outside its callback.
TaskStep ==
  \/ CallTask \/ EnterTask \/ FunctionReturns \/ FunctionRaises \/ StopRoot \/ CancelRoot
  \/ AddSubtask \/ SetProgress \/ RunSubtask \/ FinishTask

\* What such a step may do to the stack.
LEMMA TaskStepStack ==
  ASSUME TypeOK, TreeInv, TaskStep
  PROVE  /\ stack # <<>> /\ note = "idle" /\ gui # "exit"
         /\ \/ Return
            \/ \E at \in Places : Goto(at)
            \/ \E t \in Task : Adds(t)
            \/ UNCHANGED stack
<1>1. stack # <<>> /\ note = "idle" /\ gui # "exit"
  BY DEF TaskStep, CallTask, EnterTask, FunctionReturns, FunctionRaises, StopRoot, CancelRoot,
         AddSubtask, SetProgress, RunSubtask, FinishTask, Runs
<1>2. CASE AddSubtask
  <2>1. PICK t \in Task : Call(t)
    BY <1>2, AddedTask
  <2>2. Adds(t)
    BY <2>1, CallStack DEF TypeOK, Adds
  <2> QED BY <1>1, <2>2
<1>3. CASE RunSubtask
  <2>1. PICK t \in Task : stack' = Append([stack EXCEPT ![Len(stack)].next = stack[Len(stack)].next + 1],
                                          Frame(t, "call"))
    BY <1>3, CalledTask
  <2>2. Adds(t)
    BY <1>1, <2>1, RunSubtaskStack DEF TypeOK, Adds
  <2> QED BY <1>1, <2>2
<1>4. CASE ~AddSubtask /\ ~RunSubtask
  BY <1>1, <1>4 DEF TaskStep, CallTask, EnterTask, FunctionReturns, FunctionRaises, StopRoot,
       CancelRoot, SetProgress, FinishTask, Places
<1> QED BY <1>2, <1>3, <1>4

\* While another task runs, the root waits in its second frame's call.
LEMMA RootWaits ==
  ASSUME TypeOK, TreeInv, TaskStep, Current # Root
  PROVE  /\ stack # <<>> /\ Len(stack) \in 2 .. 4 /\ stack[1].at = "subtasks"
         /\ stack' # <<>> /\ stack'[1] = stack[1]
<1> DEFINE n == Len(stack)
<1>1. stack # <<>> /\ stack \in Seq(Frames)
  BY TaskStepStack DEF TypeOK
<1>2. n \in 1 .. 4 /\ n # 1
  BY <1>1, CurrentTask
<1>3. n \in 2 .. 4 /\ 1 \in 1 .. n /\ 1 \in 1 .. n - 1
  <2> HIDE DEF n
  <2> QED BY <1>2
<1>4. stack[1].at = "subtasks"
  BY <1>3 DEF TreeInv
<1>5. stack'[1] = stack[1] /\ Len(stack') # 0
  <2>1. CASE Return
    <3>1. /\ \A i \in 1 .. n - 1 : stack'[i] = stack[i]
          /\ Len(stack') = n - 1
      BY <1>1, <2>1, ReturnStack
    <3> HIDE DEF n
    <3> QED BY <1>3, <3>1
  <2>2. CASE \E at \in Places : Goto(at)
    <3>1. /\ \A i \in 1 .. n : i < n => stack'[i] = stack[i]
          /\ Len(stack') = n
      BY <1>1, <2>2, GotoStack
    <3> HIDE DEF n
    <3> QED BY <1>3, <3>1
  <2>3. CASE \E t \in Task : Adds(t)
    <3>1. /\ \A i \in 1 .. n : i < n => stack'[i] = stack[i]
          /\ Len(stack') = n + 1
      BY <2>3 DEF Adds
    <3> HIDE DEF n
    <3> QED BY <1>3, <3>1
  <2>4. CASE UNCHANGED stack
    BY <1>3, <2>4
  <2> QED BY <2>1, <2>2, <2>3, <2>4, TaskStepStack
<1>6. stack' # <<>>
  <2>1. Len(<<>>) = 0
    OBVIOUS
  <2> QED BY <1>5, <2>1
<1> QED BY <1>1, <1>3, <1>4, <1>5, <1>6

\* The root's own frame is alone on the stack when it moves.
LEMMA RootMoves ==
  ASSUME TypeOK, TreeInv, RootInv, TaskStep, Current = Root
  PROVE  /\ stack # <<>> /\ Len(stack) = 1 /\ stack[1].task = Root /\ stack[1].next \in Nat \ {0}
         /\ stack[Len(stack)] = stack[1]
         /\ CallTask \/ EnterTask \/ FunctionReturns \/ RunSubtask \/ FinishTask
         /\ Return => stack' = <<>>
         /\ \A at \in Places : Goto(at) =>
              /\ Len(stack') = 1 /\ stack' # <<>>
              /\ stack'[1].at = at /\ stack'[1].next = stack[1].next
<1>1. /\ stack # <<>> /\ Len(stack) = 1 /\ stack[1] \in Frames /\ stack \in Seq(Frames)
  BY TaskStepStack, CurrentTask DEF TypeOK
<1>2. stack[1].task = Root /\ stack[1].next \in Nat \ {0} /\ stack[Len(stack)] = stack[1]
  BY <1>1 DEF TreeInv, Frames
<1>3. stack[1].at \notin {"cancel", "cancelled"}
  BY <1>1 DEF RootInv
<1>4. CallTask \/ EnterTask \/ FunctionReturns \/ RunSubtask \/ FinishTask
  BY <1>2, <1>3 DEF TaskStep, FunctionRaises, StopRoot, CancelRoot, AddSubtask, SetProgress, Runs
<1>5. Return => stack' = <<>>
  <2>1. Return => Len(stack') = 0 /\ stack' \in Seq(Frames)
    BY <1>1, ReturnStack
  <2> QED BY <2>1, LenProperties
<1>6. ASSUME NEW at \in Places, Goto(at)
      PROVE  /\ Len(stack') = 1 /\ stack' # <<>>
             /\ stack'[1].at = at /\ stack'[1].next = stack[1].next
  <2>1. Len(stack') = 1 /\ stack'[1].at = at /\ stack'[1].next = stack[1].next
    BY <1>1, <1>6, GotoStack
  <2>2. stack' # <<>>
    <3>1. Len(<<>>) = 0
      OBVIOUS
    <3>2. Len(stack') = 1
      BY <2>1
    <3> QED BY <3>1, <3>2
  <2> QED BY <2>1, <2>2
<1> QED BY <1>1, <1>2, <1>4, <1>5, <1>6

\* Nothing is above the root, which is new when it is called and not yet cancelled.
LEMMA RootHasNoParent ==
  ASSUME TypeOK, TreeInv
  PROVE  Parents(Root) = {} /\ Line(Root) = {Root}
<1>1. Parents(Root) = {}
  <2>1. \A p \in Task : Root \notin Elements(subtasks[p])
    BY Levels DEF TreeInv
  <2> QED BY <2>1 DEF Parents
<1>2. Up({Root}) = {Root}
  BY <1>1 DEF Up
<1> QED BY <1>1, <1>2 DEF Line

\* RootInv is kept by the background thread.
LEMMA RootTaskStep ==
  ASSUME TypeOK, TreeInv, CancelInv, RootInv, TaskStep
  PROVE  RootInv'
<1>1. stack # <<>> /\ note = "idle" /\ Current \in Task
  BY TaskStepStack, CurrentTask
<1>2. CASE Current # Root
  <2>1. stack[1].at = "subtasks" /\ stack' # <<>> /\ stack'[1] = stack[1]
    BY <1>2, RootWaits
  <2>2. status'[Root] = status[Root] \/ status'[Root] = "CANCELLED"
    BY <1>1, <1>2, Levels DEF TaskStep, CallTask, EnterTask, FunctionReturns, FunctionRaises, StopRoot,
         CancelRoot, AddSubtask, SetProgress, RunSubtask, FinishTask, taskVars, TypeOK
  <2>3. status[Root] \notin {"INACTIVE", "COMPLETED", "FAILED"}
    BY <1>1, <2>1 DEF RootInv
  <2> QED BY <2>1, <2>2, <2>3 DEF RootInv
<1>3. CASE Current = Root
  <2>1. /\ Len(stack) = 1 /\ stack[Len(stack)] = stack[1]
        /\ CallTask \/ EnterTask \/ FunctionReturns \/ RunSubtask \/ FinishTask
        /\ Return => stack' = <<>>
        /\ \A at \in Places : Goto(at) =>
             /\ Len(stack') = 1 /\ stack' # <<>>
             /\ stack'[1].at = at /\ stack'[1].next = stack[1].next
    BY <1>3, RootMoves
  <2>2. CASE CallTask
    <3>1. stack[1].at = "call" /\ UNCHANGED <<status, error, note, page>>
      BY <2>1, <2>2 DEF CallTask, Runs, taskVars, guiVars
    <3>2. status[Root] \in {"INACTIVE", "CANCELLED"} /\ ~error
      BY <1>1, <3>1 DEF RootInv
    <3>3. CASE status[Root] = "INACTIVE"
      <4>1. stack' # <<>> /\ stack'[1].at = "enter"
        BY <1>3, <2>1, <2>2, <3>3, RootHasNoParent DEF CallTask, Places
      <4> QED BY <1>1, <3>1, <3>2, <3>3, <4>1 DEF RootInv
    <3>4. CASE status[Root] = "CANCELLED"
      <4>1. stack' = <<>>
        BY <1>3, <2>1, <2>2, <3>4 DEF CallTask
      <4> QED BY <1>1, <3>1, <3>2, <3>4, <4>1 DEF RootInv
    <3> QED BY <3>2, <3>3, <3>4
  <2>3. CASE EnterTask
    <3>1. stack[1].at = "enter" /\ UNCHANGED error /\ status'[Root] = "ACTIVE"
      BY <1>1, <1>3, <2>1, <2>3 DEF EnterTask, Runs, TypeOK
    <3>2. stack' # <<>> /\ stack'[1].at = "function"
      BY <2>1, <2>3 DEF EnterTask, Places
    <3> QED BY <1>1, <3>1, <3>2 DEF RootInv
  <2>4. CASE FunctionReturns
    <3>1. stack[1].at = "function" /\ UNCHANGED <<error, status, note>>
      BY <2>1, <2>4 DEF FunctionReturns, Runs
    <3>2. stack' # <<>> /\ stack'[1].at = "subtasks"
      BY <2>1, <2>4 DEF FunctionReturns, Places
    <3> QED BY <1>1, <3>1, <3>2 DEF RootInv
  <2>5. CASE RunSubtask
    <3>1. stack[1].at = "subtasks" /\ UNCHANGED <<error, status, note>>
      BY <2>1, <2>5 DEF RunSubtask, Runs, taskVars
    <3>2. stack' # <<>> /\ stack'[1].at = "subtasks"
      <4>1. PICK t \in Task :
              stack' = Append([stack EXCEPT ![Len(stack)].next = stack[Len(stack)].next + 1],
                              Frame(t, "call"))
        BY <2>5, CalledTask
      <4>2. /\ \A i \in 1 .. Len(stack) : stack'[i].at = stack[i].at
            /\ Len(stack') = Len(stack) + 1
        BY <1>1, <4>1, RunSubtaskStack DEF TypeOK
      <4>3. stack'[1].at = stack[1].at /\ Len(stack') = 2
        BY <2>1, <4>2
      <4>4. Len(<<>>) = 0
        OBVIOUS
      <4> QED BY <3>1, <4>3, <4>4
    <3> QED BY <1>1, <3>1, <3>2 DEF RootInv
  <2>6. CASE FinishTask
    <3>1. status'[Root] = "COMPLETED" /\ stack' = <<>>
      BY <1>1, <1>3, <2>1, <2>6 DEF FinishTask, TypeOK
    <3> QED BY <3>1 DEF RootInv
  <2> QED BY <2>1, <2>2, <2>3, <2>4, <2>5, <2>6
<1> QED BY <1>2, <1>3

\* What the window thread, the user and the callback leave alone.
LEMMA Elsewhere ==
  ASSUME SendTexts \/ StopLoop \/ PostWakeup \/ Window \/ User
  PROVE  /\ UNCHANGED <<result, reports, subtasks, error>>
         /\ StartTasks \/ UNCHANGED stack
         /\ CancelTasks \/ UNCHANGED status
         /\ StopTasks \/ UNCHANGED stopped
         /\ StartTasks \/ RunTasksReturns \/ UNCHANGED page
         /\ SendTexts \/ StopLoop \/ PostWakeup \/ UNCHANGED note
<1> USE DEF taskVars, guiVars, workerVars
<1>1. CASE SendTexts \/ StopLoop \/ PostWakeup
  BY <1>1 DEF SendTexts, StopLoop, PostWakeup
<1>2. CASE Window
  BY <1>2 DEF Window, StartTasks, RunLoop, CheckLoop, GetMessage, BoxGetsMessage, Answer, StopTasks,
       CancelTasks, JoinReturns, Quit, RunTasksReturns, Acknowledge, LeaveFinishPage
<1>3. CASE User
  BY <1>3 DEF User, PressCancel, CloseWindow, PressFinish
<1> QED BY <1>1, <1>2, <1>3

\* RootInv is kept by the callback, the window thread and the user.
LEMMA RootOtherStep ==
  ASSUME TypeOK, RootInv, LoopInv, SendTexts \/ StopLoop \/ PostWakeup \/ Window \/ User
  PROVE  RootInv'
<1>1. CASE StartTasks
  <2>1. /\ page = "settings" /\ stack' = <<Frame(Root, "call")>>
        /\ UNCHANGED <<status, error, note>>
    BY <1>1 DEF StartTasks, Moves, LoopInv, taskVars
  <2>2. status[Root] = "INACTIVE" /\ ~error /\ note = "idle"
    BY <2>1 DEF LoopInv
  <2>3. stack' # <<>> /\ stack'[1].at = "call"
    BY <2>1 DEF Frame
  <2> QED BY <2>1, <2>2, <2>3 DEF RootInv
<1>2. CASE CancelTasks
  <2>1. status'[Root] = "CANCELLED" /\ UNCHANGED <<stack, error>>
    BY <1>2, Levels DEF CancelTasks, TypeOK
  <2> QED BY <2>1 DEF RootInv
<1>3. CASE ~StartTasks /\ ~CancelTasks
  <2>1. UNCHANGED <<status, error, stack>>
    BY <1>3, Elsewhere
  <2>2. page' # "settings" => page # "settings"
    BY <1>3, Elsewhere DEF RunTasksReturns
  <2>3. note' = "idle" \/ note' = note \/ note # "idle"
    BY Elsewhere DEF SendTexts, StopLoop, PostWakeup
  <2> QED BY <2>1, <2>2, <2>3 DEF RootInv
<1> QED BY <1>1, <1>2, <1>3

-----------------------------------------------------------------------------
(* What may be cancelled, stopped, failed or told.                         *)

\* An error and the end of the program are never taken back.
LEMMA NothingIsTakenBack ==
  ASSUME TypeOK, Next
  PROVE  /\ error => error'
         /\ Quitting => Quitting' /\ page' = page
         /\ gui = "cancel" => (gui' = "cancel" \/ Quitting') /\ page' = page
<1>1. CASE TaskStep
  <2>1. UNCHANGED guiVars
    BY <1>1 DEF TaskStep, CallTask, EnterTask, FunctionReturns, FunctionRaises, StopRoot, CancelRoot,
         AddSubtask, SetProgress, RunSubtask, FinishTask
  <2>2. error => error'
    BY <1>1 DEF TaskStep, CallTask, EnterTask, FunctionReturns, FunctionRaises, StopRoot, CancelRoot,
         AddSubtask, SetProgress, RunSubtask, FinishTask, taskVars, TypeOK
  <2> QED BY <2>1, <2>2 DEF guiVars, Quitting
<1>2. CASE SendTexts \/ StopLoop \/ PostWakeup
  BY <1>2 DEF SendTexts, StopLoop, PostWakeup, guiVars, taskVars, Quitting
<1>3. CASE Window
  <2>1. error' = error
    BY <1>3, Elsewhere
  <2> QED BY <1>3, <2>1 DEF Window, StartTasks, RunLoop, CheckLoop, GetMessage, BoxGetsMessage, Answer,
       StopTasks, CancelTasks, JoinReturns, Quit, RunTasksReturns, Acknowledge, LeaveFinishPage,
       Moves, Quitting, guiVars
<1>4. CASE User
  <2>1. error' = error
    BY <1>4, Elsewhere
  <2> QED BY <1>4, <2>1 DEF User, PressCancel, CloseWindow, PressFinish, Moves, Quitting
<1> QED BY <1>1, <1>2, <1>3, <1>4 DEF Next, Worker, TaskStep

\* The task that runs is the only one whose status a step of its thread sets, but for the root.
LEMMA TaskStepStatus ==
  ASSUME TypeOK, TreeInv, TaskStep
  PROVE  \A t \in Task : \/ status'[t] = status[t]
                         \/ CancelRoot /\ t = Root /\ status'[t] = "CANCELLED"
                         \/ ~CancelRoot /\ t = Current /\ status'[t] \in {"ACTIVE", "COMPLETED", "FAILED"}
<1>1. Current \in Task /\ Root \in Task
  BY TaskStepStack, CurrentTask, Levels
<1> QED BY <1>1 DEF TaskStep, CallTask, EnterTask, FunctionReturns, FunctionRaises, StopRoot, CancelRoot,
         AddSubtask, SetProgress, RunSubtask, FinishTask, taskVars, TypeOK

\* Only an exception leads to a call of cancel.
LEMMA CancelFrames ==
  ASSUME TypeOK, TreeInv, CancelInv, TaskStep
  PROVE  \A i \in 1 .. Len(stack') : stack'[i].at \in {"cancel", "cancelled"} => error'
<1> DEFINE n == Len(stack)
<1>1. stack # <<>> /\ stack \in Seq(Frames) /\ n \in Nat \ {0}
  BY TaskStepStack, SomeFrame
<1>2. \A i \in 1 .. n : stack[i].at \in {"cancel", "cancelled"} => error
  BY DEF CancelInv
<1>3. error => error'
  BY DEF TaskStep, CallTask, EnterTask, FunctionReturns, FunctionRaises, StopRoot, CancelRoot,
         AddSubtask, SetProgress, RunSubtask, FinishTask, taskVars, TypeOK
<1>4. CASE Return
  <2>1. Len(stack') = n - 1 /\ \A i \in 1 .. n - 1 : stack'[i] = stack[i]
    BY <1>1, <1>4, ReturnStack
  <2> HIDE DEF n
  <2> QED BY <1>1, <1>2, <1>3, <2>1
<1>5. ASSUME NEW at \in Places, Goto(at), at \in {"cancel", "cancelled"} => error'
      PROVE  \A i \in 1 .. Len(stack') : stack'[i].at \in {"cancel", "cancelled"} => error'
  <2>1. /\ Len(stack') = n /\ stack'[n].at = at
        /\ \A i \in 1 .. n : i < n => stack'[i] = stack[i]
    BY <1>1, <1>5, GotoStack
  <2> HIDE DEF n
  <2> QED BY <1>1, <1>2, <1>3, <1>5, <2>1
<1>6. CASE \E t \in Task : Adds(t)
  <2>1. PICK t \in Task : Adds(t)
    BY <1>6
  <2>2. /\ Len(stack') = n + 1 /\ stack'[n + 1].at = "call"
        /\ \A i \in 1 .. n : stack'[i].at = stack[i].at
    BY <2>1 DEF Adds, Frame
  <2> HIDE DEF n
  <2> QED BY <1>1, <1>2, <1>3, <2>2
<1>7. CASE UNCHANGED stack
  BY <1>2, <1>3, <1>7
<1>8. CASE StopRoot
  <2>1. stack[n].at = "cancel" /\ n \in 1 .. n
    BY <1>1, <1>8 DEF StopRoot, Runs
  <2>2. error' /\ Goto("cancelled")
    BY <1>2, <1>3, <1>8, <2>1 DEF StopRoot
  <2> QED BY <1>5, <2>2 DEF Places
<1>9. CASE FunctionRaises
  <2>1. Goto("subtasks") \/ (Goto("cancel") /\ error')
    BY <1>9 DEF FunctionRaises
  <2> QED BY <1>5, <2>1 DEF Places
<1>10. CASE CallTask \/ EnterTask \/ FunctionReturns
  <2>1. Return \/ \E at \in Places \ {"cancel", "cancelled"} : Goto(at)
    BY <1>10 DEF CallTask, EnterTask, FunctionReturns, Places
  <2> QED BY <1>4, <1>5, <2>1
<1>11. CASE CancelRoot \/ FinishTask
  BY <1>4, <1>11 DEF CancelRoot, FinishTask
<1>12. CASE SetProgress
  BY <1>7, <1>12 DEF SetProgress
<1>13. CASE AddSubtask
  <2>1. \E t \in Task : Call(t)
    BY <1>13, AddedTask
  <2> QED BY <1>1, <1>6, <2>1, CallStack DEF Adds
<1>14. CASE RunSubtask
  <2>1. \E t \in Task : stack' = Append([stack EXCEPT ![Len(stack)].next = stack[Len(stack)].next + 1],
                                        Frame(t, "call"))
    BY <1>14, CalledTask
  <2> QED BY <1>1, <1>6, <2>1, RunSubtaskStack DEF Adds
<1> QED BY <1>8, <1>9, <1>10, <1>11, <1>12, <1>13, <1>14 DEF TaskStep

\* The task that runs belongs to a call, which is made under the progress page.
LEMMA RunsUnderProgressPage ==
  ASSUME TypeOK, LoopInv, stack # <<>>
  PROVE  page = "progress"
  BY DEF TypeOK, LoopInv

\* CancelInv is kept by the background thread.
LEMMA CancelTaskStep ==
  ASSUME TypeOK, TreeInv, CancelInv, RootInv, LoopInv, TaskStep
  PROVE  CancelInv'
<1>1. /\ stack # <<>> /\ note = "idle" /\ gui # "exit" /\ Current \in Task
      /\ Len(stack) \in 1 .. Len(stack) /\ page = "progress"
  BY TaskStepStack, CurrentTask, SomeFrame, RunsUnderProgressPage
<1>2. UNCHANGED <<gui, page>> /\ (error => error')
  BY DEF TaskStep, CallTask, EnterTask, FunctionReturns, FunctionRaises, StopRoot, CancelRoot,
         AddSubtask, SetProgress, RunSubtask, FinishTask, taskVars, guiVars, TypeOK
<1>3. StopRoot \/ CancelRoot => error
  BY <1>1 DEF StopRoot, CancelRoot, Runs, CancelInv
<1>4. \A t \in Task : status'[t] = "CANCELLED" => t = Root /\ (error' \/ Quitting')
  BY <1>2, <1>3, TaskStepStatus DEF CancelInv, Quitting
<1>5. stopped' => error' \/ Quitting' \/ gui' = "cancel"
  <2>1. stopped' = stopped \/ error
    BY <1>3 DEF TaskStep, CallTask, EnterTask, FunctionReturns, FunctionRaises, StopRoot, CancelRoot,
         AddSubtask, SetProgress, RunSubtask, FinishTask, taskVars
  <2> QED BY <1>2, <2>1 DEF CancelInv, Quitting
<1>6. \A t \in Task : result'[t] = "failed" => t \in Optional \/ error'
  <2>1. \A t \in Task : result'[t] = "failed" => result[t] = "failed" \/ t \in Optional \/ error'
    BY <1>1 DEF TaskStep, CallTask, EnterTask, FunctionReturns, FunctionRaises, StopRoot, CancelRoot,
         AddSubtask, SetProgress, RunSubtask, FinishTask, taskVars, TypeOK
  <2> QED BY <1>2, <2>1 DEF CancelInv
<1>7. \A t \in Task : result'[t] = "told" =>
        error' \/ (page' = "progress" /\ (Quitting' \/ gui' = "cancel"))
  <2>1. \A t \in Task : result'[t] = "told" => result[t] = "told" \/ is_cancelled(Current)
    BY <1>1 DEF TaskStep, CallTask, EnterTask, FunctionReturns, FunctionRaises, StopRoot, CancelRoot,
         AddSubtask, SetProgress, RunSubtask, FinishTask, taskVars, TypeOK
  <2>2. Line(Current) \subseteq Task
    BY <1>1 DEF Line, Up, Parents
  <2>3. is_cancelled(Current) => error \/ Quitting \/ gui = "cancel"
    BY <2>2 DEF is_cancelled, CancelInv
  <2> QED BY <1>1, <1>2, <2>1, <2>3 DEF CancelInv, Quitting
<1>8. error' => \/ status'[Root] \in {"CANCELLED", "COMPLETED"}
                \/ stack' # <<>> /\ stack'[Len(stack')].at \in {"cancel", "cancelled"}
  <2>1. CASE error /\ status[Root] \in {"CANCELLED", "COMPLETED"}
    <3>1. ~(EnterTask /\ Current = Root) /\ ~(FunctionRaises /\ Current = Root)
      BY <1>1, <2>1, RootMoves DEF RootInv, EnterTask, FunctionRaises, Runs
    <3>2. status'[Root] = "CANCELLED" \/ status'[Root] = "COMPLETED"
      BY <1>1, <2>1, <3>1, Levels DEF TaskStep, CallTask, EnterTask, FunctionReturns, FunctionRaises,
           StopRoot, CancelRoot, AddSubtask, SetProgress, RunSubtask, FinishTask, taskVars, TypeOK
    <3> QED BY <3>2
  <2>2. CASE stack[Len(stack)].at \in {"cancel", "cancelled"}
    <3>1. StopRoot \/ CancelRoot
      BY <2>2 DEF TaskStep, CallTask, EnterTask, FunctionReturns, FunctionRaises, AddSubtask,
           SetProgress, RunSubtask, FinishTask, Runs
    <3>2. CancelRoot => status'[Root] = "CANCELLED"
      BY Levels DEF CancelRoot, TypeOK
    <3>3. StopRoot => stack' # <<>> /\ stack'[Len(stack')].at = "cancelled"
      <4>1. StopRoot => Len(stack') = Len(stack) /\ stack'[Len(stack)].at = "cancelled"
        BY <1>1, GotoStack DEF StopRoot, TypeOK, Places
      <4> QED BY <1>1, <4>1
    <3> QED BY <3>1, <3>2, <3>3
  <2>3. CASE ~error
    <3>1. error' => FunctionRaises /\ Goto("cancel")
      BY <2>3 DEF TaskStep, CallTask, EnterTask, FunctionReturns, FunctionRaises, StopRoot, CancelRoot,
           AddSubtask, SetProgress, RunSubtask, FinishTask, taskVars
    <3>2. Goto("cancel") => stack' # <<>> /\ stack'[Len(stack')].at = "cancel"
      <4>1. Goto("cancel") => Len(stack') = Len(stack) /\ stack'[Len(stack)].at = "cancel"
        BY <1>1, GotoStack DEF TypeOK, Places
      <4> QED BY <1>1, <4>1
    <3> QED BY <3>1, <3>2
  <2> QED BY <2>1, <2>2, <2>3 DEF CancelInv
<1>9. gui' \in {"join", "quit"} => status'[Root] \in {"CANCELLED", "COMPLETED"} \/ note' = "send"
  <2>1. gui \in {"join", "quit"} => status[Root] \in {"CANCELLED", "COMPLETED"}
    BY <1>1 DEF CancelInv
  <2>2. \/ status'[Root] = status[Root] \/ status'[Root] \in {"CANCELLED", "COMPLETED"}
        \/ note' = "send"
    BY <1>1, Levels DEF TaskStep, CallTask, EnterTask, FunctionReturns, FunctionRaises,
           StopRoot, CancelRoot, AddSubtask, SetProgress, RunSubtask, FinishTask, taskVars, TypeOK, Notify
  <2> QED BY <1>2, <2>1, <2>2
<1> QED BY <1>4, <1>5, <1>6, <1>7, <1>8, <1>9, CancelFrames DEF CancelInv

\* CancelInv is kept by the callback, the window thread and the user.
LEMMA CancelOtherStep ==
  ASSUME TypeOK, CancelInv, RootInv, LoopInv, SendTexts \/ StopLoop \/ PostWakeup \/ Window \/ User
  PROVE  CancelInv'
<1>1. /\ error' = error /\ (Quitting => Quitting' /\ page' = page)
      /\ gui = "cancel" => (gui' = "cancel" \/ Quitting') /\ page' = page
  BY Elsewhere, NothingIsTakenBack DEF Next, Worker
<1>2. result' = result
  BY Elsewhere
<1>3. \A t \in Task : status'[t] = "CANCELLED" => t = Root /\ (error' \/ Quitting')
  <2>1. CASE CancelTasks
    <3>1. Quitting' /\ \A t \in Task \ {Root} : status'[t] = status[t]
      BY <2>1, Levels DEF CancelTasks, Moves, Quitting, TypeOK
    <3> QED BY <3>1 DEF CancelInv
  <2>2. CASE UNCHANGED status
    BY <1>1, <2>2 DEF CancelInv
  <2> QED BY <2>1, <2>2, Elsewhere
<1>4. stopped' => error' \/ Quitting' \/ gui' = "cancel"
  <2>1. stopped' => stopped \/ gui' = "cancel"
    BY Elsewhere DEF StopTasks, Moves
  <2> QED BY <1>1, <2>1 DEF CancelInv
<1>5. \A t \in Task : /\ result'[t] = "failed" => t \in Optional \/ error'
                      /\ result'[t] = "told" =>
                           error' \/ (page' = "progress" /\ (Quitting' \/ gui' = "cancel"))
  BY <1>1, <1>2 DEF CancelInv
<1>6. /\ \A i \in 1 .. Len(stack') : stack'[i].at \in {"cancel", "cancelled"} => error'
      /\ error' => \/ status'[Root] \in {"CANCELLED", "COMPLETED"}
                   \/ stack' # <<>> /\ stack'[Len(stack')].at \in {"cancel", "cancelled"}
  <2>1. CASE StartTasks
    <3>1. ~error' /\ stack' = <<Frame(Root, "call")>>
      BY <1>1, <2>1 DEF StartTasks, Moves, LoopInv
    <3>2. \A i \in 1 .. Len(stack') : stack'[i].at = "call"
      BY <3>1 DEF Frame
    <3> QED BY <3>1, <3>2
  <2>2. CASE UNCHANGED stack
    <3>1. status'[Root] = status[Root] \/ status'[Root] = "CANCELLED"
      BY Elsewhere, Levels DEF CancelTasks, TypeOK
    <3> QED BY <1>1, <2>2, <3>1 DEF CancelInv
  <2> QED BY <2>1, <2>2, Elsewhere
<1>7. gui' \in {"join", "quit"} => status'[Root] \in {"CANCELLED", "COMPLETED"} \/ note' = "send"
  <2>1. CASE CancelTasks
    BY <2>1, Levels DEF CancelTasks, TypeOK
  <2>2. CASE StopTasks
    <3>1. gui' \in {"join", "quit"} => stack = <<>> /\ page # "settings"
      BY <2>2 DEF StopTasks, Moves, isAlive, LoopInv
    <3>2. status' = status
      BY <2>2 DEF StopTasks, taskVars
    <3> QED BY <3>1, <3>2 DEF RootInv
  <2>3. CASE SendTexts
    BY <2>3 DEF SendTexts, Pumping, guiVars
  <2>4. CASE StopLoop \/ PostWakeup
    BY <2>4 DEF StopLoop, PostWakeup, CancelInv, guiVars, taskVars
  <2>5. CASE (Window /\ ~CancelTasks /\ ~StopTasks) \/ User
    <3>1. UNCHANGED <<status, note>>
      BY <2>5 DEF Window, StartTasks, RunLoop, CheckLoop, GetMessage, BoxGetsMessage, Answer, JoinReturns,
           Quit, RunTasksReturns, Acknowledge, LeaveFinishPage, User, PressCancel, CloseWindow,
           PressFinish, taskVars, workerVars
    <3>2. gui' \in {"join", "quit"} => gui = "join"
      BY <2>5 DEF Window, StartTasks, RunLoop, CheckLoop, GetMessage, BoxGetsMessage, Answer, JoinReturns,
           Quit, RunTasksReturns, Acknowledge, LeaveFinishPage, User, PressCancel, CloseWindow,
           PressFinish, Moves, guiVars
    <3> QED BY <3>1, <3>2 DEF CancelInv
  <2> QED BY <2>1, <2>2, <2>3, <2>4, <2>5
<1> QED BY <1>3, <1>4, <1>5, <1>6, <1>7 DEF CancelInv

-----------------------------------------------------------------------------
(* How far the list has come.                                              *)

\* The parent of a task of the list is the root.
LEMMA ParentOfStep ==
  ASSUME TypeOK, TreeInv, NEW t \in Elements(Steps)
  PROVE  Parents(t) = {Root}
<1>1. \A p \in Task \ {Root} : t \notin Elements(subtasks[p])
  BY OwnTasks DEF TreeInv
<1>2. t \in Elements(subtasks[Root])
  BY DEF TreeInv
<1> QED BY <1>1, <1>2, Levels DEF Parents

\* While nothing disturbs the list, the statuses of its tasks follow the root's frame.
ListFollows(k) ==
  /\ k >= stack[1].next => status[Steps[k]] = "INACTIVE"
  /\ k < stack[1].next - 1 => Done(Steps[k])
  /\ k = stack[1].next - 1 => IF Len(stack) = 1 THEN Done(Steps[k])
                              ELSE InHand(stack[2], Steps[k])

\* The steps of the root's own call.
LEMMA ListRootStep ==
  ASSUME TypeOK, TreeInv, CancelInv, RootInv, LoopInv, ListInv, TaskStep, Current = Root,
         Undisturbed, Undisturbed'
  PROVE  ListInv'
<1>1. /\ stack # <<>> /\ Len(stack) = 1 /\ stack[1].task = Root /\ stack[1].next \in Nat \ {0}
      /\ stack[Len(stack)] = stack[1]
      /\ CallTask \/ EnterTask \/ FunctionReturns \/ RunSubtask \/ FinishTask
      /\ Return => stack' = <<>>
      /\ \A at \in Places : Goto(at) =>
           /\ Len(stack') = 1 /\ stack' # <<>>
           /\ stack'[1].at = at /\ stack'[1].next = stack[1].next
  BY RootMoves
<1>2. /\ page' = "progress" /\ page = "progress"
  <2>1. page = "progress"
    BY <1>1, RunsUnderProgressPage
  <2>2. page' = page
    BY DEF TaskStep, CallTask, EnterTask, FunctionReturns, FunctionRaises, StopRoot, CancelRoot,
         AddSubtask, SetProgress, RunSubtask, FinishTask, guiVars
  <2> QED BY <2>1, <2>2
<1>3. \A k \in DOMAIN Steps : ListFollows(k)
  BY <1>1 DEF ListInv, ListFollows
<1>4. \A k \in DOMAIN Steps : Steps[k] \in Task /\ Steps[k] # Root
  BY Levels DEF Elements
<1>5. CASE CallTask \/ EnterTask \/ FunctionReturns
  <2>1. PICK at \in {"enter", "function", "subtasks"} : Goto(at)
    <3>1. CASE CallTask
      <4>1. stack[1].at = "call"
        BY <1>1, <3>1 DEF CallTask, Runs
      <4>2. status[Root] = "INACTIVE"
        BY <1>1, <4>1 DEF ListInv
      <4> QED BY <3>1, <4>2, RootHasNoParent DEF CallTask
    <3>2. CASE EnterTask \/ FunctionReturns
      BY <3>2 DEF EnterTask, FunctionReturns
    <3> QED BY <1>5, <3>1, <3>2
  <2>2. /\ Len(stack') = 1 /\ stack' # <<>>
        /\ stack'[1].at = at /\ stack'[1].next = stack[1].next
    BY <1>1, <2>1 DEF Places
  <2>3. \A k \in DOMAIN Steps : /\ status'[Steps[k]] = status[Steps[k]]
                                /\ result'[Steps[k]] = result[Steps[k]]
    BY <1>4, <1>5, Levels DEF CallTask, EnterTask, FunctionReturns, TypeOK, taskVars
  <2>4. \A k \in DOMAIN Steps : ListFollows(k)'
    BY <1>1, <1>3, <2>2, <2>3 DEF ListFollows, Done
  <2>5. /\ stack'[1].at = "enter" => status'[Root] = "INACTIVE"
        /\ stack'[1].at \in {"function", "subtasks"} => status'[Root] = "ACTIVE"
        /\ stack'[1].at # "subtasks" => stack'[1].next = 1
    <3>1. CASE CallTask
      <4>1. stack[1].at = "call" /\ UNCHANGED status
        BY <1>1, <3>1 DEF CallTask, Runs, taskVars
      <4>2. status[Root] = "INACTIVE" /\ stack[1].next = 1
        BY <1>1, <4>1 DEF ListInv
      <4>3. stack'[1].at = "enter"
        BY <1>1, <3>1, <4>2, RootHasNoParent DEF CallTask, Places
      <4> QED BY <2>2, <4>1, <4>2, <4>3
    <3>2. CASE EnterTask
      <4>1. stack[1].at = "enter" /\ status'[Root] = "ACTIVE"
        BY <1>1, <3>2, Levels DEF EnterTask, Runs, TypeOK
      <4>2. stack[1].next = 1
        BY <1>1, <4>1 DEF ListInv
      <4>3. stack'[1].at = "function"
        BY <1>1, <3>2 DEF EnterTask, Places
      <4> QED BY <2>2, <4>1, <4>2, <4>3
    <3>3. CASE FunctionReturns
      <4>1. stack[1].at = "function" /\ UNCHANGED status
        BY <1>1, <3>3 DEF FunctionReturns, Runs
      <4>2. status[Root] = "ACTIVE"
        BY <1>1, <4>1 DEF ListInv
      <4>3. stack'[1].at = "subtasks"
        BY <1>1, <3>3 DEF FunctionReturns, Places
      <4> QED BY <4>1, <4>2, <4>3
    <3> QED BY <1>5, <3>1, <3>2, <3>3
  <2>6. stack'[1].at # "call"
    BY <2>2
  <2> QED BY <1>2, <2>2, <2>4, <2>5, <2>6 DEF ListInv, ListFollows
<1>6. CASE RunSubtask
  <2>0. PICK n \in Nat \ {0} : n = stack[1].next
    BY <1>1
  <2>1. /\ n \in DOMAIN Steps /\ n \in Nat \ {0}
        /\ stack' = Append([stack EXCEPT ![Len(stack)].next = stack[Len(stack)].next + 1],
                           Frame(Steps[n], "call"))
    <3>1. subtasks[Root] = Steps
      BY DEF TreeInv
    <3> QED BY <1>1, <1>6, <2>0, <3>1, CalledTask
  <2>2. /\ stack[1].at = "subtasks" /\ UNCHANGED <<status, result>>
    BY <1>1, <1>6 DEF RunSubtask, Runs, taskVars
  <2>3. /\ Len(stack') = Len(stack) + 1
        /\ \A i \in 1 .. Len(stack) : stack'[i].at = stack[i].at
        /\ stack'[Len(stack)].next = stack[Len(stack)].next + 1
        /\ stack'[Len(stack) + 1] = Frame(Steps[n], "call")
    BY <1>1, <1>4, <2>1, RunSubtaskStack DEF TypeOK
  <2>4. /\ Len(stack') = 2 /\ stack'[1].at = "subtasks" /\ stack'[1].next = n + 1
        /\ stack'[2] = Frame(Steps[n], "call") /\ stack' # <<>>
    <3>1. Len(stack) = 1 /\ Len(stack) + 1 = 2 /\ 1 \in 1 .. Len(stack)
      BY <1>1
    <3>2. Len(stack') = 2 /\ stack'[2] = Frame(Steps[n], "call")
      BY <2>3, <3>1
    <3>3. stack'[1].at = "subtasks" /\ stack'[1].next = n + 1
      BY <2>0, <2>2, <2>3, <3>1
    <3>4. stack' # <<>>
      <4>1. Len(<<>>) = 0
        OBVIOUS
      <4> QED BY <3>2, <4>1
    <3> QED BY <3>2, <3>3, <3>4
  <2>5. status[Root] = "ACTIVE"
    BY <1>1, <2>2 DEF ListInv
  <2>6. \A k \in DOMAIN Steps : k \in Nat
    BY OwnTasks, LenProperties
  <2>7. \A k \in DOMAIN Steps : /\ k >= n => status[Steps[k]] = "INACTIVE"
                                /\ k < n => Done(Steps[k])
    BY <1>1, <1>3, <2>0, <2>6 DEF ListFollows
  <2>8. status[Steps[n]] = "INACTIVE"
    BY <2>1, <2>7
  <2>9. InHand(stack[2], Steps[n])'
    BY <2>2, <2>4, <2>8 DEF InHand, Frame
  <2>10. ASSUME NEW k \in DOMAIN Steps PROVE ListFollows(k)'
    <3>1. k \in Nat /\ stack'[1].next = n + 1 /\ n \in Nat \ {0} /\ Len(stack') # 1
      BY <2>1, <2>4, <2>6
    <3>2. CASE k >= n + 1
      BY <2>2, <2>7, <3>1, <3>2 DEF ListFollows
    <3>3. CASE k < n
      <4>1. Done(Steps[k])'
        BY <2>2, <2>7, <3>3 DEF Done
      <4> QED BY <3>1, <3>3, <4>1 DEF ListFollows
    <3>4. CASE k = n
      BY <2>9, <3>1, <3>4 DEF ListFollows
    <3> QED BY <3>1, <3>2, <3>3, <3>4
  <2> QED BY <1>2, <2>2, <2>4, <2>5, <2>10 DEF ListInv, ListFollows
<1>7. CASE FinishTask
  <2>1. /\ stack' = <<>> /\ UNCHANGED result
        /\ \A k \in DOMAIN Steps : status'[Steps[k]] = status[Steps[k]]
    BY <1>1, <1>4, <1>7, Levels DEF FinishTask, TypeOK
  <2>2. stack[1].next > Len(Steps)
    BY <1>1, <1>7 DEF FinishTask, TreeInv
  <2>3. DOMAIN Steps = 1 .. Len(Steps) /\ Len(Steps) \in Nat
    BY OwnTasks, LenProperties
  <2>4. \A k \in DOMAIN Steps : k \in Nat /\ ~(k >= stack[1].next)
    BY <1>1, <2>2, <2>3
  <2>5. \A k \in DOMAIN Steps : Done(Steps[k])
    BY <1>1, <1>3, <2>4 DEF ListFollows
  <2>6. \A k \in DOMAIN Steps : Done(Steps[k])'
    BY <2>1, <2>5 DEF Done
  <2> QED BY <1>2, <2>1, <2>6 DEF ListInv
<1> QED BY <1>1, <1>5, <1>6, <1>7

\* The steps of the task in hand.
LEMMA InHandStep ==
  ASSUME TypeOK, TreeInv, CancelInv, TaskStep, Len(stack) = 2, Undisturbed, Undisturbed',
         NEW t \in Elements(Steps), t = Current, status[Root] = "ACTIVE", InHand(stack[2], t)
  PROVE  \/ Len(stack') = 1 /\ Done(t)'
         \/ Len(stack') > 1 /\ InHand(stack[2], t)'
<1>1. /\ stack # <<>> /\ stack \in Seq(Frames) /\ t \in Task /\ Current # Root
      /\ stack[Len(stack)] = stack[2]
  BY TaskStepStack, Levels DEF TypeOK
<1>2. /\ Return => Len(stack') = 1
      /\ \A at \in Places : Goto(at) => Len(stack') = 2 /\ stack'[2].at = at
  <2>1. Return => Len(stack') = 1
    BY <1>1, ReturnStack
  <2>2. \A at \in Places : Goto(at) => Len(stack') = 2 /\ stack'[2].at = at
    BY <1>1, GotoStack
  <2> QED BY <2>1, <2>2
<1>3. ~error /\ result[t] # "told"
  BY <1>1 DEF CancelInv, Undisturbed
<1>4. CASE CallTask
  <2>1. stack[2].at = "call" /\ UNCHANGED <<status, result>>
    BY <1>1, <1>4 DEF CallTask, Runs, taskVars
  <2>2. status[t] = "INACTIVE"
    BY <2>1 DEF InHand
  <2>3. is_active(Root)
    BY RootHasNoParent DEF is_active
  <2>4. Goto("enter")
    BY <1>4, <2>2, <2>3, ParentOfStep DEF CallTask
  <2> QED BY <1>2, <2>1, <2>2, <2>4, SMTT(60) DEF InHand, Places
<1>5. CASE EnterTask
  <2>1. Len(stack') = 2 /\ stack'[2].at = "function"
    BY <1>2, <1>5 DEF EnterTask, Places
  <2> QED BY <2>1 DEF InHand
<1>6. CASE FunctionReturns
  <2>1. Len(stack') = 2 /\ stack'[2].at = "subtasks"
    BY <1>2, <1>6 DEF FunctionReturns, Places
  <2>2. result'[t] = "ok"
    BY <1>1, <1>3, <1>6 DEF FunctionReturns, TypeOK
  <2> QED BY <2>1, <2>2 DEF InHand
<1>7. CASE FunctionRaises
  <2>1. ~error'
    BY DEF Undisturbed
  <2>2. t \in Optional /\ Goto("subtasks")
    BY <1>7, <2>1 DEF FunctionRaises
  <2>3. Len(stack') = 2 /\ stack'[2].at = "subtasks"
    BY <1>2, <2>2 DEF Places
  <2> QED BY <2>2, <2>3 DEF InHand
<1>8. CASE StopRoot \/ CancelRoot
  <2>1. stack[2].at \in {"cancel", "cancelled"} /\ 2 \in 1 .. Len(stack)
    BY <1>1, <1>8 DEF StopRoot, CancelRoot, Runs
  <2> QED BY <1>3, <2>1 DEF CancelInv
<1>9. CASE AddSubtask
  <2>1. stack[2].at = "function"
    BY <1>1, <1>9 DEF AddSubtask, Runs
  <2>2. PICK s \in Task : Call(s)
    BY <1>9, AddedTask
  <2>3. Len(stack') = Len(stack) + 1 /\ \A i \in 1 .. Len(stack) : stack'[i] = stack[i]
    BY <1>1, <2>2, CallStack
  <2>4. Len(stack') = 3 /\ stack'[2].at = "function"
    BY <2>1, <2>3
  <2> QED BY <2>4 DEF InHand
<1>10. CASE SetProgress
  <2>1. stack[2].at = "function" /\ stack' = stack
    BY <1>1, <1>10 DEF SetProgress, Runs
  <2> QED BY <2>1, SMTT(60) DEF InHand
<1>11. CASE RunSubtask
  <2>1. stack[2].at = "subtasks" /\ UNCHANGED <<status, result>>
    BY <1>1, <1>11 DEF RunSubtask, Runs, taskVars
  <2>2. PICK s \in Task : stack' = Append([stack EXCEPT ![Len(stack)].next = stack[Len(stack)].next + 1],
                                          Frame(s, "call"))
    BY <1>11, CalledTask
  <2>3. Len(stack') = Len(stack) + 1 /\ \A i \in 1 .. Len(stack) : stack'[i].at = stack[i].at
    BY <1>1, <2>2, RunSubtaskStack
  <2>4. Len(stack') = 3 /\ stack'[2].at = "subtasks"
    BY <2>1, <2>3
  <2> QED BY <2>1, <2>4 DEF InHand
<1>12. CASE FinishTask
  <2>1. stack[2].at = "subtasks" /\ UNCHANGED result /\ Return
    BY <1>1, <1>12 DEF FinishTask, Runs
  <2>2. status'[t] = "COMPLETED"
    BY <1>1, <1>12 DEF FinishTask, TypeOK
  <2> QED BY <1>2, <2>1, <2>2 DEF InHand, Done
<1> QED BY <1>4, <1>5, <1>6, <1>7, <1>8, <1>9, <1>10, <1>11, <1>12 DEF TaskStep

\* A step further up the stack leaves the task in hand alone.
LEMMA DeeperStep ==
  ASSUME TypeOK, TreeInv, TaskStep, Len(stack) \in 3 .. 4,
         NEW t \in Elements(Steps), InHand(stack[2], t)
  PROVE  /\ Len(stack') > 1 /\ InHand(stack[2], t)'
         /\ status'[t] = status[t] /\ result'[t] = result[t]
<1> DEFINE n == Len(stack)
<1>1. stack # <<>> /\ stack \in Seq(Frames) /\ t \in Task /\ t # Root
  BY TaskStepStack, Levels DEF TypeOK
<1>2. Current \in Task /\ t # Current /\ Current # Root
  <2>1. n = 3 \/ n = 4
    BY <1>1
  <2> QED BY <1>1, <2>1, CurrentTask, Levels
<1>3. status'[t] = status[t] /\ result'[t] = result[t]
  BY <1>1, <1>2 DEF TaskStep, CallTask, EnterTask, FunctionReturns, FunctionRaises, StopRoot, CancelRoot,
       AddSubtask, SetProgress, RunSubtask, FinishTask, taskVars, TypeOK
<1>4. n \in 3 .. 4 /\ 2 \in 1 .. n /\ 2 \in 1 .. n - 1
  BY SMTT(60)
<1>5. Len(stack') > 1 /\ stack'[2] = stack[2]
  <2>1. CASE Return
    <3>1. Len(stack') = n - 1 /\ \A i \in 1 .. n - 1 : stack'[i] = stack[i]
      BY <1>1, <2>1, ReturnStack
    <3> HIDE DEF n
    <3> QED BY <1>4, <3>1
  <2>2. CASE \E at \in Places : Goto(at)
    <3>1. /\ Len(stack') = n
          /\ \A i \in 1 .. n : i < n => stack'[i] = stack[i]
      BY <1>1, <2>2, GotoStack
    <3> HIDE DEF n
    <3> QED BY <1>4, <3>1
  <2>3. CASE \E s \in Task : Adds(s)
    <3>1. /\ Len(stack') = n + 1
          /\ \A i \in 1 .. n : i < n => stack'[i] = stack[i]
      BY <2>3 DEF Adds
    <3> HIDE DEF n
    <3> QED BY <1>4, <3>1
  <2>4. CASE UNCHANGED stack
    BY <1>4, <2>4
  <2> QED BY <2>1, <2>2, <2>3, <2>4, TaskStepStack
<1> QED BY <1>3, <1>5 DEF InHand

\* The steps of the other tasks.
LEMMA ListTaskStep ==
  ASSUME TypeOK, TreeInv, CancelInv, RootInv, LoopInv, ListInv, TaskStep, Current # Root,
         Undisturbed, Undisturbed'
  PROVE  ListInv'
<1>1. /\ stack # <<>> /\ Len(stack) \in 2 .. 4 /\ stack[1].at = "subtasks"
      /\ stack' # <<>> /\ stack'[1] = stack[1] /\ stack[1] \in Frames
  <2>1. stack[1] \in Frames
    BY TaskStepStack, SomeFrame, ElementOfSeq
  <2> QED BY <2>1, RootWaits
<1>2. page' = "progress"
  <2>1. page = "progress"
    BY <1>1, RunsUnderProgressPage
  <2>2. page' = page
    BY DEF TaskStep, CallTask, EnterTask, FunctionReturns, FunctionRaises, StopRoot, CancelRoot,
         AddSubtask, SetProgress, RunSubtask, FinishTask, guiVars
  <2> QED BY <2>1, <2>2
<1>3. PICK n \in Nat \ {0} : n = stack[1].next
  BY <1>1 DEF Frames
<1>4. /\ status[Root] = "ACTIVE" /\ \A k \in DOMAIN Steps : ListFollows(k)
  BY <1>1 DEF ListInv, ListFollows
<1>5. n - 1 \in DOMAIN Steps /\ Len(stack) # 1 /\ InHand(stack[2], Steps[n - 1])
  <2>1. n - 1 \in DOMAIN Steps /\ Len(stack) # 1
    <3>1. Len(stack) >= 2 => stack[1].next - 1 \in DOMAIN Steps
      BY DEF TreeInv
    <3>2. Len(stack) >= 2 /\ Len(stack) # 1
      <4>1. \A m \in 2 .. 4 : m >= 2 /\ m # 1
        OBVIOUS
      <4> QED BY <1>1, <4>1
    <3> QED BY <1>3, <3>1, <3>2
  <2> QED BY <1>3, <1>4, <2>1 DEF ListFollows
<1>6. \A k \in DOMAIN Steps : /\ k \in Nat /\ Steps[k] \in Elements(Steps)
                              /\ Steps[k] \in Task /\ Steps[k] # Root
  BY OwnTasks, LenProperties, Levels DEF Elements
<1>7. Current \in Task /\ (Len(stack) = 2 => Current = Steps[n - 1])
      /\ (Len(stack) # 2 => Current \notin Elements(Steps))
  <2>1. Len(stack) = 2 \/ Len(stack) = 3 \/ Len(stack) = 4
    BY <1>1
  <2> QED BY <1>1, <1>3, <2>1, CurrentTask, Levels
<1>8. status'[Root] = "ACTIVE"
  <2>1. ~CancelRoot
    <3>1. CancelRoot => Len(stack) \in 1 .. Len(stack) /\ stack[Len(stack)].at = "cancelled"
      BY <1>1, SomeFrame DEF CancelRoot, Runs
    <3> QED BY <3>1 DEF CancelInv, Undisturbed
  <2> QED BY <1>4, <2>1, TaskStepStatus, Levels
<1>9. \A k \in DOMAIN Steps : k # n - 1 =>
        status'[Steps[k]] = status[Steps[k]] /\ result'[Steps[k]] = result[Steps[k]]
  <2>1. SUFFICES ASSUME NEW k \in DOMAIN Steps, k # n - 1
                 PROVE  /\ status'[Steps[k]] = status[Steps[k]]
                        /\ result'[Steps[k]] = result[Steps[k]]
    OBVIOUS
  <2>2. Steps[k] # Current
    BY <1>5, <1>6, <1>7, <2>1, OwnTasks
  <2> QED BY <1>6, <1>7, <2>2 DEF TaskStep, CallTask, EnterTask, FunctionReturns, FunctionRaises,
       StopRoot, CancelRoot, AddSubtask, SetProgress, RunSubtask, FinishTask, taskVars, TypeOK
<1>10. IF Len(stack') = 1 THEN Done(Steps[n - 1])' ELSE InHand(stack[2], Steps[n - 1])'
  <2>1. CASE Len(stack) = 2
    <3>1. \/ Len(stack') = 1 /\ Done(Steps[n - 1])'
          \/ Len(stack') > 1 /\ InHand(stack[2], Steps[n - 1])'
      BY <1>4, <1>5, <1>6, <1>7, <2>1, InHandStep
    <3>2. Len(stack') > 1 => Len(stack') # 1
      OBVIOUS
    <3> QED BY <3>1, <3>2
  <2>2. CASE Len(stack) # 2
    <3>1. Len(stack) \in 3 .. 4
      BY <1>1, <2>2
    <3>2. Len(stack') > 1 /\ InHand(stack[2], Steps[n - 1])'
      BY <1>5, <1>6, <3>1, DeeperStep
    <3>3. Len(stack') > 1 => Len(stack') # 1
      OBVIOUS
    <3> QED BY <3>2, <3>3
  <2> QED BY <2>1, <2>2
<1>11. ASSUME NEW k \in DOMAIN Steps PROVE ListFollows(k)'
  <2>1. stack'[1].next = n /\ k \in Nat
    BY <1>1, <1>3, <1>6
  <2>2. CASE k = n - 1
    <3>1. ~(k >= n) /\ ~(k < n - 1)
      BY <2>1, <2>2
    <3> QED BY <1>10, <2>1, <2>2, <3>1 DEF ListFollows
  <2>3. CASE k # n - 1
    <3>1. status'[Steps[k]] = status[Steps[k]] /\ result'[Steps[k]] = result[Steps[k]]
      BY <1>9, <2>3
    <3> QED BY <1>3, <1>4, <2>1, <2>3, <3>1 DEF ListFollows, Done
  <2> QED BY <2>2, <2>3
<1> QED BY <1>1, <1>2, <1>8, <1>11 DEF ListInv, ListFollows

\* The callback, the window thread and the user do not move the list on.
LEMMA ListOtherStep ==
  ASSUME TypeOK, RootInv, LoopInv, ListInv, SendTexts \/ StopLoop \/ PostWakeup \/ Window \/ User,
         Undisturbed, Undisturbed'
  PROVE  ListInv'
<1>1. CASE StartTasks
  <2>1. /\ stack' = <<Frame(Root, "call")>> /\ UNCHANGED <<status, result>>
        /\ page = "settings" /\ page' = "progress"
    BY <1>1 DEF StartTasks, Moves, LoopInv, taskVars
  <2>2. status[Root] = "INACTIVE" /\ \A k \in DOMAIN Steps : status[Steps[k]] = "INACTIVE"
    BY <2>1 DEF LoopInv, ListInv
  <2>3. stack'[1].at = "call" /\ stack'[1].next = 1 /\ Len(stack') = 1
    BY <2>1 DEF Frame
  <2>4. \A k \in DOMAIN Steps : k >= 1 /\ ~(k < 1 - 1) /\ k # 1 - 1
    BY OwnTasks, LenProperties
  <2>5. \A k \in DOMAIN Steps : ListFollows(k)'
    BY <2>1, <2>2, <2>3, <2>4 DEF ListFollows
  <2> QED BY <2>1, <2>2, <2>3, <2>5 DEF ListInv, ListFollows
<1>2. CASE ~StartTasks
  <2>1. ~CancelTasks
    BY DEF CancelTasks, Moves, Undisturbed, Quitting
  <2>2. UNCHANGED <<status, result, stack>>
    BY <1>2, <2>1, Elsewhere
  <2>3. /\ page' = "settings" => page = "settings"
        /\ stack = <<>> /\ page' = "progress" => page = "progress"
    BY <1>2, Elsewhere DEF RunTasksReturns
  <2> QED BY <1>2, <2>2, <2>3 DEF ListInv, Done, InHand
<1> QED BY <1>1, <1>2

-----------------------------------------------------------------------------
(* What the window thread may conclude.                                    *)

\* An undisturbed root that is called is new, and is entered.
LEMMA CalledRootIsEntered ==
  ASSUME TypeOK, TreeInv, CancelInv, RootInv, CallTask, Current = Root, ~Quitting
  PROVE  /\ stack' # <<>> /\ Len(stack') = 1 /\ stack'[1].at = "enter"
         /\ UNCHANGED <<note, gui, page>>
<1>1. /\ stack # <<>> /\ stack[Len(stack)] = stack[1] /\ stack[1].at = "call"
      /\ \A at \in Places : Goto(at) =>
           /\ Len(stack') = 1 /\ stack' # <<>> /\ stack'[1].at = at
  BY RootMoves DEF TaskStep, CallTask, Runs
<1>2. status[Root] = "INACTIVE"
  BY <1>1, Levels DEF RootInv, CancelInv
<1>3. Goto("enter") /\ UNCHANGED <<note, gui, page>>
  BY <1>2, RootHasNoParent DEF CallTask, guiVars
<1> QED BY <1>1, <1>3 DEF Places

\* LoopInv is kept by the background thread.
LEMMA LoopTaskStep ==
  ASSUME TypeOK, TreeInv, CancelInv, RootInv, LoopInv, TaskStep
  PROVE  LoopInv'
<1>1. /\ stack # <<>> /\ note = "idle" /\ page = "progress"
      /\ UNCHANGED <<gui, page, keep, queue>> /\ (error => error')
  <2>1. UNCHANGED <<gui, page, keep, queue>> /\ (error => error')
    BY DEF TaskStep, CallTask, EnterTask, FunctionReturns, FunctionRaises, StopRoot, CancelRoot,
         AddSubtask, SetProgress, RunSubtask, FinishTask, taskVars, guiVars, loopVars, TypeOK
  <2> QED BY <2>1, TaskStepStack, RunsUnderProgressPage
<1>2. ASSUME gui = "run"
      PROVE  /\ Len(stack') = 1 /\ stack'[1].at \in {"call", "enter", "function"}
             /\ note' = IF stack'[1].at = "function" THEN "send" ELSE "idle"
  <2>1. Len(stack) = 1 /\ stack[1].at \in {"call", "enter"} /\ ~Quitting
    BY <1>1, <1>2 DEF LoopInv, Quitting
  <2>2. Current = Root
    BY <1>1, <2>1, CurrentTask
  <2>3. /\ CallTask \/ EnterTask \/ FunctionReturns \/ RunSubtask \/ FinishTask
        /\ stack[Len(stack)] = stack[1]
        /\ \A at \in Places : Goto(at) => Len(stack') = 1 /\ stack'[1].at = at
    BY <2>2, RootMoves
  <2>4. CallTask \/ EnterTask
    BY <2>1, <2>3 DEF FunctionReturns, RunSubtask, FinishTask, Runs
  <2>5. CASE CallTask
    BY <1>1, <2>1, <2>2, <2>5, CalledRootIsEntered
  <2>6. CASE EnterTask
    BY <2>3, <2>6 DEF EnterTask, Notify, Places
  <2> QED BY <2>4, <2>5, <2>6
<1>3. ASSUME gui \in {"loop", "waiting", "confirm", "left"}
      PROVE  /\ ~error' => keep
             /\ keep /\ stack' = <<>> => note' \in {"send", "sent"}
  <2>1. ~error' => keep
    BY <1>1, <1>3 DEF LoopInv, RootInv
  <2>2. ASSUME stack' = <<>>
        PROVE  note' = "send"
    <3>1. Current = Root /\ ~Quitting
      BY <1>3, <2>2, RootWaits DEF Quitting
    <3>2. /\ CallTask \/ EnterTask \/ FunctionReturns \/ RunSubtask \/ FinishTask
          /\ \A at \in Places : Goto(at) => stack' # <<>>
      BY <3>1, RootMoves
    <3>3. ~RunSubtask
      <4>1. RunSubtask => Len(stack') = Len(stack) + 1 /\ Len(stack) \in Nat
        BY <1>1, CalledTask, RunSubtaskStack, SomeFrame
      <4>2. Len(stack') = 0
        BY <2>2
      <4> QED BY <4>1, <4>2
    <3>4. ~CallTask
      BY <2>2, <3>1, CalledRootIsEntered
    <3>5. FinishTask
      BY <2>2, <3>2, <3>3, <3>4 DEF EnterTask, FunctionReturns, Places
    <3>6. status[Root] # "COMPLETED"
      BY <1>1 DEF RootInv
    <3> QED BY <3>1, <3>5, <3>6 DEF FinishTask, Notify
  <2> QED BY <2>1, <2>2
<1>4. gui # "run_tasks"
  BY <1>1 DEF LoopInv
<1>5. /\ gui = "left" => ~keep
      /\ gui = "waiting" /\ ~keep => queue > 0
  BY <1>1 DEF LoopInv
<1> QED BY <1>1, <1>2, <1>3, <1>4, <1>5 DEF LoopInv

\* LoopInv is kept by the callback.
LEMMA LoopCallbackStep ==
  ASSUME TypeOK, CancelInv, RootInv, LoopInv, SendTexts \/ StopLoop \/ PostWakeup
  PROVE  LoopInv'
<1>1. UNCHANGED <<status, error, stack, gui, page>>
  BY DEF SendTexts, StopLoop, PostWakeup, taskVars, guiVars
<1>2. CASE SendTexts
  <2>1. /\ note = "send" /\ note' = "sent" /\ UNCHANGED <<keep, queue>>
        /\ gui \in {"waiting", "confirm", "error message"}
    BY <1>2 DEF SendTexts, Pumping, loopVars
  <2> QED BY <1>1, <2>1 DEF LoopInv
<1>3. CASE StopLoop
  <2>1. note = "sent" /\ queue' = queue
    BY <1>3 DEF StopLoop
  <2>2. page = "progress" /\ gui # "run"
    BY <2>1 DEF LoopInv, TypeOK
  <2>3. CASE status[Root] = "ACTIVE"
    <3>1. keep' = keep /\ note' = "idle"
      BY <1>3, <2>3 DEF StopLoop
    <3>2. stack # <<>>
      BY <2>2, <2>3 DEF RootInv
    <3> QED BY <1>1, <2>1, <2>2, <2>3, <3>1, <3>2 DEF LoopInv
  <2>4. CASE status[Root] # "ACTIVE"
    <3>1. keep' = FALSE /\ note' = "post"
      BY <1>3, <2>4 DEF StopLoop
    <3>2. status[Root] \in {"COMPLETED", "CANCELLED"}
      BY <2>1, <2>4, Levels DEF RootInv, TypeOK
    <3>3. status[Root] = "CANCELLED" => error \/ Quitting
      BY Levels DEF CancelInv
    <3> QED BY <1>1, <2>1, <2>2, <3>1, <3>2, <3>3 DEF LoopInv, Quitting
  <2> QED BY <2>3, <2>4
<1>4. CASE PostWakeup
  <2>1. note = "post" /\ note' = "idle" /\ keep' = keep /\ queue' = queue + 1 /\ queue \in Nat
    BY <1>4 DEF PostWakeup, TypeOK
  <2>2. queue' > 0
    BY <2>1
  <2>3. page # "settings" /\ ~(page = "progress" /\ gui = "run")
    BY <2>1 DEF LoopInv
  <2> QED BY <1>1, <2>1, <2>2, <2>3 DEF LoopInv
<1> QED BY <1>2, <1>3, <1>4

\* LoopInv is kept by the window thread and the user.
LEMMA LoopWindowStep ==
  ASSUME TypeOK, RootInv, LoopInv, Window \/ User
  PROVE  LoopInv'
<1> USE DEF Moves
<1>1. UNCHANGED <<error, note>>
  BY Elsewhere DEF Window, User, StartTasks, RunLoop, CheckLoop, GetMessage, BoxGetsMessage, Answer,
       StopTasks, CancelTasks, JoinReturns, Quit, RunTasksReturns, Acknowledge, LeaveFinishPage,
       PressCancel, CloseWindow, PressFinish, workerVars
<1>2. CASE StartTasks
  <2>1. /\ gui = "run_tasks" /\ gui' = "run" /\ page' = "progress"
        /\ stack' = <<Frame(Root, "call")>>
    BY <1>2 DEF StartTasks
  <2>2. Len(stack') = 1 /\ stack'[1].at = "call"
    BY <2>1 DEF Frame
  <2>3. note = "idle"
    BY <2>1 DEF LoopInv
  <2> QED BY <1>1, <2>1, <2>2, <2>3 DEF LoopInv
<1>3. CASE RunLoop
  <2>1. /\ gui = "run" /\ gui' = "loop" /\ keep' /\ UNCHANGED <<stack, page, status, queue>>
    BY <1>3 DEF RunLoop, workerVars
  <2>2. page = "progress" => stack # <<>>
    <3>1. page = "progress" => Len(stack) = 1
      BY <2>1 DEF LoopInv
    <3>2. Len(<<>>) = 0
      OBVIOUS
    <3> QED BY <3>1, <3>2
  <2> QED BY <1>1, <2>1, <2>2 DEF LoopInv
<1>4. CASE RunTasksReturns
  <2>1. gui = "left" /\ page = "progress" /\ UNCHANGED <<stack, status, keep>>
    BY <1>4 DEF RunTasksReturns, workerVars, loopVars
  <2>2. /\ error => gui' = "error message" /\ page' = page
        /\ ~error => gui' = "run" /\ page' = "finish"
    BY <1>4 DEF RunTasksReturns
  <2>3. ~error => status[Root] = "COMPLETED" /\ stack = <<>> /\ note \in {"idle", "post"}
    BY <2>1 DEF LoopInv, RootInv
  <2> QED BY <1>1, <2>1, <2>2, <2>3 DEF LoopInv
<1>5. CASE CancelTasks
  <2>1. /\ gui = "cancel" /\ gui' = "join" /\ status'[Root] = "CANCELLED"
        /\ UNCHANGED <<stack, page>>
    BY <1>5, Levels DEF CancelTasks, TypeOK
  <2> QED BY <1>1, <2>1 DEF LoopInv
<1>6. CASE CheckLoop \/ GetMessage \/ BoxGetsMessage \/ Answer
  <2>1. UNCHANGED <<stack, status, page, keep>>
    BY <1>6 DEF CheckLoop, GetMessage, BoxGetsMessage, Answer, workerVars, loopVars, guiVars
  <2>2. \/ gui = "loop" /\ gui' = IF keep THEN "waiting" ELSE "left"
        \/ gui = "waiting" /\ gui' = "loop"
        \/ gui = "confirm" /\ gui' \in {"confirm", "loop", "on_quit"}
        \/ gui = "error message" /\ gui' = "error message"
    BY <1>6 DEF CheckLoop, GetMessage, BoxGetsMessage, Answer, guiVars
  <2> QED BY <1>1, <2>1, <2>2 DEF LoopInv
<1>7. CASE StopTasks \/ JoinReturns \/ Quit \/ Acknowledge \/ LeaveFinishPage \/ PressCancel
           \/ CloseWindow
  <2>1. UNCHANGED <<stack, status, page, keep>>
    BY <1>7 DEF StopTasks, JoinReturns, Quit, Acknowledge, LeaveFinishPage, PressCancel,
         CloseWindow, workerVars, loopVars, taskVars
  <2>2. \/ gui # "run_tasks" /\ gui' \in {"cancel", "quit", "exit", "on_quit"}
        \/ gui = "waiting" /\ gui' = "confirm"
    BY <1>7 DEF StopTasks, JoinReturns, Quit, Acknowledge, LeaveFinishPage, PressCancel, CloseWindow
  <2> QED BY <1>1, <2>1, <2>2 DEF LoopInv
<1>8. CASE PressFinish
  <2>1. gui = "waiting" /\ gui' = "loop" /\ page = "finish" /\ UNCHANGED <<stack, status, page>>
    BY <1>8 DEF PressFinish, workerVars
  <2> QED BY <1>1, <2>1 DEF LoopInv
<1> QED BY <1>2, <1>3, <1>4, <1>5, <1>6, <1>7, <1>8 DEF Window, User

\* The finish page is shown when the list has completed, and nothing runs under it.
LEMMA FinishStep ==
  ASSUME IInv, Next
  PROVE  FinishPageIsEarned'
<1> USE DEF IInv
<1>1. CASE page = "finish"
  <2>1. stack = <<>>
    BY <1>1 DEF LoopInv
  <2>2. ~TaskStep
    BY <2>1, TaskStepStack
  <2>3. SendTexts \/ StopLoop \/ PostWakeup \/ Window \/ User
    BY <2>2 DEF Next, Worker, TaskStep
  <2>4. UNCHANGED <<result, error>> /\ \A t \in Elements(Steps) : status'[t] = status[t]
    BY <2>3, Elsewhere, Levels DEF CancelTasks, TypeOK
  <2> QED BY <1>1, <2>4 DEF FinishPageIsEarned
<1>2. CASE page # "finish" /\ page' = "finish"
  <2>1. ~TaskStep
    BY <1>2 DEF TaskStep, CallTask, EnterTask, FunctionReturns, FunctionRaises, StopRoot, CancelRoot,
         AddSubtask, SetProgress, RunSubtask, FinishTask, guiVars
  <2>2. SendTexts \/ StopLoop \/ PostWakeup \/ Window \/ User
    BY <2>1 DEF Next, Worker, TaskStep
  <2>3. RunTasksReturns
    BY <1>2, <2>2, Elsewhere DEF StartTasks
  <2>4. gui = "left" /\ page = "progress" /\ ~error /\ UNCHANGED <<status, result, error>>
    BY <1>2, <2>3 DEF RunTasksReturns, workerVars
  <2>5. stack = <<>> /\ Undisturbed
    BY <2>4 DEF LoopInv, RootInv, Undisturbed, Quitting
  <2>6. \A k \in DOMAIN Steps : Done(Steps[k])
    BY <2>4, <2>5 DEF ListInv
  <2>7. \A t \in Elements(Steps) : Done(t)
    BY <2>6 DEF Elements
  <2>8. \A t \in Task \ Optional : result[t] \notin {"failed", "told"}
    BY <2>4 DEF CancelInv, Quitting
  <2> QED BY <2>4, <2>7, <2>8 DEF FinishPageIsEarned, Done
<1>3. CASE page' # "finish"
  BY <1>3 DEF FinishPageIsEarned
<1> QED BY <1>1, <1>2, <1>3

-----------------------------------------------------------------------------
(* The theorems.                                                           *)

\* At first the window thread has not started the list.
LEMMA InitIInv == Init => IInv
<1> SUFFICES ASSUME Init PROVE IInv
  OBVIOUS
<1>1. /\ stack = <<>> /\ Len(stack) = 0 /\ note = "idle" /\ gui = "run_tasks" /\ page = "settings"
      /\ ~error /\ ~stopped /\ ~keep /\ ~force_exit /\ queue = 0
      /\ status = [t \in Task |-> "INACTIVE"] /\ result = [t \in Task |-> "none"]
      /\ reports = [t \in Task |-> 0]
      /\ subtasks = [t \in Task |-> IF t = Root THEN Steps ELSE <<>>]
  BY DEF Init
<1>2. TypeOK
  <2>1. subtasks \in [Task -> Seq(Task)]
    BY <1>1, OwnTasks
  <2>2. stack \in Seq(Frames) /\ queue \in Nat /\ reports \in [Task -> Nat]
    BY <1>1
  <2>3. /\ status \in [Task -> {"INACTIVE", "ACTIVE", "COMPLETED", "FAILED", "CANCELLED"}]
        /\ result \in [Task -> {"none", "ok", "failed", "told"}]
    BY <1>1
  <2>4. /\ error \in BOOLEAN /\ stopped \in BOOLEAN /\ keep \in BOOLEAN
        /\ force_exit \in BOOLEAN
    BY DEF Init
  <2> QED BY <1>1, <2>1, <2>2, <2>3, <2>4 DEF TypeOK
<1>3. TreeInv
  <2>1. Elements(<<>>) = {}
    BY DEF Elements
  <2>2. subtasks[Root] = Steps /\ \A t \in Task \ {Root} : subtasks[t] = <<>>
    BY <1>1, Levels
  <2>3. \A i : i \notin 2 .. 0
    OBVIOUS
  <2> QED BY <1>1, <2>1, <2>2, <2>3 DEF TreeInv
<1>4. CancelInv
  BY <1>1 DEF CancelInv
<1>5. RootInv /\ LoopInv
  BY <1>1, Levels DEF RootInv, LoopInv
<1>6. ListInv
  <2>1. \A k \in DOMAIN Steps : status[Steps[k]] = "INACTIVE"
    BY <1>1, Levels DEF Elements
  <2> QED BY <1>1, <2>1 DEF ListInv
<1>7. FinishPageIsEarned
  BY <1>1 DEF FinishPageIsEarned
<1> QED BY <1>2, <1>3, <1>4, <1>5, <1>6, <1>7 DEF IInv

\* Every step keeps the invariant.
LEMMA NextIInv == IInv /\ [Next]_vars => IInv'
<1> SUFFICES ASSUME IInv, [Next]_vars PROVE IInv'
  OBVIOUS
<1> USE DEF IInv
<1>1. CASE TaskStep
  <2>1. Next
    BY <1>1 DEF Next, Worker, TaskStep
  <2>2. TypeOK'
    BY <1>1, WorkerTypes DEF Worker, TaskStep
  <2>3. TreeInv'
    BY <2>1, TreeStep DEF LoopInv
  <2>4. CancelInv' /\ RootInv' /\ LoopInv'
    BY <1>1, CancelTaskStep, RootTaskStep, LoopTaskStep
  <2>5. ListInv'
    <3>1. Undisturbed' => Undisturbed
      BY <2>1, NothingIsTakenBack DEF Undisturbed, Quitting
    <3>2. ~Undisturbed' => ListInv'
      BY DEF ListInv
    <3> QED BY <1>1, <3>1, <3>2, ListRootStep, ListTaskStep
  <2> QED BY <2>1, <2>2, <2>3, <2>4, <2>5, FinishStep
<1>2. CASE SendTexts \/ StopLoop \/ PostWakeup \/ Window \/ User
  <2>1. Next
    BY <1>2 DEF Next, Worker
  <2>2. TypeOK'
    BY <1>2, WorkerTypes, WindowTypes DEF Worker
  <2>3. TreeInv'
    BY <2>1, TreeStep DEF LoopInv
  <2>4. CancelInv' /\ RootInv' /\ LoopInv'
    BY <1>2, CancelOtherStep, RootOtherStep, LoopCallbackStep, LoopWindowStep
  <2>5. ListInv'
    <3>1. Undisturbed' => Undisturbed
      BY <2>1, NothingIsTakenBack DEF Undisturbed, Quitting
    <3>2. ~Undisturbed' => ListInv'
      BY DEF ListInv
    <3> QED BY <1>2, <3>1, <3>2, ListOtherStep
  <2> QED BY <2>1, <2>2, <2>3, <2>4, <2>5, FinishStep
<1>3. CASE UNCHANGED vars
  <2> USE <1>3 DEF vars
  <2>1. TypeOK'
    BY ZenonT(30) DEF TypeOK
  <2>1b. LoopInv'
    BY DEF LoopInv
  <2>1a. FinishPageIsEarned'
    BY DEF FinishPageIsEarned
  <2>2. TreeInv'
    BY DEF TreeInv
  <2>3. CancelInv' /\ RootInv'
    BY DEF CancelInv, RootInv, Quitting
  <2>4. ListInv'
    BY DEF ListInv, Undisturbed, Quitting, Done, InHand
  <2> QED BY <2>1, <2>1a, <2>1b, <2>2, <2>3, <2>4
<1> QED BY <1>1, <1>2, <1>3 DEF Next, Worker, TaskStep

\* The invariant, with the types of the variables.
THEOREM Invariant == Spec => []IInv
  BY InitIInv, NextIInv, PTL DEF Spec

\* WindowsFrontend.run_tasks returns without an error, and the finish page follows, only when
\* the whole list has completed and no required function failed or was told to terminate.
THEOREM FinishPageEarned == Spec => []FinishPageIsEarned
<1>1. IInv => FinishPageIsEarned
  BY DEF IInv
<1> QED BY <1>1, Invariant, PTL

\* When the background thread has ended, the message loop has been told to stop and has a
\* message that wakes it (Frontend.stop).
THEOREM StopNotLost == Spec => []StopIsNotLost
<1>1. IInv => StopIsNotLost
  BY DEF IInv, StopIsNotLost, LoopInv, isAlive, TypeOK
<1> QED BY <1>1, Invariant, PTL

\* The ancestors of a task are its parents, their parents, and so on.
LEMMA UpReaches ==
  ASSUME NEW S, NEW t \in S
  PROVE  t \in Up(S) /\ Parents(t) \subseteq Up(S)
  BY DEF Up

\* The root is above every task that is called.
LEMMA RootIsAbove ==
  ASSUME TypeOK, TreeInv, stack # <<>>, Current # Root
  PROVE  \E p \in Parents(Current) : Root \in Line(p)
<1>1. Len(stack) \in 2 .. 4
  <2>1. \A m \in 1 .. 4 : m # 1 => m \in 2 .. 4
    OBVIOUS
  <2> QED BY <2>1, CurrentTask
<1>2. \A i \in 1 .. Len(stack) : stack[i].task \in Task
  <2>1. \A i \in 1 .. Len(stack) : stack[i] \in Frames
    BY SomeFrame, ElementOfSeq
  <2> QED BY <2>1 DEF Frames
<1>3. \A i \in 2 .. Len(stack) : stack[i - 1].task \in Parents(stack[i].task)
  <2> TAKE i \in 2 .. Len(stack)
  <2>1. i - 1 \in 1 .. Len(stack)
    BY <1>1
  <2>2. stack[i].task \in Elements(subtasks[stack[i - 1].task])
    BY DEF TreeInv
  <2> QED BY <1>2, <2>1, <2>2 DEF Parents
<1>4. stack[1].task = Root /\ Current = stack[Len(stack)].task
  <2>1. Len(stack) >= 1
    BY <1>1
  <2> QED BY <2>1, CurrentTask DEF TreeInv
<1>5. CASE Len(stack) = 2
  <2>1. Root \in Parents(Current)
    BY <1>3, <1>4, <1>5
  <2>2. Root \in Line(Root)
    BY RootHasNoParent
  <2> QED BY <2>1, <2>2
<1>6. CASE Len(stack) = 3
  <2> DEFINE p == stack[2].task
  <2>1. p \in Parents(Current) /\ Root \in Parents(p)
    BY <1>3, <1>4, <1>6
  <2> HIDE DEF p
  <2>2. Root \in Up({p})
    BY <2>1, UpReaches
  <2>3. Root \in Line(p)
    BY <2>2, UpReaches DEF Line
  <2> QED BY <2>1, <2>3
<1>7. CASE Len(stack) = 4
  <2> DEFINE p == stack[3].task
             q == stack[2].task
  <2>1. p \in Parents(Current) /\ q \in Parents(p) /\ Root \in Parents(q)
    BY <1>3, <1>4, <1>7
  <2> HIDE DEF p, q
  <2>2. q \in Up({p})
    BY <2>1, UpReaches
  <2>3. Root \in Up(Up({p}))
    BY <2>1, <2>2, UpReaches
  <2>4. Root \in Line(p)
    BY <2>3, UpReaches DEF Line
  <2> QED BY <2>1, <2>4
<1> QED BY <1>1, <1>5, <1>6, <1>7

\* A call that a cancelled root is above returns at once.
LEMMA CancelledCallReturns ==
  ASSUME TypeOK, TreeInv, CancelInv, CallTask, error \/ gui \in {"join", "quit"}
  PROVE  Return
<1>1. /\ stack # <<>> /\ note = "idle" /\ stack[Len(stack)].at = "call"
  BY DEF CallTask, Runs
<1>2. status[Root] \in {"CANCELLED", "COMPLETED"}
  BY <1>1 DEF CancelInv
<1>3. CASE Current = Root
  BY <1>2, <1>3 DEF CallTask
<1>4. CASE Current # Root
  <2>1. PICK p \in Parents(Current) : Root \in Line(p)
    BY <1>1, <1>4, RootIsAbove
  <2>2. ~is_active(p)
    BY <1>2, <2>1 DEF is_active
  <2> QED BY <2>1, <2>2 DEF CallTask
<1> QED BY <1>3, <1>4

\* In such a step no call gets past its first test.
LEMMA NoCallStarts ==
  ASSUME IInv, Next, error \/ gui \in {"join", "quit"}, NEW i \in DOMAIN stack, stack[i].at = "call"
  PROVE  ~(i \in DOMAIN stack' /\ stack'[i].at = "enter")
<1> DEFINE n == Len(stack)
<1>1. stack # <<>> /\ stack \in Seq(Frames) /\ i \in 1 .. n /\ n \in Nat \ {0}
  <2>1. stack \in Seq(Frames)
    BY DEF IInv, TypeOK
  <2>2. i \in 1 .. n /\ n \in Nat
    BY <2>1, LenProperties
  <2>3. stack # <<>> /\ n # 0
    BY <2>2
  <2> QED BY <2>1, <2>2, <2>3
<1>2. CASE TaskStep
  <2>1. CASE Return
    <3>1. /\ stack' \in Seq(Frames) /\ Len(stack') = n - 1
          /\ \A k \in 1 .. n - 1 : stack'[k] = stack[k]
      BY <1>1, <2>1, ReturnStack
    <3>2. DOMAIN stack' = 1 .. n - 1
      BY <3>1, LenProperties
    <3> QED BY <3>1, <3>2
  <2>2. CASE \E t \in Task : Adds(t)
    BY <1>1, <2>2 DEF Adds
  <2>3. CASE UNCHANGED stack
    BY <2>3
  <2>4. ASSUME NEW at \in Places, Goto(at)
        PROVE  ~(i \in DOMAIN stack' /\ stack'[i].at = "enter")
    <3>1. /\ \A k \in 1 .. n : k < n => stack'[k] = stack[k]
          /\ stack'[n].at = at
      BY <1>1, <2>4, GotoStack
    <3>2. CASE i < n
      BY <1>1, <3>1, <3>2
    <3>3. CASE ~(i < n)
      <4>1. i = n
        <5> HIDE DEF n
        <5> QED BY <1>1, <3>3
      <4>2. CallTask
        BY <1>2, <4>1 DEF TaskStep, EnterTask, FunctionReturns, FunctionRaises, StopRoot, CancelRoot,
             AddSubtask, SetProgress, RunSubtask, FinishTask, Runs
      <4>3. Return
        BY <4>2, CancelledCallReturns DEF IInv
      <4> QED BY <2>1, <4>3
    <3> QED BY <3>2, <3>3
  <2> QED BY <1>2, <2>1, <2>2, <2>3, <2>4, TaskStepStack DEF IInv
<1>3. CASE ~TaskStep
  <2>1. ~StartTasks
    BY <1>1 DEF StartTasks, Moves, IInv, LoopInv
  <2>2. stack' = stack
    BY <1>3, <2>1, Elsewhere DEF Next, Worker, TaskStep
  <2> QED BY <2>2
<1> QED BY <1>2, <1>3

\* Once a required function has raised, or on_quit has cancelled the list, no task's __call__
\* gets past its first test (Task.__call__, is_active).
THEOREM NothingStarts == Spec => NothingStartsAfterCancel
<1>1. IInv /\ [Next]_vars =>
        [error \/ gui \in {"join", "quit"} =>
           \A i \in DOMAIN stack :
             stack[i].at = "call" => ~(i \in DOMAIN stack' /\ stack'[i].at = "enter")]_vars
  BY NoCallStarts
<1> QED BY <1>1, Invariant, PTL DEF Spec, NothingStartsAfterCancel

\* Under the finish page the background thread clears _keep_running no more.
THEOREM StopsOnlyItsPage == Spec => StopsOnlyProgressPage
<1>1. IInv /\ [Next]_vars => [page = "finish" /\ keep /\ ~keep' => note' = note]_vars
  <2>1. SUFFICES ASSUME IInv, Next, page = "finish", keep, ~keep' PROVE note' = note
    OBVIOUS
  <2>2. stack = <<>> /\ note \in {"idle", "post"}
    BY <2>1 DEF IInv, LoopInv
  <2>3. ~TaskStep
    BY <2>1, <2>2, TaskStepStack DEF IInv
  <2>4. ~SendTexts /\ ~StopLoop /\ ~PostWakeup
    BY <2>1, <2>2 DEF SendTexts, StopLoop, PostWakeup, loopVars
  <2> QED BY <2>1, <2>3, <2>4, Elsewhere DEF Next, Worker, TaskStep
<1> QED BY <1>1, Invariant, PTL DEF Spec, StopsOnlyProgressPage
=============================================================================
