--------------------------- MODULE DesktopProofs ---------------------------
(***************************************************************************)
(* Theorems about closing, hiding and exiting, in whatever order the user, *)
(* the tray, the controller and the end of the session come.               *)
(***************************************************************************)
EXTENDS DesktopProperties, TLAPS

(* The invariant holds when the desktop starts. *)
LEMMA ShellInit == Init => ShellInv
<1> SUFFICES ASSUME Init PROVE ShellInv
  OBVIOUS
<1>1. /\ mode = "open" /\ present = FALSE /\ result = "none"
      /\ running = TRUE /\ window = "visible" /\ prompt = "none" /\ forceExit = FALSE
      /\ tray \in BOOLEAN /\ icon = tray
  BY DEF Init, ServiceInit
<1>2. TypeOK
  BY <1>1 DEF TypeOK, Windows, Prompts
<1>3. ServiceKept /\ IconRemoved
  BY <1>1 DEF ServiceKept, IconRemoved
<1>. QED
  BY <1>2, <1>3 DEF ShellInv

(* What the controller may do while a window is there. *)
LEMMA ServiceStep ==
    ASSUME ShellInv, GatewayOperates \/ ChildLeaves \/ ShutdownEnds
    PROVE  ShellInv'
<1> USE DEF ShellInv, TypeOK, ServiceKept, IconRemoved, shellVars
<1>1. CASE GatewayOperates
  BY <1>1 DEF GatewayOperates, Responsive, Operate
<1>2. CASE ChildLeaves
  BY <1>2 DEF ChildLeaves, Leaves
<1>3. CASE ShutdownEnds
  BY <1>3 DEF ShutdownEnds, ShutdownReturned
<1>. QED
  BY <1>1, <1>2, <1>3

(* The shutdown of an exit is called where there is no prompt any more. *)
LEMMA ExitBegins ==
    ASSUME ShellInv, BeginExit, Responsive, window \notin {"exiting", "closed"},
           forceExit', prompt' = "none", UNCHANGED <<running, icon, tray>>
    PROVE  ShellInv'
<1> USE DEF ShellInv, TypeOK, ServiceKept, IconRemoved, Windows, Prompts
<1>1. CASE NothingToShut
  BY <1>1 DEF BeginExit, NothingToShut
<1>2. CASE ShutdownCalled
  BY <1>2 DEF BeginExit, ShutdownCalled
<1>. QED
  BY <1>1, <1>2 DEF BeginExit

(* The window, its prompt and the tray's menu. *)
LEMMA ShellStep ==
    ASSUME ShellInv,
           \/ CloseWindow \/ ChooseTray \/ ChooseExit \/ Cancel
           \/ ShowFromTray \/ ExitFromTray \/ EndExit
    PROVE  ShellInv'
<1> USE DEF ShellInv, TypeOK, ServiceKept, IconRemoved, Windows, Prompts,
            serviceVars
<1>1. CASE CloseWindow
  <2>1. CASE forceExit
    BY <1>1, <2>1, ExitBegins DEF CloseWindow
  <2>2. CASE ~forceExit
    BY <1>1, <2>2 DEF CloseWindow, Responsive
  <2>. QED
    BY <2>1, <2>2
<1>2. CASE ChooseTray
  BY <1>2 DEF ChooseTray, Responsive
<1>3. CASE ChooseExit
  BY <1>3, ExitBegins DEF ChooseExit, Responsive
<1>4. CASE Cancel
  BY <1>4 DEF Cancel
<1>5. CASE ShowFromTray
  BY <1>5 DEF ShowFromTray, Responsive, IconSeen
<1>6. CASE ExitFromTray
  <2>1. CASE prompt = "none"
    BY <1>6, <2>1, ExitBegins DEF ExitFromTray, Responsive, IconSeen
  <2>2. CASE prompt # "none"
    BY <1>6, <2>2 DEF ExitFromTray
  <2>. QED
    BY <2>1, <2>2
<1>7. CASE EndExit
  BY <1>7 DEF EndExit
<1>. QED
  BY <1>1, <1>2, <1>3, <1>4, <1>5, <1>6, <1>7

(* The system's tray, the end of the session, and the next one. *)
LEMMA SessionStep ==
    ASSUME ShellInv, TrayChanges \/ Killed \/ Relaunch \/ UNCHANGED vars
    PROVE  ShellInv'
<1> USE DEF ShellInv, TypeOK, ServiceKept, IconRemoved, Windows, Prompts,
            serviceVars
<1>1. CASE TrayChanges
  BY <1>1 DEF TrayChanges
<1>2. CASE Killed
  BY <1>2 DEF Killed
<1>3. CASE Relaunch
  BY <1>3 DEF Relaunch, Anew
<1>4. CASE UNCHANGED vars
  BY <1>4 DEF vars, shellVars
<1>. QED
  BY <1>1, <1>2, <1>3, <1>4

(* Every step keeps it. *)
LEMMA ShellInvStep == ShellInv /\ [Next]_vars => ShellInv'
BY ServiceStep, ShellStep, SessionStep DEF Next

(* Window, prompt, icon and the shutdown of the controller fit together at *)
(* every moment of a session, and from one session to the next.            *)
THEOREM ShellCorrect == Spec => []ShellInv
BY ShellInit, ShellInvStep, PTL DEF Spec

(* The state stays within its types; no prompt is left open by an exit.    *)
THEOREM ShellTypeCorrect == Spec => []TypeOK
<1>1. ShellInv => TypeOK
  BY DEF ShellInv
<1>. QED
  BY <1>1, ShellCorrect, PTL

(* Only an exit takes the gateway away, and one that is over has done so.  *)
THEOREM ServiceAlwaysKept == Spec => []ServiceKept
<1>1. ShellInv => ServiceKept
  BY DEF ShellInv
<1>. QED
  BY <1>1, ShellCorrect, PTL
=============================================================================
