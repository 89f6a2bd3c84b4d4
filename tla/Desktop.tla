------------------------------ MODULE Desktop ------------------------------
(***************************************************************************)
(* The main window, its tray icon and the choice made on closing           *)
(* (desktop/main_window.cpp, desktop/main.cpp), on top of the gateway      *)
(* controller as GatewayService describes it.                              *)
(*                                                                         *)
(* The prompt of closeEvent() runs a loop of its own, in which the tray's  *)
(* menu and the controller go on; shutdownAndWait() blocks both.           *)
(***************************************************************************)
EXTENDS GatewayService

VARIABLES
    running,     \* the process is there
    window,      \* the main window
    prompt,      \* the prompt of closeEvent(), with the tray's button enabled or not
    forceExit,   \* forceExit_
    icon,        \* show() was called on the tray icon
    tray         \* the system has a tray

shellVars == <<running, window, prompt, forceExit, icon, tray>>
vars == <<serviceVars, shellVars>>

Windows == {"visible", "hidden",
            "exiting",   \* inside the shutdownAndWait() of closeEvent()
            "closed"}    \* the close event was accepted

Prompts == {"none", "withTray", "withoutTray"}

Init ==
    /\ ServiceInit
    /\ running = TRUE
    /\ window = "visible"
    /\ prompt = "none"
    /\ forceExit = FALSE
    /\ tray \in BOOLEAN
    /\ icon = tray          \* setupTray()

(* The user interface is in an event loop: main()'s, or the prompt's. *)
Responsive == running /\ mode # "stopping" /\ window # "exiting"

IconSeen == icon /\ tray

---------------------------------------------------------------------------
(* shutdownAndWait() is called from closeEvent(). *)
BeginExit ==
    /\ window' = "exiting"
    /\ NothingToShut \/ ShutdownCalled

(* Two bugs: the window closes while the shutdown still goes on; it stays  *)
(* as long as the gateway does.                                            *)
EndExitAtOnce ==
    /\ running /\ window = "exiting"
    /\ window' = "closed"
    /\ icon' = FALSE
    /\ UNCHANGED <<serviceVars, running, prompt, forceExit, tray>>
EndExitWhenGone ==
    /\ running /\ window = "exiting" /\ mode # "stopping" /\ ~present
    /\ window' = "closed"
    /\ icon' = FALSE
    /\ UNCHANGED <<serviceVars, running, prompt, forceExit, tray>>

(* It has returned, whatever it returned: the icon goes, the event is accepted. *)
EndExit ==
    /\ running /\ window = "exiting" /\ mode # "stopping"
    /\ window' = "closed"
    /\ icon' = FALSE
    /\ UNCHANGED <<serviceVars, running, prompt, forceExit, tray>>

(* The window is closed by its frame; a prompt that is open prevents it. *)
CloseWindow ==
    /\ Responsive
    /\ window = "visible" /\ prompt = "none"
    /\ IF forceExit
       THEN BeginExit /\ UNCHANGED prompt
       ELSE /\ prompt' = IF tray THEN "withTray" ELSE "withoutTray"
            /\ UNCHANGED <<serviceVars, window>>
    /\ UNCHANGED <<running, forceExit, icon, tray>>

ChooseTray ==
    /\ Responsive
    /\ prompt = "withTray"
    /\ window' = "hidden"
    /\ prompt' = "none"
    /\ UNCHANGED <<serviceVars, running, forceExit, icon, tray>>

ChooseExit ==
    /\ Responsive
    /\ prompt # "none"
    /\ forceExit' = TRUE
    /\ prompt' = "none"
    /\ BeginExit
    /\ UNCHANGED <<running, icon, tray>>

Cancel ==
    /\ Responsive
    /\ prompt # "none"
    /\ prompt' = "none"
    /\ UNCHANGED <<serviceVars, running, window, forceExit, icon, tray>>

(* The tray's `show', or a double click on the icon. *)
ShowFromTray ==
    /\ Responsive
    /\ IconSeen
    /\ window' = "visible"
    /\ UNCHANGED <<serviceVars, running, prompt, forceExit, icon, tray>>

(* A bug: a second exit is begun inside the prompt. *)
ExitFromTrayAnyway ==
    /\ Responsive
    /\ IconSeen
    /\ forceExit' = TRUE
    /\ BeginExit
    /\ UNCHANGED <<running, prompt, icon, tray>>

(* The tray's `exit': requestExit().  While the prompt is open the window  *)
(* is blocked, inside its own close, and close() does nothing.             *)
ExitFromTray ==
    /\ Responsive
    /\ IconSeen
    /\ forceExit' = TRUE
    /\ IF prompt = "none" THEN BeginExit ELSE UNCHANGED <<serviceVars, window>>
    /\ UNCHANGED <<running, prompt, icon, tray>>

(* Pings and restarts, from the window or from the tray's menu, and what   *)
(* the controller does of itself.                                          *)
GatewayOperates ==
    /\ Responsive
    /\ Operate
    /\ UNCHANGED shellVars

ChildLeaves == running /\ Leaves /\ UNCHANGED shellVars

ShutdownEnds == running /\ ShutdownReturned /\ UNCHANGED shellVars

---------------------------------------------------------------------------
(* The system's tray comes and goes; Qt adds an icon that was shown, and   *)
(* the desktop shows it at its start only, if there is a tray then.        *)
TrayChanges ==
    /\ tray' = ~tray
    /\ UNCHANGED <<serviceVars, running, window, prompt, forceExit, icon>>

(* The session ends, or the process is killed. *)
Killed ==
    /\ running
    /\ running' = FALSE
    /\ UNCHANGED <<serviceVars, window, prompt, forceExit, icon, tray>>

(* A new desktop; the gateway of the old one, if it is there, is not its own. *)
Relaunch ==
    /\ ~running /\ running' = TRUE
    /\ Anew
    /\ window' = "visible" /\ prompt' = "none" /\ forceExit' = FALSE
    /\ icon' = tray
    /\ UNCHANGED tray

Next ==
    \/ CloseWindow \/ ChooseTray \/ ChooseExit \/ Cancel
    \/ ShowFromTray \/ ExitFromTray
    \/ EndExit
    \/ GatewayOperates \/ ChildLeaves \/ ShutdownEnds
    \/ TrayChanges
    \/ Killed \/ Relaunch

(* shutdownAndWait() is bounded by its timeouts, and closeEvent() goes on. *)
Spec == Init /\ [][Next]_vars /\ WF_vars(EndExit) /\ WF_vars(ShutdownEnds)
=============================================================================
