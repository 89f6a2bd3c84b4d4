------------------------- MODULE DesktopProperties -------------------------
(***************************************************************************)
(* What closing, hiding and exiting promise.                               *)
(***************************************************************************)
EXTENDS Desktop

TypeOK ==
    /\ mode \in {"open", "stopping", "shut"} /\ present \in BOOLEAN
    /\ result \in {"none", "stopped", "timeout"}
    /\ running \in BOOLEAN /\ forceExit \in BOOLEAN
    /\ icon \in BOOLEAN /\ tray \in BOOLEAN
    /\ window \in Windows /\ prompt \in Prompts
    /\ window \in {"exiting", "closed"} => prompt = "none" /\ forceExit

(* Only an exit shuts the controller: the gateway serves as long as the    *)
(* desktop goes on, in the tray or not.  When the shutdown of an exit has  *)
(* returned true, nothing of the gateway is left as the window closes, and *)
(* nothing comes later, if there was something to shut.  (A shutdown that  *)
(* finds nothing leaves the controller open, which may connect again.)     *)
ServiceKept ==
    /\ window \notin {"exiting", "closed"} => mode = "open"
    /\ window = "exiting" /\ mode # "stopping" /\ result = "stopped" => ~present
    /\ window = "closed" => mode # "stopping"
    /\ window = "closed" /\ mode = "shut" /\ result = "stopped" => ~present

(* An exit that is over has removed the icon, and with it the tray's menu: *)
(* nothing can show the window or exit once more.                          *)
IconRemoved == window = "closed" => ~icon

ShellInv == TypeOK /\ ServiceKept /\ IconRemoved

(* An exit ends, however long the gateway takes. *)
ExitCompletes == window = "exiting" ~> (window = "closed" \/ ~running)

---------------------------------------------------------------------------
(* What the documents say and the code does not do.                        *)

(* After `exit' no process of the desktop is left (PRODUCT_SPEC.md:307).   *)
(* main() switches quitOnLastWindowClosed off and nothing calls quit():    *)
(* event loop and process go on with neither window nor icon.              *)
ExitEndsProcess == window = "closed" ~> ~running

(* `Exit' of the tray and of the window are the same (ARCHITECTURE.md:68). *)
(* While the prompt is open the tray's sets forceExit_ and does nothing    *)
(* else; when the prompt is cancelled the desktop goes on, and the next    *)
(* click on the window's frame exits without asking.                       *)
TrayExitExits == forceExit /\ prompt = "none" => window \in {"exiting", "closed"}
=============================================================================
