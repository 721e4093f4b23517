------------------------------ MODULE Firmware ------------------------------
(***************************************************************************)
(* What the bootloader promises the owner of the device.  The device has   *)
(* at most one application installed, complete and unaltered, or none; it  *)
(* runs only the one that is installed; and an update goes from one to the *)
(* other through a moment when there is none.                              *)
(***************************************************************************)
CONSTANTS Image,   \* the applications there are
          None     \* no application

VARIABLES installed,   \* the application the device would start
          running      \* the application that is running

vars == <<installed, running>>

Init == /\ installed \in Image \cup {None}
        /\ running = None

(* An update gives up the installed application, whichever it is.          *)
Discard == /\ running = None
           /\ installed # None
           /\ installed' = None
           /\ UNCHANGED running

Install(image) == /\ installed = None
                  /\ installed' = image
                  /\ UNCHANGED running

Start == /\ installed # None
         /\ running' = installed
         /\ UNCHANGED installed

Stop == /\ running # None
        /\ running' = None
        /\ UNCHANGED installed

Next == \/ Discard
        \/ \E image \in Image : Install(image)
        \/ Start
        \/ Stop

Spec == Init /\ [][Next]_vars
=============================================================================
