----------------------------- MODULE AciChannel -----------------------------
(***************************************************************************)
(* What the transport layer promises the two sides of the SPI link: one    *)
(* first-in first-out channel for commands, of bounded size, and one for   *)
(* events.  Every message arrives once, whole and in the order it was sent *)
(* in.  The processor moves the messages: when it asks for an event, one   *)
(* message may pass in each direction.                                     *)
(***************************************************************************)
EXTENDS Naturals, Sequences

CONSTANTS Size,      \* the most commands that wait
          Command, Event,
          None       \* no event

VARIABLES commands,  \* accepted from the processor, not yet with the radio
          inbox,     \* with the radio, which has not acted on them yet
          events,    \* raised by the radio, not yet with the processor
          event      \* what the processor was given last

vars == <<commands, inbox, events, event>>

Init == /\ commands = << >>
        /\ inbox = << >>
        /\ events = << >>
        /\ event = None

Accept(c) == /\ Len(commands) < Size
             /\ commands' = Append(commands, c)
             /\ UNCHANGED <<inbox, events>>

(* The processor uses up the event it was given; in doing so it may send,   *)
(* and what it sends may be refused, which changes nothing.                *)
Use == event' = None

Take == /\ commands # << >>
        /\ inbox' = Append(inbox, Head(commands))
        /\ commands' = Tail(commands)

Deliver == /\ events # << >>
           /\ event' = Head(events)
           /\ events' = Tail(events)

Exchange == \/ Take /\ Deliver
            \/ Take /\ event' = None /\ events = << >> /\ UNCHANGED events
            \/ Deliver /\ commands = << >> /\ UNCHANGED <<commands, inbox>>

(* The radio acts on a command, or by itself, and may raise events.        *)
Extends(s, t) == /\ Len(s) <= Len(t)
                 /\ SubSeq(t, 1, Len(s)) = s

Radio == /\ inbox' \in {inbox, IF inbox = << >> THEN << >> ELSE Tail(inbox)}
         /\ Extends(events, events')
         /\ UNCHANGED <<commands, event>>

(* The processor restarts: it forgets what waits on its side.              *)
Restart == /\ commands' = << >>
           /\ event' = None
           /\ UNCHANGED <<inbox, events>>

Send == \E c \in Command : Accept(c)

Next == \/ Send /\ (Use \/ UNCHANGED event)
        \/ Use /\ UNCHANGED <<commands, inbox, events>>
        \/ Exchange
        \/ Radio
        \/ Restart

Spec == Init /\ [][Next]_vars
=============================================================================
