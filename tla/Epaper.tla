------------------------------- MODULE Epaper --------------------------------
(***************************************************************************)
(* epaper.c: the two flags that say whether the panel has to be            *)
(* initialised before it is used.                                          *)
(*                                                                         *)
(* The panel and its driver are external.  The panel keeps its state over  *)
(* a reset of the processor, which forgets the flags, and shows nothing    *)
(* until it is initialised after power-on.  Whether initialising it wakes  *)
(* it from sleep nobody knows: epaper_init is written as if it did, and    *)
(* epaper_gui.c says "FIXME - unable to recover after sleep (?)".  Such a  *)
(* panel is "woken" here, until it loses its power, and nothing is claimed *)
(* of what it shows.                                                       *)
(***************************************************************************)
EXTENDS Integers

VARIABLES
  g_once,     \* DEV_Module_Init has succeeded
  g_active,   \* the panel was initialised and not sent to sleep
  panel,      \* the panel: without power, ready, asleep, or initialised after it slept
  init_rc     \* what the last epaper_init returned; no caller looks at it

epaperVars == <<g_once, g_active, panel, init_rc>>

EpaperInit == g_once = FALSE /\ g_active = FALSE /\ panel = "off" /\ init_rc = 0

-----------------------------------------------------------------------------
init_not_needed ==
  /\ g_active
  /\ init_rc' = 0
  /\ UNCHANGED <<g_once, g_active, panel>>

\* DEV_Module_Init fails.
init_fails ==
  /\ ~g_active
  /\ ~g_once
  /\ init_rc' = -1
  /\ UNCHANGED <<g_once, g_active, panel>>

init_panel ==
  /\ ~g_active
  /\ g_once' = TRUE
  /\ panel' = IF panel \in {"asleep", "woken"} THEN "woken" ELSE "ready"
  /\ g_active' = TRUE
  /\ init_rc' = 0

epaper_init == init_not_needed \/ init_fails \/ init_panel

\* Mutant: the panel sleeps and the flag says that it is active.
SleepsActive ==
  /\ panel' = IF g_active THEN "asleep" ELSE panel
  /\ UNCHANGED <<g_once, g_active, init_rc>>

\* Nothing to do if it is not active.
epaper_sleep ==
  /\ panel' = IF g_active THEN "asleep" ELSE panel
  /\ g_active' = FALSE
  /\ UNCHANGED <<g_once, init_rc>>

\* A reset of the processor; without power the panel goes too.
EpaperReset(powered) ==
  /\ g_once' = FALSE
  /\ g_active' = FALSE
  /\ panel' = IF powered THEN panel ELSE "off"
  /\ init_rc' = 0
-----------------------------------------------------------------------------
EpaperTypeOK ==
  /\ g_once \in BOOLEAN
  /\ g_active \in BOOLEAN
  /\ panel \in {"off", "ready", "asleep", "woken"}
  /\ init_rc \in {0, -1}
=============================================================================
