------------------------------ MODULE Screens ------------------------------
(***************************************************************************)
(* apps/web/src/App.tsx over one ledger: the Audit screen, its credential  *)
(* panel and the Break It screen.  App mounts one screen at a time and a   *)
(* screen opened again starts afresh, so a behaviour is visits to one      *)
(* screen; the ledger grows under it, and may grow before its first answer.*)
(* The two halves of the Audit screen share nothing but the task id a row  *)
(* hands over, so each is visited on its own.                              *)
(***************************************************************************)
EXTENDS AuditConsole, CredentialPanel, BreakIt

VARIABLE view  \* the screen that is mounted

vars == <<server, view, audit, panel, breakIt>>

Views == {"audit", "credential", "breakit"}

Init ==
  /\ ServerInit
  /\ view \in Views
  /\ AuditFresh /\ PanelFresh /\ BreakItFresh
  /\ guarded \in BOOLEAN /\ (~ guarded => view = "breakit")  \* the others do not attack

Next ==
  \/ ServerNext /\ UNCHANGED <<view, audit, panel, breakIt>>
  \/ view = "audit" /\ AuditNext /\ UNCHANGED <<view, panel, breakIt>>
  \/ view = "credential" /\ PanelNext /\ UNCHANGED <<view, audit, breakIt>>
  \/ view = "breakit" /\ BreakItNext /\ UNCHANGED <<view, audit, panel>>

Spec == Init /\ [][Next]_vars
=============================================================================
