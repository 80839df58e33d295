----------------------------- MODULE MCLogPortal -----------------------------
(* Small instances of the logger and of the portal for TLC.                *)
EXTENDS LogPortal, TLC

CONSTANTS t1, t2, t3, log1, log2

Simple == [users |-> {t1, t2}, logs |-> {log1}, circular |-> FALSE, sizes |-> {2, 3},
           raw |-> FALSE, resets |-> FALSE]
Circular == [Simple EXCEPT !.circular = TRUE, !.sizes = {2}]

(* A log that is not circular, with entries of two sizes, raw ones or      *)
(* resets; a circular log; either for one thread alone.                    *)
LoggerUses ==
  {Simple, [Simple EXCEPT !.users = {t1}], [Simple EXCEPT !.raw = TRUE],
   [Simple EXCEPT !.sizes = {2}, !.resets = TRUE],
   [Circular EXCEPT !.users = {t1, t2, t3}], [Circular EXCEPT !.users = {t1}]}

(* A portal of both logs, with entries of two sizes; raw ones or not.      *)
Sized == [Simple EXCEPT !.logs = {}, !.sizes = {2, 4}]
PortalOnly == {Sized, [Sized EXCEPT !.raw = TRUE, !.sizes = {4}]}

AllUses == LoggerUses \cup PortalOnly
=============================================================================
