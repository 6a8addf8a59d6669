----------------------------- MODULE Happenings -----------------------------
(***************************************************************************)
(* What may happen in one session of QGIS: one of the environments, chosen *)
(* at the start.  An environment is the set of the things the user, the    *)
(* portal and the machine may do in it; the parts of the session, which    *)
(* extend this module, name those things.                                  *)
(***************************************************************************)
CONSTANT Envs

VARIABLE env

May(what) == what \in env
=============================================================================
