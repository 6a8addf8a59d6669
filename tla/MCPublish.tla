----------------------------- MODULE MCPublish -----------------------------
(* PublishLayer for TLC.                                                   *)
EXTENDS PublishLayer

\* Everything that may go wrong around the dialog; everything that may go wrong
\* around the algorithms; a raster and its cancellation; two publishes in turn.
MCEnvs ==
    { {"vector", "fail", "lost", "jobfail", "pollfail", "cancelfail", "unlinkfail"},
      {"vector", "fail", "lost", "cleanfail", "jobfail", "pollfail", "removed"},
      {"raster", "fail", "lost", "cleanfail", "cancel"},
      {"single", "batch", "fail", "lost", "cleanfail", "cancel", "jobfail", "pollfail",
       "timeout", "unlinkfail"},
      {"vector", "raster", "fail", "cancel", "jobfail", "pollfail"},
      {"vector", "batch", "cancel", "timeout"} }
=============================================================================
