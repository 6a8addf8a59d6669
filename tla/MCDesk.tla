------------------------------- MODULE MCDesk -------------------------------
(* Desk for TLC.                                                           *)
EXTENDS Desk

\* A clone that may fail anywhere, on a system that renames over an open file
\* and on one that does not; two clones in turn with edits between; the
\* algorithm; the connection with everything failing, with flows that overlap,
\* and with the dock; the watchdog.
MCEnvs ==
    { {"clone", "edits", "nodownload", "garbled", "writefails", "baselinefails", "noreopen"},
      {"clone", "windows", "writefails", "baselinefails", "death"},
      {"clone", "windows", "writefails", "putbackfails", "noreopen"},
      {"algorithm", "windows", "edits", "writefails", "baselinefails", "cancelclone", "nodownload"},
      {"manager", "nologin", "norevoke", "nomint", "nostore"},
      {"manager", "nomethod", "nodiscovery", "nologin", "noclear", "stuckentry"},
      {"manager", "closebusy", "nodiscovery", "nologin"},
      {"manager", "dock", "nosearch"},
      {"watchdog"}, {"watchdog", "reload"} }
=============================================================================
