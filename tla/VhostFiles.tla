----------------------------- MODULE VhostFiles -----------------------------
(***************************************************************************)
(* The files of one project's nginx virtual host, and what the helpers of  *)
(* internal/services/project/service.go do to them.                        *)
(*                                                                         *)
(* A vhost is three facts on disk.  "active" is the file abstrax-<name>    *)
(* (in sites-available, or in conf.d), "off" the copy named                *)
(* abstrax-<name>.disabled, and "link" the symlink in sites-enabled.       *)
(* The "sites" layout (Debian family) enables a vhost with the link, the   *)
(* "confd" layout (RHEL family) by the name of the file alone.             *)
(***************************************************************************)
CONSTANTS
  Layout,   \* platform.NginxLayout: "sites" or "confd"
  Contents, \* what a vhost file may hold
  NoFile    \* the file is absent

Slot  == Contents \cup {NoFile}
Files == [active : Slot, off : Slot, link : BOOLEAN]

NoVhost == [active |-> NoFile, off |-> NoFile, link |-> FALSE]

WriteActive(f, c) ==
  [f EXCEPT !.active = c, !.off = IF Layout = "confd" THEN NoFile ELSE @]

EnableFile(f) ==
  IF Layout = "sites" THEN [f EXCEPT !.link = TRUE]
  ELSE IF f.off = NoFile THEN f
  ELSE [f EXCEPT !.active = f.off, !.off = NoFile]

\* enableVhostFile removes the old link before it makes the new one.
Unlinked(f) == [f EXCEPT !.link = FALSE]

DisableFile(f) ==
  IF Layout = "sites" THEN [f EXCEPT !.link = FALSE]
  ELSE IF f.active = NoFile THEN f
  ELSE [f EXCEPT !.off = f.active, !.active = NoFile]

\* Mutant of DeleteFiles: the link stays.
DeleteFile(f) == [f EXCEPT !.active = NoFile, !.off = NoFile]

\* deleteVhostFiles: the link or .disabled copy goes with the file.
DeleteFiles(f) == [DisableFile(f) EXCEPT !.active = NoFile, !.off = NoFile]

\* addRollback.undo removes the file itself and nothing else.
RemoveActive(f) == [f EXCEPT !.active = NoFile]

\* snapshotVhost keeps the .disabled copy only on conf.d, the link only on sites.
Snapshot(f) ==
  IF Layout = "confd" THEN [f EXCEPT !.link = FALSE]
                      ELSE [f EXCEPT !.off = NoFile]

\* Mutants of RestoreFiles: nothing, or the file alone, is put back.
RestoreNothing(f, s) == f
RestoreActive(f, s)  == [f EXCEPT !.active = s.active]

RestoreFiles(f, s) ==
  IF Layout = "confd"
  THEN [f EXCEPT !.active = s.active, !.off = s.off]
  ELSE [f EXCEPT !.active = s.active, !.link = s.link]

(***************************************************************************)
(* What nginx reads when it parses its configuration: the enabled file, or *)
(* nothing.  A link whose file is gone is an error for the whole parse.    *)
(***************************************************************************)
Enabled(f)  == IF Layout = "sites" THEN f.link ELSE f.active # NoFile
Served(f)   == IF Enabled(f) THEN f.active ELSE NoFile
Dangling(f) == Enabled(f) /\ f.active = NoFile
=============================================================================
