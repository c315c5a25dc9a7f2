---------------------------- MODULE MCOpenFiles ----------------------------
(***************************************************************************)
(* OpenFiles for TLC: one file that may be a binary, a path whose          *)
(* extension stays plain and one that does not.                            *)
(***************************************************************************)
EXTENDS OpenFiles

(* All but the server without either: its files are all plain.             *)
MCOptions == (BOOLEAN \X BOOLEAN) \ {<<FALSE, FALSE>>}

(* What comes next depends on no answer, and of the answers before a step  *)
(* the properties look at those of STAT only.                              *)
MCView == <<read_only, atari_enabled, dir, disk, fd, atari_fd,
            IF reply.kind = "size" THEN reply ELSE NoFile>>
=============================================================================
