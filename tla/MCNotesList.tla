---------------------------- MODULE MCNotesList ----------------------------
(* NotesList for a few notes.                                              *)
EXTENDS NotesList

Notes == 1..4
=============================================================================
