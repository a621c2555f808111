---------------------------- MODULE MCNotesCutover ----------------------------
(* Two notes, and three clients: one creates a note, one edits the loaded note
   under the same key, one deletes the loaded note. *)
EXTENDS NotesCutover

MCRequests == {
    [kind |-> "put", key |-> "ka", note |-> "n1", expected |-> 0],
    [kind |-> "put", key |-> "ka", note |-> "l1", expected |-> 1],
    [kind |-> "delete", key |-> "kb", note |-> "l1", expected |-> 1]}
MCLegacyNotes == {"l1"}
MCNewNotes == {"n1"}
===============================================================================
