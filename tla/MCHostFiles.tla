----------------------------- MODULE MCHostFiles -----------------------------
(* A template of two or three lines in three versions, and one user line. *)
EXTENDS HostFiles

CONSTANTS head, body, extra, other, user

Versions == {Text(<<head, body>>, TRUE), Text(<<head, body, extra>>, TRUE),
             Text(<<head, other>>, TRUE)}
TypedContents == Text(<<head, user>>, FALSE)
=============================================================================
