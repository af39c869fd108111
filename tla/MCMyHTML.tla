------------------------------- MODULE MCMyHTML -------------------------------
(***************************************************************************)
(* Instances of MyHTML for TLC. The .cfg files choose the number of        *)
(* workers, trees and nodes and one of these sets of token kinds.          *)
(***************************************************************************)
EXTENDS MyHTMLInv

BenchKinds == {"tag", "text", "raw", "newline", "eof"}
CDataKinds == {"text", "nlcdata", "eof"}
===============================================================================
