---------------------------- MODULE ConfigLines ----------------------------
(***************************************************************************)
(* What classes CCfgFile and CIniFile have in common: a configuration file *)
(* as a sequence of lines.  A line is told apart by what the two parsers   *)
(* do with it, its spelling is its form:                                   *)
(*                                                                         *)
(*   header  "exact"  [s]            as writeString() compares it          *)
(*           "loose"  [S]            upper case, or a second bracket pair  *)
(*           "tail"   [s] and more   does not end with the bracket         *)
(*   option  "exact"  n=v            as writeString() compares it          *)
(*           "loose"  N = v          upper case or blanks                  *)
(*           "colon"  n: v           no '=' after the name                 *)
(*   remark                          comments, and all that is ignored     *)
(*                                                                         *)
(* A value is a sequence of words, for a value can contain names, and      *)
(* signs at which a parser takes the rest of the line for a remark.        *)
(***************************************************************************)
EXTENDS Integers, Sequences, FiniteSetsExt, SequencesExt

CONSTANTS Sections, Names,   \* names of sections and of options
          Words,             \* what values are made of, besides names
          Signs,             \* of these, the ones that CCfgFile cuts a value at,
          Blank              \* and, of these, the ones that CIniFile does, too

ASSUME SignsAssumption == Signs \subseteq Words /\ Blank \subseteq Signs

Titles == Sections \cup Names

\* What is left of a value that is cut at the first of some signs.
Before(value, signs) ==
    LET at == {i \in DOMAIN value : value[i] \in signs}
    IN IF at = {} THEN value ELSE SubSeq(value, 1, Min(at) - 1)

Header(title, form) == [kind |-> "header", name |-> title, form |-> form]
Option(name, value, form) ==
    [kind |-> "option", name |-> name, value |-> value, form |-> form]
Remark == [kind |-> "remark"]

Line ==
    [kind : {"header"}, name : Titles, form : {"exact", "loose", "tail"}]
    \cup [kind : {"option"}, name : Names, value : Seq(Words \cup Titles),
          form : {"exact", "loose", "colon"}]
    \cup {Remark}

IsHeader(line) == line.kind = "header"
IsOption(line) == line.kind = "option"

\* A file: its lines, and whether the last one ends with a newline.
File(lines, eol) == [lines |-> lines, eol |-> eol]
Texts == [lines : Seq(Line), eol : BOOLEAN]
Empty == File(<<>>, TRUE)
=============================================================================
