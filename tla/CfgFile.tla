------------------------------ MODULE CfgFile ------------------------------
(***************************************************************************)
(* Class CCfgFile (cfgfile.cpp): what getString() finds in a file, and the *)
(* file that writeString() builds in pBuf.                                 *)
(*                                                                         *)
(* FindSection() and FindOption() look for their name anywhere in the      *)
(* line, provided that a separator stands where the name would end.  All   *)
(* names have the same length here, the case in which that matters.  What  *)
(* stands behind the bracket of a header is not told apart, so that titles *)
(* FindSection() would find there are left out.                            *)
(***************************************************************************)
EXTENDS ConfigLines

\* Lower case, and whatever follows the bracket is ignored.
FindSection(line, section) == IsHeader(line) /\ line.name = section

\* The name is found in the value, too.
FindOption(line, option) ==
    /\ IsOption(line) /\ line.form # "colon"
    /\ line.name = option \/ option \in Range(line.value)

NotFound == <<>>

\* The value is cut at the first "#", ";" or "//", wherever it stands.
Shown(value) == Before(value, Signs)

\* The first line that matches the name after the first that matches the
\* section, to the end of the file and through all later sections.
M_getString(f, section, name) ==       \* the loop does not stop at a match
    LET hits == {i \in DOMAIN f.lines :
                    /\ FindOption(f.lines[i], name)
                    /\ \E h \in 1 .. i - 1 : FindSection(f.lines[h], section)}
    IN IF hits = {} THEN NotFound ELSE Shown(f.lines[Max(hits)].value)
getString(f, section, name) ==
    LET hits == {i \in DOMAIN f.lines :
                    /\ FindOption(f.lines[i], name)
                    /\ \E h \in 1 .. i - 1 : FindSection(f.lines[h], section)}
    IN IF hits = {} THEN NotFound ELSE Shown(f.lines[Min(hits)].value)

-----------------------------------------------------------------------------
(* writeString() *)

\* Before it asks IsSection(), writeString() cuts off the last character: the
\* newline, or the bracket if the file ends without one.
IsSection(f, i) ==
    /\ IsHeader(f.lines[i]) /\ f.lines[i].form # "tail"
    /\ f.eol \/ i < Len(f.lines)

\* strcmp() with the text between the brackets, with the text before '='.
SectionFound(f, i, section) ==
    IsSection(f, i) /\ f.lines[i].name = section /\ f.lines[i].form = "exact"

M_OptionFound(f, i, name) == FALSE      \* the old value is never replaced
OptionFound(f, i, name) ==
    IsOption(f.lines[i]) /\ f.lines[i].name = name /\ f.lines[i].form = "exact"

\* A last line without a newline runs into the line that is added.
Merged(line, new) ==
    CASE IsHeader(line) /\ IsHeader(new) -> [line EXCEPT !.form = "loose"]
      [] IsHeader(line) /\ IsOption(new) -> [line EXCEPT !.form = "tail"]
      [] IsOption(line) /\ IsHeader(new) ->
            [line EXCEPT !.value = Append(@, new.name)]
      [] IsOption(line) /\ IsOption(new) ->
            [line EXCEPT !.value = @ \o <<new.name>> \o new.value]
      [] OTHER -> line

AppendLines(f, new) ==
    File(IF f.eol THEN f.lines \o new
         ELSE Front(f.lines) \o <<Merged(Last(f.lines), Head(new))>> \o Tail(new),
         TRUE)

\* The section is not there: a section called like the option is added.  If
\* the file is empty pBuf was never written to, and what is in the new memory
\* comes first; nSize does not count it, so that as much is cut off at the end.
NoSection(f, name, value) ==
    LET new == <<Header(name, "exact"), Option(name, value, "exact")>> IN
    IF f.lines # <<>> THEN {AppendLines(f, new)}
    ELSE {File(new, TRUE), File(<<Remark>>, FALSE), File(<<Remark, new[2]>>, FALSE)}

\* The lines after the new option when the search has stopped at line i: the
\* old option is left out, the header of the next section is kept.
M_Rest(f, i) == SubSeq(f.lines, i + 1, Len(f.lines))  \* sNextSection is lost
Rest(f, i) ==
    SubSeq(f.lines, IF IsOption(f.lines[i]) THEN i + 1 ELSE i, Len(f.lines))

\* The section starts at line h.
InSection(f, h, name, value) ==
    LET new   == Option(name, value, "exact")
        stops == {i \in h + 1 .. Len(f.lines) :
                     OptionFound(f, i, name) \/ IsSection(f, i)}
        stop  == Min(stops)
        rest  == Rest(f, stop)
    IN IF stops = {} THEN AppendLines(f, <<new>>)
       ELSE File(SubSeq(f.lines, 1, stop - 1) \o <<new>> \o rest,
                 IF rest = <<>> THEN TRUE ELSE f.eol)

\* What may be in pBuf when writeString() has read the file.
writeString(f, section, name, value) ==
    LET heads == {h \in DOMAIN f.lines : SectionFound(f, h, section)} IN
    IF heads = {} THEN NoSection(f, name, value)
    ELSE {InSection(f, Min(heads), name, value)}
=============================================================================
