------------------------------ MODULE IniFile ------------------------------
(***************************************************************************)
(* Class CIniFile (inifile.cpp): the map m_values that its constructor     *)
(* reads from a file, and the look-ups in it.                              *)
(***************************************************************************)
EXTENDS ConfigLines

NoTitle == "no title"   \* the section of lines above the first header, ""

\* Titles are not empty.
ASSUME TitleAssumption == NoTitle \notin Titles

\* section: the title of the last header line, in any form.
SectionAt(f, i) ==
    LET heads == {h \in 1 .. i - 1 : IsHeader(f.lines[h])} IN
    IF heads = {} THEN NoTitle ELSE f.lines[Max(heads)].name

\* The numbers in S from the least to the greatest.
Ascending(S) ==
    CHOOSE e \in [1 .. Cardinality(S) -> S] :
        \A j, k \in DOMAIN e : j < k => e[j] < e[k]

\* A value ends at a ";" behind a blank.
M_Kept(value) == Before(value, Signs)
Kept(value) == Before(value, Blank)

\* MakeKey(): section and name without regard to case.  GetValue() joins the
\* values of one key in the order of their lines, with a newline in between.
KeyLines(f, section, name) ==
    {i \in DOMAIN f.lines : /\ IsOption(f.lines[i]) /\ f.lines[i].name = name
                            /\ SectionAt(f, i) = section}
Values(f, section, name) ==
    LET places == Ascending(KeyLines(f, section, name))
    IN [k \in DOMAIN places |-> Kept(f.lines[places[k]].value)]

ini_parse_file(f) ==
    [key \in (Titles \cup {NoTitle}) \X Names |-> Values(f, key[1], key[2])]

HasValue(m_values, section, name) == m_values[<<section, name>>] # <<>>
HasSection(m_values, section) == \E name \in Names : HasValue(m_values, section, name)
=============================================================================
