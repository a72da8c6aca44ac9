------------------------ MODULE MCLibraryResolution ------------------------
EXTENDS LibraryResolution

CONSTANTS a, b, c, main, m1, m2, m3, m4

MCSymbol == {a, b, c}
MCInput == {main}
MCMember == {m1, m2, m3, m4}
MCInputOrder == <<main>>

\* Two archives, the first named again after the second (-lx -ly -lx).
MCArchive == <<m1, m2, m3, m4, m1, m2>>

\* Every member has a name of its own.
DistinctKey(m) == m

\* m4 is the damaged member: indexed, but unreadable when it is pulled.
MCExportLists(o) ==
    IF o = main THEN {<<>>, <<b>>}
    ELSE IF o = m4 THEN {<<>>, <<c>>}
    ELSE {<<a>>, <<b>>, <<c>>, <<b, c>>, <<c, a>>}

MCImportSets(o) ==
    IF o = main THEN {{a}, {a, b}}
    ELSE IF o = m4 THEN {{}}
    ELSE {{}, {a}, {b}, {b, c}}
=============================================================================
