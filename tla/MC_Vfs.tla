------------------------------- MODULE MC_Vfs -------------------------------
(***************************************************************************)
(* Small instances of Vfs for TLC: the paths the calls are tried with.     *)
(***************************************************************************)
EXTENDS Vfs

P(abs, toks, slash) == [abs |-> abs, toks |-> toks, slash |-> slash]

\* "", "/", "a", "b", "/a", "a/", "a/b", "/a/b/", ".", "..", "a/.", "a/./", "a/.."
MC_Paths ==
    {P(FALSE, <<>>, FALSE), P(TRUE, <<>>, FALSE),
     P(FALSE, <<"a">>, FALSE), P(FALSE, <<"b">>, FALSE), P(TRUE, <<"a">>, FALSE),
     P(FALSE, <<"a">>, TRUE), P(FALSE, <<"a", "b">>, FALSE), P(TRUE, <<"a", "b">>, TRUE),
     P(FALSE, <<".">>, FALSE), P(FALSE, <<"..">>, FALSE), P(FALSE, <<"a", ".">>, FALSE),
     P(FALSE, <<"a", ".">>, TRUE), P(FALSE, <<"a", "..">>, FALSE)}

\* "a", "b", "a/b"
MC_Paths2 ==
    {P(FALSE, <<"a">>, FALSE), P(FALSE, <<"b">>, FALSE), P(FALSE, <<"a", "b">>, FALSE)}

MC_Modes == {S_IFREG, S_IFDIR}

MC_RefModes == {{"r"}}

\* The data path: "a" and "." (the root, a directory).
MC_IOPaths == {P(FALSE, <<"a">>, FALSE), P(FALSE, <<".">>, FALSE)}

MC_IOModes == {S_IFREG, S_IFCHR}

\* O_RDWR, O_WRONLY | O_APPEND
MC_OpenModes == {{"r", "w"}, {"w", "a"}}

\* SEEK_SET, SEEK_CUR, SEEK_END and a whence that is none of them
MC_Whences == {SEEK_SET, SEEK_CUR, SEEK_END, 3}

MC_Offsets == {-1, 2}
=============================================================================
