---------------------------- MODULE MCConsoleEnd ----------------------------
EXTENDS Console

MCChars == {"a"}
=============================================================================
