------------------------------ MODULE MCConsole ------------------------------
EXTENDS Speaker

MCChars == {"a"}
=============================================================================
