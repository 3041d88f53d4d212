------------------------------ MODULE MCUserName ------------------------------
\* UserName for TLC: a document written twice and two requests of each page,
\* so that an answer can be overtaken by a younger one.
EXTENDS UserName
=============================================================================
