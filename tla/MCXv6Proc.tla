----------------------------- MODULE MCXv6Proc ------------------------------
EXTENDS Xv6Proc

\* The process in slot 2 lowers its priority, the one in slot 3 raises it:
\* three different priorities can compete.
UpAndDown == {<<2, 1>>, <<3, 9>>}
=============================================================================
