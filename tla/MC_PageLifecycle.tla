-------------------------- MODULE MC_PageLifecycle --------------------------
EXTENDS PageLifecycle

\* Array initializers of storages 1 (root page) and 2 (non-root page);
\* kArrayPageType = 1.
MC_Initializers ==
  {[storage_id_ |-> 1, page_type_ |-> 1, root_ |-> TRUE],
   [storage_id_ |-> 2, page_type_ |-> 1, root_ |-> FALSE]}
=============================================================================
