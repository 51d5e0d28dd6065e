SPECIFICATION UnseenSpec
INVARIANTS IsolatedItemsApart
CHECK_DEADLOCK FALSE
