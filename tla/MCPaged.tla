------------------------------ MODULE MCPaged ------------------------------
EXTENDS PagedMessage

MCNames == {<<10>>, <<10, 11, 10>>, <<>>}
MCTexts == {<<>>, <<1>>, <<2, 3>>, <<4, 5, 6, 7>>}
=============================================================================
