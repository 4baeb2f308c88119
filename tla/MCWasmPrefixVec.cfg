\* One wrapped prefix vector called from JS: the glue's borrow flag, traps,
\* and JS numbers converted to usize.
CONSTANTS
  Items = {i1, i2}
  NoVal = NoVal
  JsIndices <- MCJsIndices
  MaxLen = 3
  MaxLeaked = 2
SPECIFICATION Spec
INVARIANT TypeOK
PROPERTY PrefixVecRefinement
