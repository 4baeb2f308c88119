\* Expected violation: get and set with the JS number 2^32 act on item 0
\* instead of failing like an out-of-range index.
CONSTANTS
  Items = {i1, i2}
  NoVal = NoVal
  JsIndices <- MCJsIndices
  MaxLen = 3
  MaxLeaked = 2
SPECIFICATION Spec
PROPERTY JsArrayContract
