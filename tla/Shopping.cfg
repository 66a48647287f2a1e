SPECIFICATION ShoppingSpec
CONSTANTS
    p1 = p1
    c1 = c1
    l1 = l1
    l2 = l2
    NoCoupon = NoCoupon
    Products <- OneProduct
    Coupons <- MCCoupons
    Minimum <- MCMinimum
    Price <- OnePrice
    Filled <- OneFilled
    Mixed <- MCMixed
    Loads <- MCLoads
    Limit = 2
    MaxClicks = 2
INVARIANTS
    SettledPageIsCurrent
    SecondOrderHasACause
    WhatWasToldIsThere
PROPERTIES
    PagesComeBack
CHECK_DEADLOCK FALSE
