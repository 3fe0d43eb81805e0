SPECIFICATION TreasuryFairSpec
CONSTANTS w1 = w1 w2 = w2 a1 = a1 a2 = a2
          Husband = Husband Nobody = Nobody
          Wives <- MCWives
          Auditors <- MCAuditors
          Incomes <- MCSmallPay
          Prices <- MCDear
          MaxBalance = 3
          MaxUnread = 1
INVARIANTS MoneyInv EntriesAreWhole
PROPERTY SomebodyShops
